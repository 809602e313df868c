--------------------------- MODULE ContinuityProofs ---------------------------
(***************************************************************************)
(* What TLAPS proves of Continuity for any cards, members and bounds:      *)
(* what was erased is not quoted again, admitted receipts stay within      *)
(* reach of a later clear, and the overlay of a pending change always fits *)
(* what memory holds.  Inv is inductive; there is a lemma per action or    *)
(* group of actions.                                                       *)
(***************************************************************************)
EXTENDS Continuity, TLAPS

CardsOrNone == Cards \cup {NoCard}
Docs == [card : CardsOrNone, notes : Nat]
Proposals ==
  [Cards -> [at : {"none", "drafted", "sent", "presented", "granted", "used"},
             links : SUBSET Members, revision : Nat, generation : Nat]]
Safeties ==
  [generation : Nat, blocked : BOOLEAN, pending : [expected : CardsOrNone, desired : CardsOrNone],
   orphan : CardsOrNone, forgets : SUBSET Cards]
Kinds == {"none", "confirm", "clear", "erase"}
JobSteps ==
  {"idle", "prepare", "verify", "again", "record", "final", "reconcile", "orphan", "target",
   "admit", "remove", "publish", "republish", "report", "rewrite"}
Jobs ==
  [kind : Kinds, at : JobSteps, who : SUBSET Members, card : CardsOrNone, of : {"card", "orphan"},
   doc : Docs, aimed : SUBSET Cards, released : BOOLEAN]
ReaderSteps == {"idle", "verify", "access", "admitted", "quoted"}
Readers ==
  [at : ReaderSteps, card : CardsOrNone, generation : Nat, again : BOOLEAN]

Types ==
  /\ memory \in Docs /\ base \in Docs /\ disk \in Docs
  /\ proposal \in Proposals /\ lapsed \subseteq Cards /\ receipts \subseteq Cards
  /\ safety \in Safeties /\ gated \in BOOLEAN
  /\ ledger \in [Cards -> {"absent", "live", "forgotten"}]
  /\ job \in Jobs /\ reader \in Readers
  /\ held \subseteq receipts /\ gone \subseteq Cards

\* The cards that are somewhere have been confirmed, so their links no longer change;
\* those that are to be erased have been proposed.  Drafts are of this generation or an earlier one.
Proposed ==
  /\ \A c \in {memory.card, disk.card, safety.orphan, safety.pending.expected,
               safety.pending.desired, job.card, job.doc.card} \ {NoCard} : proposal[c].at = "used"
  /\ \A c \in gone \cup job.aimed : proposal[c].at # "none"
  /\ \A c \in receipts : proposal[c].at = "used"
  /\ \A c \in Cards : proposal[c].at = "used" \/ proposal[c].generation <= safety.generation
  /\ \A c \in Cards : proposal[c].at = "none" => proposal[c].generation = 0
  /\ safety.generation >= 1

\* The steps of each kind of job.
Confirms == {"prepare", "verify", "again", "record", "final", "publish"}
Fencing == {"admit", "remove", "publish", "report", "rewrite"}
Steps ==
  /\ job.kind = "none" <=> job.at = "idle"
  /\ job.kind = "confirm" =>
       job.at \in Confirms /\ job.card # NoCard /\ proposal[job.card].at = "used"
  /\ job.at \in {"orphan"} => job.kind = "clear"
  /\ job.at = "rewrite" => job.kind = "erase"
  /\ job.kind \in {"clear", "erase"} =>
       job.at \in {"reconcile", "republish", "orphan", "target"} \cup Fencing
  /\ job.at \in {"admit", "remove"} => job.card # NoCard
  /\ job.kind = "clear" => job.who = Members
  /\ job.at \in {"admit", "remove"} /\ job.of = "orphan" => job.card = safety.orphan
  /\ job.at \in {"publish", "report", "rewrite"} /\ job.kind # "confirm" => job.of = "card"
  /\ job.of = "orphan" \/ job.at \notin Fencing => job.aimed = {}

\* What a confirmation has found and done.
Confirmation ==
  job.kind = "confirm" =>
    /\ safety.orphan = NoCard
    /\ job.at # "publish" => ~Pending
    /\ job.at \in {"prepare", "verify", "again", "record"} => job.card \notin receipts
    /\ job.at # "prepare" => job.doc.card = job.card
    /\ job.at # "publish" => job.card \notin {memory.card, disk.card}
    /\ job.at = "final" => memory.card \notin held
    /\ job.card \notin gone

\* A pending change fits what memory holds, and what it replaces is accounted for.
PendingFits ==
  /\ Pending => memory.card \in {safety.pending.expected, safety.pending.desired}
  /\ safety.pending.expected \notin held
  /\ job.at \in {"publish", "republish"} => Pending /\ job.doc.card = safety.pending.desired
  /\ Pending \/ safety.orphan # NoCard => safety.blocked

\* What a deletion has found: nothing is pending but what it is not about.
Deletion ==
  /\ job.at = "orphan" \/ (job.kind = "clear" /\ job.at \in {"target", "admit", "remove"}) => ~Pending
  /\ job.at \in {"target", "report", "rewrite"} /\ Pending =>
       ~Aimed(safety.pending.expected) /\ ~Aimed(safety.pending.desired)
  /\ job.at \in {"admit", "remove"} /\ job.of = "card" => ~Pending /\ job.card = memory.card
  /\ job.at = "publish" /\ job.kind # "confirm" =>
       safety.pending = [expected |-> job.card, desired |-> NoCard]
  /\ job.at = "remove" => job.card \notin held
  /\ job.at \in {"admit", "remove"} => safety.blocked
  /\ \/ job.kind = "erase" /\ job.at \in {"reconcile", "republish"}
     \/ job.at = "target"
     \/ job.at \in Fencing /\ job.of = "card" /\ job.kind # "confirm"
     => safety.orphan = NoCard \/ ~Aimed(safety.orphan)
  /\ job.at \in {"report", "rewrite"} => memory.card = NoCard \/ ~Aimed(memory.card)
  /\ job.at = "rewrite" => job.doc.card = Snapshot.card
  /\ \A c \in job.aimed : Aimed(c)

\* The file holds what memory holds, the two ends of what is pending, or what a load prunes.
DiskFits ==
  disk.card \in {NoCard, memory.card, safety.pending.expected, safety.pending.desired}
                \cup (lapsed \ receipts)

\* Where an erased card is not.
Dead(c) ==
  /\ c \notin {memory.card, safety.orphan, safety.pending.expected, safety.pending.desired}
  /\ disk.card = c => c \in lapsed \ receipts
  /\ proposal[c].at = "used" \/ proposal[c].generation < safety.generation
ErasedIsDead ==
  /\ \A c \in gone : Dead(c)
  /\ \A c \in job.aimed : Dead(c) \/ (c = job.card /\ job.at \in {"admit", "remove", "publish"})
  /\ \A c \in job.aimed : proposal[c].at = "used" \/ proposal[c].generation < safety.generation

\* A reader that read before a fence cannot pass for one that read after it.
ReaderIsFenced ==
  /\ reader.at # "idle" => reader.generation <= safety.generation /\ reader.card # NoCard
  /\ reader.at # "idle" /\ safety.blocked => reader.generation < safety.generation
  /\ reader.at = "access" /\ reader.card \in receipts /\ reader.generation = safety.generation =>
       ledger[reader.card] # "forgotten"

Inv ==
  /\ Types /\ Proposed /\ Steps /\ Confirmation /\ PendingFits /\ Deletion /\ DiskFits
  /\ ReceiptsAreKnown /\ ErasedIsDead /\ ReaderIsFenced
----------------------------------------------------------------------------
(* Types: each update of a record of several fields, one field at a time   *)

\* The types of what everything starts from.
LEMMA Start == NoJob \in Jobs /\ NoReader \in Readers /\ NewSafety \in Safeties
<1>1. NoJob \in Jobs
  BY DEF NoJob, Jobs, Kinds, JobSteps, Docs, CardsOrNone
<1>2. NoReader \in Readers
  BY DEF NoReader, Readers, ReaderSteps, CardsOrNone
<1>3. NewSafety \in Safeties
  BY DEF NewSafety, NoPending, Safeties, CardsOrNone
<1> QED
  BY <1>1, <1>2, <1>3

\* Each step of a job is one.
LEMMA JobWords ==
  /\ {"confirm", "clear", "erase"} \subseteq Kinds
  /\ {"prepare", "verify", "again", "record", "final", "reconcile", "orphan", "target", "admit",
      "remove", "publish", "republish", "report", "rewrite"} \subseteq JobSteps
  /\ {"verify", "access", "admitted", "quoted"} \subseteq ReaderSteps
BY DEF Kinds, JobSteps, ReaderSteps

\* A job is a job after a change of one of its fields.
LEMMA JobField ==
  ASSUME NEW j \in Jobs
  PROVE  /\ \A k \in Kinds : [j EXCEPT !.kind = k] \in Jobs
         /\ \A a \in JobSteps : [j EXCEPT !.at = a] \in Jobs
         /\ \A w \in SUBSET Members : [j EXCEPT !.who = w] \in Jobs
         /\ \A c \in CardsOrNone : [j EXCEPT !.card = c] \in Jobs
         /\ \A o \in {"card", "orphan"} : [j EXCEPT !.of = o] \in Jobs
         /\ \A d \in Docs : [j EXCEPT !.doc = d] \in Jobs
         /\ \A s \in SUBSET Cards : [j EXCEPT !.aimed = s] \in Jobs
         /\ \A b \in BOOLEAN : [j EXCEPT !.released = b] \in Jobs
<1>1. \A k \in Kinds : [j EXCEPT !.kind = k] \in Jobs
  BY DEF Jobs
<1>2. \A a \in JobSteps : [j EXCEPT !.at = a] \in Jobs
  BY DEF Jobs
<1>3. \A w \in SUBSET Members : [j EXCEPT !.who = w] \in Jobs
  BY DEF Jobs
<1>4. \A c \in CardsOrNone : [j EXCEPT !.card = c] \in Jobs
  BY DEF Jobs
<1>5. \A o \in {"card", "orphan"} : [j EXCEPT !.of = o] \in Jobs
  BY DEF Jobs
<1>6. \A d \in Docs : [j EXCEPT !.doc = d] \in Jobs
  BY DEF Jobs
<1>7. \A s \in SUBSET Cards : [j EXCEPT !.aimed = s] \in Jobs
  BY DEF Jobs
<1>8. \A b \in BOOLEAN : [j EXCEPT !.released = b] \in Jobs
  BY DEF Jobs
<1> QED
  BY <1>1, <1>2, <1>3, <1>4, <1>5, <1>6, <1>7, <1>8

\* A confirmation starts.
LEMMA JobKindAtCard ==
  ASSUME NEW j \in Jobs, NEW k \in Kinds, NEW a \in JobSteps, NEW c \in CardsOrNone
  PROVE  [j EXCEPT !.kind = k, !.at = a, !.card = c] \in Jobs
<1> DEFINE jk == [j EXCEPT !.kind = k]
           ja == [jk EXCEPT !.at = a]
<1>1. ja \in Jobs
  BY JobField
<1>2. [j EXCEPT !.kind = k, !.at = a, !.card = c] = [ja EXCEPT !.card = c]
  OBVIOUS
<1> HIDE DEF ja
<1> QED
  BY <1>1, <1>2, JobField

\* A clear starts.
LEMMA JobKindAtWho ==
  ASSUME NEW j \in Jobs, NEW k \in Kinds, NEW a \in JobSteps, NEW w \in SUBSET Members
  PROVE  [j EXCEPT !.kind = k, !.at = a, !.who = w] \in Jobs
<1> DEFINE jk == [j EXCEPT !.kind = k]
           ja == [jk EXCEPT !.at = a]
<1>1. ja \in Jobs
  BY JobField
<1>2. [j EXCEPT !.kind = k, !.at = a, !.who = w] = [ja EXCEPT !.who = w]
  OBVIOUS
<1> HIDE DEF ja
<1> QED
  BY <1>1, <1>2, JobField

\* A job takes the document it will write.
LEMMA JobAtDoc ==
  ASSUME NEW j \in Jobs, NEW a \in JobSteps, NEW d \in Docs
  PROVE  [j EXCEPT !.at = a, !.doc = d] \in Jobs
<1> DEFINE ja == [j EXCEPT !.at = a]
<1>1. ja \in Jobs
  BY JobField
<1>2. [j EXCEPT !.at = a, !.doc = d] = [ja EXCEPT !.doc = d]
  OBVIOUS
<1> HIDE DEF ja
<1> QED
  BY <1>1, <1>2, JobField

\* A deletion takes the orphan.
LEMMA JobAtCardOf ==
  ASSUME NEW j \in Jobs, NEW a \in JobSteps, NEW c \in CardsOrNone, NEW o \in {"card", "orphan"}
  PROVE  [j EXCEPT !.at = a, !.card = c, !.of = o] \in Jobs
<1> DEFINE ja == [j EXCEPT !.at = a]
           jc == [ja EXCEPT !.card = c]
<1>1. jc \in Jobs
  BY JobField
<1>2. [j EXCEPT !.at = a, !.card = c, !.of = o] = [jc EXCEPT !.of = o]
  OBVIOUS
<1> HIDE DEF jc
<1> QED
  BY <1>1, <1>2, JobField

\* A deletion takes its target.
LEMMA JobAtCardOfAimed ==
  ASSUME NEW j \in Jobs, NEW a \in JobSteps, NEW c \in CardsOrNone, NEW o \in {"card", "orphan"},
         NEW s \in SUBSET Cards
  PROVE  [j EXCEPT !.at = a, !.card = c, !.of = o, !.aimed = s] \in Jobs
<1> DEFINE jo == [j EXCEPT !.at = a, !.card = c, !.of = o]
<1>1. jo \in Jobs
  BY JobAtCardOf
<1>2. [j EXCEPT !.at = a, !.card = c, !.of = o, !.aimed = s] = [jo EXCEPT !.aimed = s]
  OBVIOUS
<1> HIDE DEF jo
<1> QED
  BY <1>1, <1>2, JobField

\* An erasure starts.
LEMMA JobErasure ==
  ASSUME NEW j \in Jobs, NEW k \in Kinds, NEW a \in JobSteps, NEW w \in SUBSET Members,
         NEW c \in CardsOrNone, NEW o \in {"card", "orphan"}, NEW b \in BOOLEAN
  PROVE  [j EXCEPT !.kind = k, !.at = a, !.who = w, !.card = c, !.of = o, !.released = b] \in Jobs
<1> DEFINE jw == [j EXCEPT !.kind = k, !.at = a, !.who = w]
           jc == [jw EXCEPT !.card = c]
           jo == [jc EXCEPT !.of = o]
<1>1. jw \in Jobs
  BY JobKindAtWho
<1>2. [j EXCEPT !.kind = k, !.at = a, !.who = w, !.card = c, !.of = o, !.released = b] =
      [jo EXCEPT !.released = b]
  OBVIOUS
<1> HIDE DEF jw
<1>3. jo \in Jobs
  BY <1>1, JobField
<1> HIDE DEF jo
<1> QED
  BY <1>2, <1>3, JobField

\* A reader takes the card, for the first time and again.
LEMMA ReaderFields ==
  ASSUME NEW r \in Readers, NEW a \in ReaderSteps
  PROVE  /\ \A c \in CardsOrNone, g \in Nat :
              [r EXCEPT !.at = a, !.card = c, !.generation = g] \in Readers
         /\ \A b \in BOOLEAN : [r EXCEPT !.at = a, !.again = b] \in Readers
         /\ [r EXCEPT !.at = a] \in Readers
<1> DEFINE ra == [r EXCEPT !.at = a]
<1>1. ra \in Readers
  BY DEF Readers
<1>2. ASSUME NEW c \in CardsOrNone, NEW g \in Nat
      PROVE  [r EXCEPT !.at = a, !.card = c, !.generation = g] \in Readers
  <2> DEFINE rc == [ra EXCEPT !.card = c]
  <2>1. [r EXCEPT !.at = a, !.card = c, !.generation = g] = [rc EXCEPT !.generation = g]
    OBVIOUS
  <2> HIDE DEF ra
  <2>2. rc \in Readers
    BY <1>1 DEF Readers
  <2> HIDE DEF rc
  <2> QED
    BY <2>1, <2>2 DEF Readers
<1>3. ASSUME NEW b \in BOOLEAN
      PROVE  [r EXCEPT !.at = a, !.again = b] \in Readers
  <2>1. [r EXCEPT !.at = a, !.again = b] = [ra EXCEPT !.again = b]
    OBVIOUS
  <2> HIDE DEF ra
  <2> QED
    BY <1>1, <2>1 DEF Readers
<1> QED
  BY <1>1, <1>2, <1>3

\* A safety record is one after a change of one of its fields.
LEMMA SafetyField ==
  ASSUME NEW s \in Safeties
  PROVE  /\ [s EXCEPT !.generation = @ + 1] \in Safeties
         /\ \A b \in BOOLEAN : [s EXCEPT !.blocked = b] \in Safeties
         /\ \A c, d \in CardsOrNone : [s EXCEPT !.pending = [expected |-> c, desired |-> d]] \in Safeties
         /\ \A c \in CardsOrNone : [s EXCEPT !.orphan = c] \in Safeties
         /\ \A f \in SUBSET Cards : [s EXCEPT !.forgets = f] \in Safeties
<1>1. [s EXCEPT !.generation = @ + 1] \in Safeties
  BY DEF Safeties
<1>2. \A b \in BOOLEAN : [s EXCEPT !.blocked = b] \in Safeties
  BY DEF Safeties
<1>3. \A c, d \in CardsOrNone : [s EXCEPT !.pending = [expected |-> c, desired |-> d]] \in Safeties
  <2>1. \A p \in [expected : CardsOrNone, desired : CardsOrNone] : [s EXCEPT !.pending = p] \in Safeties
    BY DEF Safeties
  <2> QED
    BY <2>1
<1>4. \A c \in CardsOrNone : [s EXCEPT !.orphan = c] \in Safeties
  BY DEF Safeties
<1>5. \A f \in SUBSET Cards : [s EXCEPT !.forgets = f] \in Safeties
  BY DEF Safeties
<1> QED
  BY <1>1, <1>2, <1>3, <1>4, <1>5

\* ... and after each of the updates the code makes.
LEMMA SafetyTypes ==
  ASSUME NEW s \in Safeties, NEW c \in CardsOrNone, NEW d \in CardsOrNone
  PROVE  /\ Fenced(s, c) \in Safeties
         /\ Staged(s, c, d) \in Safeties
         /\ Unfenced(s) \in Safeties
         /\ \A f \in SUBSET Cards : [s EXCEPT !.pending = NoPending, !.forgets = f] \in Safeties
         /\ \A f \in SUBSET Cards : [s EXCEPT !.orphan = NoCard, !.forgets = f] \in Safeties
<1> DEFINE sg == [s EXCEPT !.generation = @ + 1]
           sp == [s EXCEPT !.pending = NoPending]
           so == [s EXCEPT !.orphan = NoCard]
<1>1. sg \in Safeties
  BY SafetyField
<1>2. Fenced(s, c) \in Safeties
  <2>1. Fenced(s, c) = [sg EXCEPT !.blocked = s.blocked \/ c # NoCard]
    BY DEF Fenced
  <2>2. (s.blocked \/ c # NoCard) \in BOOLEAN
    OBVIOUS
  <2> HIDE DEF sg
  <2> QED
    BY <1>1, <2>1, <2>2, SafetyField, Zenon
<1>3. Staged(s, c, d) \in Safeties
  <2> DEFINE sb == [sg EXCEPT !.blocked = TRUE]
  <2>1. Staged(s, c, d) = [sb EXCEPT !.pending = [expected |-> c, desired |-> d]]
    BY DEF Staged
  <2> HIDE DEF sg
  <2>2. sb \in Safeties
    BY <1>1, SafetyField
  <2>3. /\ \A x, y \in CardsOrNone : [sb EXCEPT !.pending = [expected |-> x, desired |-> y]] \in Safeties
    <3> HIDE DEF sb
    <3> QED BY ONLY <2>2, SafetyField
  <2> HIDE DEF sb
  <2> QED
    BY ONLY <2>1, <2>3, c \in CardsOrNone, d \in CardsOrNone
<1>4. Unfenced(s) \in Safeties
  <2>1. (s.blocked /\ ~(s.pending = NoPending /\ s.orphan = NoCard)) \in BOOLEAN
    OBVIOUS
  <2> QED
    BY <2>1, SafetyField, Zenon DEF Unfenced
<1>5. ASSUME NEW f \in SUBSET Cards
      PROVE  /\ [s EXCEPT !.pending = NoPending, !.forgets = f] \in Safeties
             /\ [s EXCEPT !.orphan = NoCard, !.forgets = f] \in Safeties
  <2>1. /\ [s EXCEPT !.pending = NoPending, !.forgets = f] = [sp EXCEPT !.forgets = f]
        /\ [s EXCEPT !.orphan = NoCard, !.forgets = f] = [so EXCEPT !.forgets = f]
    OBVIOUS
  <2>2. sp \in Safeties /\ so \in Safeties
    BY SafetyField DEF NoPending, CardsOrNone
  <2> HIDE DEF sp, so
  <2> QED
    BY <2>1, <2>2, SafetyField
<1> QED
  BY <1>2, <1>3, <1>4, <1>5

\* What is made of documents is a document.
LEMMA DocumentTypes ==
  ASSUME Types
  PROVE  /\ Snapshot \in Docs
         /\ \A d \in Docs, c \in CardsOrNone : [d EXCEPT !.card = c] \in Docs
         /\ \A d \in Docs : Pruned(d) \in Docs
<1>1. \A d \in Docs, c \in CardsOrNone : [d EXCEPT !.card = c] \in Docs
  BY DEF Docs
<1>2. safety.pending.desired \in CardsOrNone /\ NoCard \in CardsOrNone
  BY DEF Types, Safeties, CardsOrNone
<1> QED
  BY <1>1, <1>2 DEF Types, Snapshot, Pruned

\* The types of the fields the steps read.
LEMMA Cardinals ==
  ASSUME Types
  PROVE  /\ NoCard \in CardsOrNone /\ memory.card \in CardsOrNone /\ job.card \in CardsOrNone
         /\ safety.orphan \in CardsOrNone /\ safety.generation \in Nat
         /\ job.aimed \subseteq Cards /\ safety.forgets \subseteq Cards
BY DEF Types, Docs, Jobs, Safeties, CardsOrNone

\* A confirmation starts keeps the types.
LEMMA ConfirmStartTypes ==
  ASSUME Types, NEW c \in Cards, ConfirmStart(c)
  PROVE  Types'
<1>1. job' \in Jobs
  <2>1. CASE job' = NoJob
    BY <2>1, Start
  <2>2. CASE job' = [NoJob EXCEPT !.kind = "confirm", !.at = "prepare", !.card = c]
    <3>1. c \in CardsOrNone
      BY DEF CardsOrNone
    <3> QED
      BY <2>2, <3>1, Start, JobWords, JobKindAtCard
  <2> QED
    BY <2>1, <2>2 DEF ConfirmStart, Fails
<1> QED
  BY <1>1 DEF Types, ConfirmStart, kept, outside, history, Proposals

\* A confirmation puts its orphan on record keeps the types.
LEMMA ConfirmPrepareTypes ==
  ASSUME Types, ConfirmPrepare
  PROVE  Types'
<1> DEFINE a == IF ~gated THEN "final" ELSE IF memory.card \in receipts THEN "verify" ELSE "record"
           d == [memory EXCEPT !.card = job.card]
<1>1. job' = [job EXCEPT !.at = a, !.doc = d]
  BY DEF ConfirmPrepare
<1>2. a \in JobSteps
  BY JobWords
<1>3. d \in Docs
  BY DocumentTypes, Cardinals DEF Types
<1> HIDE DEF a, d
<1>4. job' \in Jobs
  BY <1>1, <1>2, <1>3, JobAtDoc DEF Types
<1> QED
  BY <1>4 DEF Types, ConfirmPrepare, kept, outside, history

\* A confirmation passes its last check keeps the types.
LEMMA ConfirmFinalTypes ==
  ASSUME Types, ConfirmFinal
  PROVE  Types'
<1>1. job' \in Jobs
  BY JobWords, JobField DEF Types, ConfirmFinal
<1>2. safety' \in Safeties
  BY SafetyTypes, Cardinals DEF Types, ConfirmFinal
<1> QED
  BY <1>1, <1>2 DEF Types, ConfirmFinal, kept, outside, history

\* A refused confirmation keeps the types.
LEMMA ConfirmRefusedTypes ==
  ASSUME Types, ConfirmRefused
  PROVE  Types'
<1>1. safety' \in Safeties
  <2>1. CASE safety' = safety
    BY <2>1 DEF Types
  <2>2. CASE safety' = [Fenced(safety, job.card) EXCEPT !.orphan = job.card]
    <3>1. Fenced(safety, job.card) \in Safeties
      BY SafetyTypes, Cardinals DEF Types
    <3> QED
      BY <2>2, <3>1, SafetyField, Cardinals
  <2> QED
    BY <2>1, <2>2 DEF ConfirmRefused
<1> QED
  BY <1>1, Start DEF Types, ConfirmRefused, Fails, kept, outside, history

\* A clear starts keeps the types.
LEMMA ClearStartTypes ==
  ASSUME Types, ClearStart
  PROVE  Types'
<1>1. job' \in Jobs
  BY Start, JobWords, JobKindAtWho DEF ClearStart
<1> QED
  BY <1>1 DEF Types, ClearStart, kept, outside, history

\* An erasure starts keeps the types.
LEMMA EraseStartTypes ==
  ASSUME Types, NEW who \in SUBSET Members, EraseStart(who)
  PROVE  Types'
<1> DEFINE mine == \E m \in who : LinkedTo(safety.orphan, m)
           a == IF mine THEN "admit" ELSE "reconcile"
           c == IF mine THEN safety.orphan ELSE NoCard
<1>1. job' = [NoJob EXCEPT !.kind = "erase", !.at = a, !.who = who, !.card = c,
                           !.of = "orphan", !.released = mine]
  BY DEF EraseStart
<1>2. a \in JobSteps /\ c \in CardsOrNone
  BY JobWords, Cardinals
<1>3. mine \in BOOLEAN
  OBVIOUS
<1> HIDE DEF mine, a, c
<1>4. job' \in Jobs
  BY <1>1, <1>2, <1>3, Start, JobWords, JobErasure, Zenon
<1> QED
  BY <1>4 DEF Types, EraseStart, kept, outside, history

\* A pending change is taken up keeps the types.
LEMMA ReconcileStartTypes ==
  ASSUME Types, ReconcileStart
  PROVE  Types'
<1>1. job' \in Jobs
  <2>1. CASE job' = [job EXCEPT !.at = "republish", !.doc = Snapshot]
    BY <2>1, JobWords, JobAtDoc, DocumentTypes DEF Types
  <2>2. CASE job' = [job EXCEPT !.at = IF job.kind = "clear" THEN "orphan" ELSE "target"]
    BY <2>2, JobWords, JobField DEF Types
  <2> QED
    BY <2>1, <2>2 DEF ReconcileStart
<1> QED
  BY <1>1 DEF Types, ReconcileStart, kept, outside, history

\* The orphan of a clear is taken up keeps the types.
LEMMA OrphanStartTypes ==
  ASSUME Types, OrphanStart
  PROVE  Types'
<1>1. job' \in Jobs
  <2>1. CASE job' = [job EXCEPT !.at = "target"]
    BY <2>1, JobWords, JobField DEF Types
  <2>2. CASE job' = [job EXCEPT !.at = "admit", !.card = safety.orphan, !.of = "orphan"]
    BY <2>2, JobWords, JobAtCardOf, Cardinals DEF Types
  <2> QED
    BY <2>1, <2>2 DEF OrphanStart
<1> QED
  BY <1>1 DEF Types, OrphanStart, kept, outside, history

\* Fencing what there is to delete keeps the types.
LEMMA TargetStartTypes ==
  ASSUME Types, TargetStart
  PROVE  Types'
<1> DEFINE c == IF memory.card # NoCard /\ Aimed(memory.card) THEN memory.card ELSE NoCard
           known == {d \in Cards : proposal[d].at # "none" /\ Aimed(d)}
           a == IF c = NoCard THEN "report" ELSE "admit"
<1>1. job' = [job EXCEPT !.at = a, !.card = c, !.of = "card", !.aimed = known]
  BY DEF TargetStart
<1>2. safety' = Fenced(safety, c)
  BY DEF TargetStart
<1>3. a \in JobSteps /\ c \in CardsOrNone
  BY JobWords, Cardinals
<1>4. known \in SUBSET Cards
  OBVIOUS
<1> HIDE DEF c, known, a
<1>5. job' \in Jobs
  BY <1>1, <1>3, <1>4, JobAtCardOfAimed DEF Types
<1>6. safety' \in Safeties
  BY <1>2, <1>3, SafetyTypes DEF Types
<1> QED
  BY <1>5, <1>6 DEF Types, TargetStart, kept, outside, history

\* Asking the ledger to forget keeps the types.
LEMMA AdmitForgetTypes ==
  ASSUME Types, AdmitForget
  PROVE  Types'
<1>1. job' \in Jobs
  <2>1. CASE job' = NoJob
    BY <2>1, Start
  <2>2. CASE job' = [job EXCEPT !.at = "remove"]
    BY <2>2, JobWords, JobField DEF Types
  <2> QED
    BY <2>1, <2>2 DEF AdmitForget, Fails
<1>2. safety' \in Safeties
  <2>1. CASE safety' = safety
    BY <2>1 DEF Types
  <2>2. CASE safety' = [safety EXCEPT !.forgets = @ \cup {job.card}]
    <3>1. safety.forgets \cup {job.card} \in SUBSET Cards
      BY Cardinals DEF Types, AdmitForget
    <3> QED
      BY <2>2, <3>1, SafetyField DEF Types
  <2> QED
    BY <2>1, <2>2 DEF AdmitForget
<1> QED
  BY <1>1, <1>2 DEF Types, AdmitForget, kept

\* Dropping the orphan keeps the types.
LEMMA RemoveOrphanTypes ==
  ASSUME Types, RemoveOrphan
  PROVE  Types'
<1>1. job' \in Jobs
  BY JobWords, JobField DEF Types, RemoveOrphan
<1>2. safety' \in Safeties
  <2> DEFINE f == safety.forgets \ {job.card}
  <2>1. safety' = [safety EXCEPT !.orphan = NoCard, !.forgets = f]
    BY DEF RemoveOrphan
  <2>2. f \in SUBSET Cards
    BY Cardinals
  <2> HIDE DEF f
  <2> QED
    BY <2>1, <2>2, SafetyTypes, Cardinals DEF Types
<1> QED
  BY <1>1, <1>2 DEF Types, RemoveOrphan, kept, outside, history

\* Staging the card for deletion keeps the types.
LEMMA RemoveCardTypes ==
  ASSUME Types, RemoveCard
  PROVE  Types'
<1>1. job' \in Jobs
  <2> DEFINE d == [Snapshot EXCEPT !.card = NoCard]
  <2>1. job' = [job EXCEPT !.at = "publish", !.doc = d]
    BY DEF RemoveCard
  <2>2. d \in Docs
    BY DocumentTypes, Cardinals
  <2> HIDE DEF d
  <2> QED
    BY <2>1, <2>2, JobWords, JobAtDoc DEF Types
<1>2. safety' \in Safeties
  BY SafetyTypes, Cardinals DEF Types, RemoveCard
<1> QED
  BY <1>1, <1>2 DEF Types, RemoveCard, kept, outside, history

\* Publishing the document keeps the types.
LEMMA PublishTypes ==
  ASSUME Types, Publish
  PROVE  Types'
<1>1. PICK w \in Writes(job.doc), readable \in BOOLEAN :
        /\ disk' = w.disk
        /\ IF readable /\ w.disk = job.doc
           THEN /\ memory' = [memory EXCEPT !.card = job.doc.card]
                /\ base' = w.disk
                /\ safety' = Unfenced([safety EXCEPT !.pending = NoPending,
                                                     !.forgets = IF job.doc.card = NoCard
                                                       THEN @ \ {safety.pending.expected} ELSE @])
                /\ job' = IF w.committed THEN AfterPublish ELSE NoJob
           ELSE /\ base' = IF w.committed THEN w.disk ELSE base
                /\ job' = NoJob /\ UNCHANGED <<memory, safety>>
  BY DEF Publish, Fails
<1>2. w.disk \in Docs
  BY DEF Types, Writes, Jobs
<1>3. job' \in Jobs
  <2>1. CASE job' = NoJob
    BY <2>1, Start
  <2>2. CASE job' = AfterPublish
    <3>1. CASE AfterPublish = NoJob
      BY <2>2, <3>1, Start
    <3>2. CASE AfterPublish = [job EXCEPT !.at = "report"]
      BY <2>2, <3>2, JobWords, JobField DEF Types
    <3>3. CASE AfterPublish = [job EXCEPT !.at = IF job.kind = "clear" THEN "orphan" ELSE "target"]
      BY <2>2, <3>3, JobWords, JobField DEF Types
    <3> QED
      BY <3>1, <3>2, <3>3 DEF AfterPublish
  <2> QED
    BY <1>1, <2>1, <2>2
<1>4. memory' \in Docs
  <2>1. job.doc.card \in CardsOrNone
    BY DEF Types, Jobs, Docs
  <2> QED
    BY <1>1, <2>1, DocumentTypes DEF Types
<1>5. safety' \in Safeties
  <2>1. CASE safety' = safety
    BY <2>1 DEF Types
  <2>2. CASE ~(safety' = safety)
    <3> DEFINE f == IF job.doc.card = NoCard THEN safety.forgets \ {safety.pending.expected}
                    ELSE safety.forgets
               s == [safety EXCEPT !.pending = NoPending, !.forgets = f]
    <3>1. safety' = Unfenced(s)
      BY <1>1, <2>2
    <3>2. f \in SUBSET Cards
      BY Cardinals
    <3> HIDE DEF f
    <3>3. s \in Safeties
      BY <3>2, SafetyTypes, Cardinals DEF Types
    <3> HIDE DEF s
    <3> QED
      BY <3>1, <3>3, SafetyTypes, Cardinals
  <2> QED
    BY <2>1, <2>2
<1>6. disk' \in Docs /\ base' \in Docs
  BY <1>1, <1>2 DEF Types
<1> QED
  BY <1>3, <1>4, <1>5, <1>6 DEF Types, Publish, outside

\* The end of a clear keeps the types.
LEMMA ClearReportTypes ==
  ASSUME Types, ClearReport
  PROVE  Types'
<1>1. safety' \in Safeties
  BY SafetyTypes, Cardinals DEF Types, ClearReport
<1> QED
  BY <1>1, Start, Cardinals DEF Types, ClearReport, kept, outside

\* Unfencing a scope keeps the types.
LEMMA EraseUnfenceTypes ==
  ASSUME Types, EraseUnfence
  PROVE  Types'
<1>1. job' \in Jobs
  BY JobWords, JobAtDoc, DocumentTypes DEF Types, EraseUnfence
<1>2. safety' \in Safeties
  BY SafetyTypes, Cardinals DEF Types, EraseUnfence
<1> QED
  BY <1>1, <1>2 DEF Types, EraseUnfence, kept, outside, history

\* A reply that reads the card keeps the types.
LEMMA CaptureTypes ==
  ASSUME Types, Capture
  PROVE  Types'
<1> DEFINE a == IF memory.card \in receipts THEN "verify" ELSE "access"
<1>1. reader' = [NoReader EXCEPT !.at = a, !.card = memory.card, !.generation = safety.generation]
  BY DEF Capture
<1>2. a \in ReaderSteps
  BY JobWords
<1> HIDE DEF a
<1>3. reader' \in Readers
  BY <1>1, <1>2, Start, Cardinals, ReaderFields
<1> QED
  BY <1>3 DEF Types, Capture, kept, outside, history

\* A reply that reads the card again keeps the types.
LEMMA CaptureAgainTypes ==
  ASSUME Types, CaptureAgain
  PROVE  Types'
<1> DEFINE a == IF reader.card \in receipts THEN "verify" ELSE "access"
<1>1. reader' = [reader EXCEPT !.at = a, !.again = TRUE]
  BY DEF CaptureAgain
<1>2. a \in ReaderSteps
  BY JobWords
<1> HIDE DEF a
<1>3. reader' \in Readers
  BY <1>1, <1>2, ReaderFields DEF Types
<1> QED
  BY <1>3 DEF Types, CaptureAgain, kept, outside, history

\* A confirmation starts keeps the invariant.
LEMMA ConfirmStartKeeps ==
  ASSUME Inv, NEW c \in Cards, ConfirmStart(c)
  PROVE  Inv'
<1>1. c \notin receipts /\ c # NoCard /\ c \notin {memory.card, disk.card}
  BY ContinuityAssumption DEF Inv, Proposed, ConfirmStart
<1>2. Current(proposal[c].generation) => c \notin gone
  BY DEF Inv, Types, ErasedIsDead, Dead, Current, ConfirmStart, Proposals, Safeties
<1>3. /\ proposal'[c].at = "used" /\ proposal[c].at = "granted"
      /\ \A d \in Cards \ {c} : proposal'[d] = proposal[d]
      /\ \A d \in Cards : proposal'[d].generation = proposal[d].generation
      /\ \A d \in Cards : proposal'[d].links = proposal[d].links
  BY DEF ConfirmStart, Inv, Types, Proposals
<1>4. /\ memory' = memory /\ disk' = disk /\ lapsed' = lapsed /\ receipts' = receipts
      /\ safety' = safety /\ ledger' = ledger /\ reader' = reader /\ held' = held /\ gone' = gone
  BY DEF ConfirmStart, kept, outside, history
<1>5. job.kind = "none" /\ job.at = "idle"
  BY DEF ConfirmStart, Inv, Steps
<1>6. \/ /\ job'.kind = "none" /\ job'.at = "idle" /\ job'.card = NoCard
         /\ job'.doc.card = NoCard /\ job'.aimed = {}
      \/ /\ job'.kind = "confirm" /\ job'.at = "prepare" /\ job'.card = c
         /\ job'.doc.card = NoCard /\ job'.aimed = {}
         /\ Current(proposal[c].generation) /\ ~Pending /\ safety.orphan = NoCard
  <2>1. CASE Current(proposal[c].generation) /\ ~Pending /\ safety.orphan = NoCard
    <3>1. job' = [NoJob EXCEPT !.kind = "confirm", !.at = "prepare", !.card = c]
      BY <2>1 DEF ConfirmStart
    <3> QED
      BY <2>1, <3>1 DEF NoJob
  <2>2. CASE ~(Current(proposal[c].generation) /\ ~Pending /\ safety.orphan = NoCard)
    <3>1. job' = NoJob
      BY <2>2 DEF ConfirmStart, Fails
    <3> QED
      BY <3>1 DEF NoJob
  <2> QED
    BY <2>1, <2>2
<1>7. Types'
  BY ConfirmStartTypes DEF Inv
<1>8. Proposed'
  BY <1>1, <1>3, <1>4, <1>6 DEF Inv, Types, Proposed, Docs, Safeties, CardsOrNone
<1>9. Steps'
  BY <1>1, <1>3, <1>6 DEF Steps, Confirms, Fencing
<1>10. Confirmation'
  BY <1>1, <1>2, <1>4, <1>6 DEF Confirmation, Pending, NoPending
<1>11. PendingFits'
  BY <1>4, <1>5, <1>6 DEF Inv, PendingFits, Pending, NoPending
<1>12. Deletion'
  BY <1>4, <1>6 DEF Deletion, Fencing, Pending, NoPending
<1>13. DiskFits' /\ ReceiptsAreKnown' /\ ReaderIsFenced'
  BY <1>4, <1>5, <1>6 DEF Inv, DiskFits, ReceiptsAreKnown, ReaderIsFenced
<1>14. ErasedIsDead'
  BY <1>3, <1>4, <1>6 DEF Inv, Types, ErasedIsDead, Dead
<1> QED
  BY <1>7, <1>8, <1>9, <1>10, <1>11, <1>12, <1>13, <1>14 DEF Inv

\* A pending change is taken up keeps the invariant.
LEMMA ReconcileStartKeeps ==
  ASSUME Inv, ReconcileStart
  PROVE  Inv'
<1>1. /\ memory' = memory /\ disk' = disk /\ lapsed' = lapsed /\ receipts' = receipts
      /\ proposal' = proposal /\ safety' = safety /\ ledger' = ledger /\ reader' = reader
      /\ held' = held /\ gone' = gone
  BY DEF ReconcileStart, kept, outside, history
<1>2. job.at = "reconcile" /\ job.kind \in {"clear", "erase"}
  BY DEF ReconcileStart, Inv, Steps, Confirms, Types, Jobs, Kinds
<1>3. /\ job'.kind = job.kind /\ job'.who = job.who /\ job'.card = job.card
      /\ job'.aimed = job.aimed
  BY DEF ReconcileStart, Inv, Types, Jobs
<1>4. \/ /\ Pending /\ job'.at = "republish" /\ job'.doc.card = safety.pending.desired
      \/ /\ job'.at = IF job.kind = "clear" THEN "orphan" ELSE "target"
         /\ job'.doc = job.doc
         /\ Pending => ~Aimed(safety.pending.expected) /\ ~Aimed(safety.pending.desired)
  <2>1. CASE Pending /\ (Aimed(safety.pending.expected) \/ Aimed(safety.pending.desired))
    <3>1. job' = [job EXCEPT !.at = "republish", !.doc = Snapshot]
      BY <2>1 DEF ReconcileStart
    <3>2. job'.at = "republish" /\ job'.doc = Snapshot
      BY <3>1 DEF Inv, Types, Jobs
    <3>3. Snapshot.card = safety.pending.desired
      BY <2>1 DEF Snapshot, Inv, Types, Docs
    <3> QED
      BY <2>1, <3>2, <3>3
  <2>2. CASE ~(Pending /\ (Aimed(safety.pending.expected) \/ Aimed(safety.pending.desired)))
    <3>1. job' = [job EXCEPT !.at = IF job.kind = "clear" THEN "orphan" ELSE "target"]
      BY <2>2 DEF ReconcileStart
    <3> QED
      BY <2>2, <3>1 DEF Inv, Types, Jobs
  <2> QED
    BY <2>1, <2>2
<1>5. \A c : Aimed(c)' <=> Aimed(c)
  BY <1>1, <1>3 DEF Aimed, LinkedTo
<1>6. Types'
  BY ReconcileStartTypes DEF Inv
<1>7. Proposed'
  BY <1>1, <1>3, <1>4 DEF Inv, Types, Proposed, Docs, Safeties, CardsOrNone
<1>8. Steps'
  BY <1>1, <1>2, <1>3, <1>4 DEF Inv, Steps, Confirms, Fencing
<1>9. Confirmation'
  BY <1>2, <1>3 DEF Confirmation
<1>10. PendingFits'
  BY <1>1, <1>4 DEF Inv, PendingFits, Pending
<1>11. Deletion'
  <2>1. job'.at = "orphan" => ~Pending
    BY <1>2, <1>4, <1>5 DEF Inv, Steps, Types, Safeties, Aimed, LinkedTo, Pending, NoPending
  <2>2. job'.at = "target" /\ Pending => ~Aimed(safety.pending.expected) /\ ~Aimed(safety.pending.desired)
    BY <1>4
  <2>a. (job'.at = "orphan" \/ (job'.kind = "clear" /\ job'.at \in {"target", "admit", "remove"}) =>
          ~Pending')
    BY <2>1, <1>1, <1>2, <1>3, <1>4 DEF Pending
  <2>b. (job'.at \in {"target", "report", "rewrite"} /\ Pending' =>
       ~Aimed(safety.pending.expected)' /\ ~Aimed(safety.pending.desired)')
    BY <2>2, <1>1, <1>2, <1>3, <1>4 DEF Aimed, LinkedTo, Pending
  <2>e. (\A d \in job'.aimed : Aimed(d)')
    BY <1>1, <1>2, <1>3 DEF Inv, Deletion, Aimed, LinkedTo
  <2>f. (job'.at \in {"republish", "target"} /\ job'.kind = "erase") \/ job'.at = "target" =>
          (safety'.orphan = NoCard \/ ~Aimed(safety.orphan)')
    BY <1>1, <1>2, <1>3, <1>4 DEF Inv, Deletion, Aimed, LinkedTo
  <2> QED
    BY <1>2, <1>3, <1>4, <2>a, <2>b, <2>e, <2>f DEF Deletion, Fencing, Aimed, LinkedTo
<1>12. DiskFits' /\ ReceiptsAreKnown' /\ ReaderIsFenced'
  BY <1>1, <1>2, <1>3 DEF Inv, DiskFits, ReceiptsAreKnown, ReaderIsFenced
<1>13. ErasedIsDead'
  BY <1>1, <1>2, <1>3, <1>4 DEF Inv, Types, ErasedIsDead, Dead
<1> QED
  BY <1>6, <1>7, <1>8, <1>9, <1>10, <1>11, <1>12, <1>13 DEF Inv


\* Recording the receipt keeps the invariant.
LEMMA ConfirmRecordKeeps ==
  ASSUME Inv, ConfirmRecord
  PROVE  Inv'
<1>1. /\ memory' = memory /\ disk' = disk /\ lapsed' = lapsed /\ proposal' = proposal
      /\ safety' = safety /\ reader' = reader /\ gone' = gone /\ base' = base /\ gated' = gated
      /\ receipts' = receipts \cup {job.card} /\ held' = (held \ {memory.card}) \cup {job.card}
  BY DEF ConfirmRecord, kept
<1>2. job.kind = "confirm" /\ job.at = "record" /\ job.card \in Cards
  BY DEF ConfirmRecord, Inv, Steps, Types, Jobs, CardsOrNone
<1>3. /\ job'.kind = job.kind /\ job'.who = job.who /\ job'.card = job.card
      /\ job'.aimed = job.aimed /\ job'.doc = job.doc /\ job'.at = "final" /\ job'.of = job.of
  BY DEF ConfirmRecord, Inv, Types, Jobs
<1>4. /\ ledger'[job.card] = "live" /\ \A c \in Cards \ {job.card} : ledger'[c] = ledger[c]
      /\ ledger' \in [Cards -> {"absent", "live", "forgotten"}]
  BY <1>2 DEF ConfirmRecord, Inv, Types
<1>5. /\ job.card \notin receipts /\ job.card \notin gone /\ ~Pending /\ safety.orphan = NoCard
      /\ job.card \notin {memory.card, disk.card} /\ job.doc.card = job.card
  BY <1>2 DEF Inv, Confirmation
<1>6. safety.pending.expected = NoCard /\ safety.pending.desired = NoCard
  BY <1>5 DEF Pending, NoPending
<1>7. Types'
  BY <1>1, <1>2, <1>4, JobWords, JobField DEF Inv, Types, ConfirmRecord
<1>8. Proposed' /\ Steps'
  BY <1>1, <1>2, <1>3 DEF Inv, Types, Proposed, Steps, Confirms, Fencing
<1>9. Confirmation' /\ PendingFits' /\ Deletion'
  BY <1>1, <1>2, <1>3, <1>5, <1>6, ContinuityAssumption
     DEF Inv, Confirmation, PendingFits, Deletion, Fencing, Aimed, LinkedTo, Pending, NoPending
<1>10. DiskFits' /\ ReceiptsAreKnown'
  BY <1>1, <1>2, <1>3, <1>5, <1>6 DEF Inv, DiskFits, ReceiptsAreKnown
<1>11. ErasedIsDead'
  BY <1>1, <1>2, <1>3, <1>5 DEF Inv, Types, ErasedIsDead, Dead
<1>12. ReaderIsFenced'
  BY <1>1, <1>2, <1>4 DEF Inv, Types, ReaderIsFenced
<1> QED
  BY <1>7, <1>8, <1>9, <1>10, <1>11, <1>12 DEF Inv

\* A refused confirmation keeps the invariant.
LEMMA ConfirmRefusedKeeps ==
  ASSUME Inv, ConfirmRefused
  PROVE  Inv'
<1>1. /\ memory' = memory /\ disk' = disk /\ lapsed' = lapsed /\ proposal' = proposal
      /\ receipts' = receipts /\ ledger' = ledger /\ reader' = reader /\ held' = held
      /\ gone' = gone /\ job' = NoJob
  BY DEF ConfirmRefused, Fails, kept, outside, history
<1>2. job.kind = "confirm" /\ job.at = "final" /\ job.card \in Cards /\ proposal[job.card].at = "used"
  BY DEF ConfirmRefused, Inv, Steps, Types, Jobs, CardsOrNone
<1>3. /\ ~Pending /\ safety.orphan = NoCard /\ job.card \notin gone
      /\ job.card \notin {memory.card, disk.card}
  BY <1>2 DEF Inv, Confirmation
<1>4. /\ safety'.pending = safety.pending
      /\ \/ job.card \notin receipts /\ safety' = safety
         \/ /\ safety'.generation = safety.generation + 1 /\ safety'.blocked
            /\ safety'.orphan = job.card
  <2>1. CASE job.card \in receipts
    <3>1. safety' = [Fenced(safety, job.card) EXCEPT !.orphan = job.card]
      BY <2>1 DEF ConfirmRefused
    <3>2. Fenced(safety, job.card) \in Safeties
      BY SafetyTypes, Cardinals DEF Inv, Types
    <3>3. /\ Fenced(safety, job.card).generation = safety.generation + 1
          /\ Fenced(safety, job.card).pending = safety.pending
          /\ Fenced(safety, job.card).blocked
      BY <1>2, ContinuityAssumption DEF Fenced, Inv, Types, Safeties
    <3> QED
      BY <3>1, <3>2, <3>3 DEF Safeties
  <2>2. CASE job.card \notin receipts
    BY <2>2 DEF ConfirmRefused
  <2> QED
    BY <2>1, <2>2
<1>5. /\ job'.kind = "none" /\ job'.at = "idle" /\ job'.card = NoCard
      /\ job'.doc.card = NoCard /\ job'.aimed = {}
  BY <1>1 DEF NoJob
<1>6. Types'
  BY ConfirmRefusedTypes DEF Inv
<1>17. Proposed'
  <2>1. \A c \in Cards : proposal'[c].at = "used" \/ proposal'[c].generation <= safety'.generation
    BY <1>1, <1>4 DEF Inv, Types, Safeties, Proposals, Proposed
  <2>2. safety'.generation >= 1
    BY <1>4 DEF Inv, Types, Safeties, Proposed
  <2> QED
    BY <2>1, <2>2, <1>1, <1>2, <1>4, <1>5 DEF Inv, Proposed
<1>7. Steps'
  BY <1>1, <1>2, <1>4, <1>5, ContinuityAssumption DEF Inv, Types, Steps, Confirms, Fencing
<1>8. Confirmation' /\ Deletion'
  BY <1>5 DEF Confirmation, Deletion, Fencing
<1>9. PendingFits'
  BY <1>1, <1>3, <1>4, <1>5 DEF Inv, PendingFits, Pending
<1>10. DiskFits'
  BY <1>1, <1>4 DEF Inv, DiskFits
<1>11. ReceiptsAreKnown'
  BY <1>1, <1>3, <1>4, <1>5, ContinuityAssumption DEF Inv, Types, ReceiptsAreKnown
<1>12. ErasedIsDead'
  BY <1>1, <1>3, <1>4, <1>5 DEF Inv, Types, Proposals, Safeties, ErasedIsDead, Dead
<1>13. ReaderIsFenced'
  BY <1>1, <1>4 DEF Inv, Types, Readers, Safeties, ReaderIsFenced
<1> QED
  BY <1>6, <1>17, <1>7, <1>8, <1>9, <1>10, <1>11, <1>12, <1>13 DEF Inv

\* Fencing what there is to delete keeps the invariant.
LEMMA TargetStartKeeps ==
  ASSUME Inv, TargetStart
  PROVE  Inv'
<1> DEFINE target == IF memory.card # NoCard /\ Aimed(memory.card) THEN memory.card ELSE NoCard
           known == {d \in Cards : proposal[d].at # "none" /\ Aimed(d)}
<1>1. /\ memory' = memory /\ disk' = disk /\ lapsed' = lapsed /\ proposal' = proposal
      /\ receipts' = receipts /\ ledger' = ledger /\ reader' = reader /\ held' = held
      /\ gone' = gone /\ job.at = "target" /\ job.kind \in {"clear", "erase"}
  BY DEF TargetStart, kept, outside, Inv, Steps, Confirms, Types, Jobs, Kinds
<1>2. /\ safety'.pending = safety.pending /\ safety'.orphan = safety.orphan
      /\ safety'.generation = safety.generation + 1
      /\ safety'.blocked <=> (safety.blocked \/ target # NoCard)
  <2>1. safety' = Fenced(safety, target)
    BY DEF TargetStart
  <2> HIDE DEF target
  <2> QED
    BY <2>1 DEF Fenced, Inv, Types, Safeties
<1>3. /\ job'.kind = job.kind /\ job'.who = job.who /\ job'.doc = job.doc /\ job'.card = target
      /\ job'.aimed = known /\ job'.of = "card"
      /\ job'.at = IF target = NoCard THEN "report" ELSE "admit"
  <2> DEFINE a == IF target = NoCard THEN "report" ELSE "admit"
  <2>1. job' = [job EXCEPT !.at = a, !.card = target, !.of = "card", !.aimed = known]
    BY DEF TargetStart
  <2> HIDE DEF a, target, known
  <2>2. /\ job'.kind = job.kind /\ job'.who = job.who /\ job'.doc = job.doc /\ job'.card = target
        /\ job'.aimed = known /\ job'.of = "card" /\ job'.at = a
    BY <2>1 DEF Inv, Types, Jobs
  <2> QED
    BY <2>2 DEF a
<1>4. \A d : Aimed(d)' <=> Aimed(d)
  BY <1>1, <1>3 DEF Aimed, LinkedTo
<1>5. Types'
  BY TargetStartTypes DEF Inv
<1>6. Proposed' /\ Steps'
  <2>1. Proposed'
    <3>1. target = NoCard \/ target = memory.card
      OBVIOUS
    <3>2. \A d \in known : proposal[d].at # "none"
      OBVIOUS
    <3> HIDE DEF target, known
    <3> QED
      BY <1>1, <1>2, <1>3, <3>1, <3>2 DEF Inv, Types, Proposed, Proposals, Safeties
  <2>2. Steps'
    <3>1. job'.at \in {"report", "admit"} /\ (job'.at = "admit" => job'.card # NoCard)
      BY <1>3
    <3> QED
      BY <1>1, <1>2, <1>3, <3>1 DEF Inv, Steps, Confirms, Fencing
  <2> QED
    BY <2>1, <2>2
<1>7. Confirmation'
  BY <1>1, <1>3 DEF Confirmation
<1>8. PendingFits'
  BY <1>1, <1>2, <1>3 DEF Inv, PendingFits, Pending
<1>9. Deletion'
  <2>1. Pending => ~Aimed(safety.pending.expected) /\ ~Aimed(safety.pending.desired)
    BY <1>1 DEF Inv, Deletion
  <2>2. target # NoCard => ~Pending
    BY <2>1 DEF Inv, PendingFits
  <2>3. target # NoCard \/ memory.card = NoCard \/ ~Aimed(memory.card)
    OBVIOUS
  <2>4. job.kind = "clear" => ~Pending
    BY <1>1 DEF Inv, Deletion
  <2>5. safety.orphan = NoCard \/ ~Aimed(safety.orphan)
    BY <1>1 DEF Inv, Deletion
  <2>6. target = NoCard \/ target = memory.card
    OBVIOUS
  <2>7. \A d \in known : Aimed(d)
    OBVIOUS
  <2>8. Pending' <=> Pending
    BY <1>2 DEF Pending
  <2> HIDE DEF target, known
  <2>10. job'.at \in {"report", "admit"} /\ (job'.at = "report" <=> target = NoCard)
    BY <1>3
  <2>a. (job'.at = "orphan" \/ (job'.kind = "clear" /\ job'.at \in {"target", "admit", "remove"}) =>
          ~Pending')
    BY <2>4, <2>8, <1>3, <2>10
  <2>b. (job'.at \in {"target", "report", "rewrite"} /\ Pending' =>
       ~Aimed(safety.pending.expected)' /\ ~Aimed(safety.pending.desired)')
    BY <2>1, <2>8, <1>2, <1>1, <1>3 DEF Aimed, LinkedTo
  <2>c. (job'.at \in {"admit", "remove"} /\ job'.of = "card" => ~Pending' /\ job'.card = memory'.card)
    BY <2>2, <2>8, <1>1, <1>3, <2>10, <2>6
  <2>d. (job'.at \in {"admit", "remove"} => safety'.blocked)
    BY <1>2, <2>10
  <2>e. (\A d \in job'.aimed : Aimed(d)')
    BY <2>7, <1>1, <1>3 DEF Aimed, LinkedTo
  <2>f. (safety'.orphan = NoCard \/ ~Aimed(safety.orphan)')
    BY <2>5, <1>1, <1>2, <1>3 DEF Aimed, LinkedTo
  <2>g. job'.at \in {"report", "rewrite"} => memory'.card = NoCard \/ ~Aimed(memory.card)'
    BY <2>3, <2>10, <1>1, <1>3 DEF Aimed, LinkedTo
  <2> QED
    BY <1>1, <1>2, <1>3, <2>10, <2>a, <2>b, <2>c, <2>d, <2>e, <2>f, <2>g DEF Deletion, Aimed,
        LinkedTo
<1>10. DiskFits' /\ ReceiptsAreKnown'
  BY <1>1, <1>2, <1>3 DEF Inv, DiskFits, ReceiptsAreKnown
<1>11. ErasedIsDead'
  <2>1. ASSUME NEW d \in gone
        PROVE  Dead(d)'
    <3>1. Dead(d)
      BY DEF Inv, ErasedIsDead
    <3> QED
      BY <1>1, <1>2, <3>1 DEF Dead, Inv, Types, Proposals, Safeties
  <2>2. ASSUME NEW d \in known
        PROVE  proposal'[d].at = "used" \/ proposal'[d].generation < safety'.generation
    BY <1>1, <1>2 DEF Inv, Proposed, Types, Proposals, Safeties
  <2>3. ASSUME NEW d \in known
        PROVE  Dead(d)' \/ (d = target /\ target # NoCard)
    <3>1. d \in Cards /\ d # NoCard /\ Aimed(d)
      BY ContinuityAssumption
    <3>2. d \notin {safety.orphan, safety.pending.expected, safety.pending.desired}
      BY <1>1, <3>1 DEF Inv, Deletion, Pending, NoPending
    <3>3. d = target \/ d # memory.card
      BY <3>1
    <3>4. d = target \/ (disk.card = d => d \in lapsed \ receipts)
      BY <3>1, <3>2, <3>3 DEF Inv, DiskFits
    <3> QED
      BY <1>1, <1>2, <2>2, <3>1, <3>2, <3>3, <3>4 DEF Dead
  <2> HIDE DEF target, known
  <2> QED
    BY <1>1, <1>3, <2>1, <2>2, <2>3 DEF ErasedIsDead
<1>12. ReaderIsFenced'
  BY <1>1, <1>2 DEF Inv, Types, Readers, Safeties, ReaderIsFenced
<1> QED
  BY <1>5, <1>6, <1>7, <1>8, <1>9, <1>10, <1>11, <1>12 DEF Inv

\* Asking the ledger to forget keeps the invariant.
LEMMA AdmitForgetKeeps ==
  ASSUME Inv, AdmitForget
  PROVE  Inv'
<1>1. /\ memory' = memory /\ disk' = disk /\ lapsed' = lapsed /\ proposal' = proposal
      /\ receipts' = receipts /\ reader' = reader /\ gone' = gone
  BY DEF AdmitForget, kept
<1>2. /\ job.at = "admit" /\ job.card \in receipts /\ ledger[job.card] = "live"
      /\ ledger' = [ledger EXCEPT ![job.card] = "forgotten"]
      /\ job.kind \in {"clear", "erase"}
  BY DEF AdmitForget, Inv, Steps, Confirms, Types, Jobs, Kinds
<1>3. /\ safety'.pending = safety.pending /\ safety'.orphan = safety.orphan
      /\ safety'.generation = safety.generation /\ safety'.blocked = safety.blocked
  BY DEF AdmitForget, Inv, Types, Safeties
<1>4. \/ /\ job'.kind = "none" /\ job'.at = "idle" /\ job'.card = NoCard
         /\ job'.doc.card = NoCard /\ job'.aimed = {} /\ held' = held
      \/ /\ job'.kind = job.kind /\ job'.who = job.who /\ job'.doc = job.doc
         /\ job'.card = job.card /\ job'.aimed = job.aimed /\ job'.of = job.of
         /\ job'.at = "remove" /\ held' = held \ {job.card}
  <2>1. CASE job' = NoJob /\ held' = held
    BY <2>1 DEF NoJob
  <2>2. CASE job' = [job EXCEPT !.at = "remove"] /\ held' = held \ {job.card}
    BY <2>2 DEF Inv, Types, Jobs
  <2> QED
    BY <2>1, <2>2 DEF AdmitForget, Fails
<1>5. safety.blocked
  BY <1>2 DEF Inv, Deletion
<1>6. Types'
  BY AdmitForgetTypes DEF Inv
<1>7. Proposed' /\ Steps'
  BY <1>1, <1>2, <1>3, <1>4 DEF Inv, Types, Proposed, Steps, Confirms, Fencing
<1>8. Confirmation' /\ PendingFits'
  BY <1>1, <1>2, <1>3, <1>4 DEF Inv, Confirmation, PendingFits, Pending
<1>9. Deletion'
  BY <1>1, <1>2, <1>3, <1>4 DEF Inv, Deletion, Fencing, Pending, Aimed, LinkedTo
<1>10. DiskFits' /\ ReceiptsAreKnown'
  BY <1>1, <1>2, <1>3, <1>4 DEF Inv, DiskFits, ReceiptsAreKnown
<1>11. ErasedIsDead'
  BY <1>1, <1>2, <1>3, <1>4 DEF Inv, ErasedIsDead, Dead
<1>12. ReaderIsFenced'
  BY <1>1, <1>3, <1>5 DEF Inv, Types, Readers, Safeties, ReaderIsFenced
<1> QED
  BY <1>6, <1>7, <1>8, <1>9, <1>10, <1>11, <1>12 DEF Inv

\* Dropping the orphan keeps the invariant.
LEMMA RemoveOrphanKeeps ==
  ASSUME Inv, RemoveOrphan
  PROVE  Inv'
<1>1. /\ memory' = memory /\ disk' = disk /\ lapsed' = lapsed /\ proposal' = proposal
      /\ receipts' = receipts /\ ledger' = ledger /\ reader' = reader /\ held' = held /\ gone' = gone
  BY DEF RemoveOrphan, kept, outside, history
<1>2. /\ job.at = "remove" /\ job.of = "orphan" /\ job.kind \in {"clear", "erase"}
      /\ job.card = safety.orphan /\ job.card \notin held
  BY DEF RemoveOrphan, Inv, Steps, Deletion, Confirms, Types, Jobs, Kinds
<1>3. /\ safety'.pending = safety.pending /\ safety'.orphan = NoCard
      /\ safety'.generation = safety.generation /\ safety'.blocked = safety.blocked
  BY DEF RemoveOrphan, Inv, Types, Safeties
<1>4. /\ job'.kind = job.kind /\ job'.who = job.who /\ job'.doc = job.doc
      /\ job'.card = job.card /\ job'.aimed = job.aimed /\ job'.of = job.of
      /\ job'.at = IF job.kind = "clear" THEN "target" ELSE "reconcile"
  BY DEF RemoveOrphan, Inv, Types, Jobs
<1>5. job.aimed = {}
  BY <1>2 DEF Inv, Steps
<1>6. Types'
  BY RemoveOrphanTypes DEF Inv
<1>7. Proposed' /\ Steps'
  BY <1>1, <1>2, <1>3, <1>4, <1>5 DEF Inv, Types, Proposed, Steps, Confirms, Fencing
<1>8. Confirmation' /\ PendingFits'
  BY <1>1, <1>2, <1>3, <1>4 DEF Inv, Confirmation, PendingFits, Pending
<1>9. Deletion'
  BY <1>1, <1>2, <1>3, <1>4, <1>5 DEF Inv, Deletion, Fencing, Pending, Aimed, LinkedTo
<1>10. DiskFits' /\ ReceiptsAreKnown'
  BY <1>1, <1>2, <1>3, <1>4 DEF Inv, DiskFits, ReceiptsAreKnown
<1>11. ErasedIsDead'
  BY <1>1, <1>2, <1>3, <1>4, <1>5, ContinuityAssumption DEF Inv, Types, ErasedIsDead, Dead
<1>12. ReaderIsFenced'
  BY <1>1, <1>3 DEF Inv, Types, Readers, Safeties, ReaderIsFenced
<1> QED
  BY <1>6, <1>7, <1>8, <1>9, <1>10, <1>11, <1>12 DEF Inv

\* Publishing the document keeps the invariant.
LEMMA PublishKeeps ==
  ASSUME Inv, Publish
  PROVE  Inv'
<1>1. /\ proposal' = proposal /\ lapsed' = lapsed /\ receipts' = receipts /\ ledger' = ledger
      /\ reader' = reader /\ held' = held /\ gone' = gone
  BY DEF Publish, outside
<1>2. /\ job.at \in {"publish", "republish"} /\ Pending /\ job.doc.card = safety.pending.desired
      /\ safety.blocked
  BY DEF Publish, Inv, PendingFits
<1>3. PICK w \in Writes(job.doc), readable \in BOOLEAN :
        /\ disk' = w.disk
        /\ IF readable /\ w.disk = job.doc
           THEN /\ memory' = [memory EXCEPT !.card = job.doc.card]
                /\ safety' = Unfenced([safety EXCEPT !.pending = NoPending,
                                                     !.forgets = IF job.doc.card = NoCard
                                                       THEN @ \ {safety.pending.expected} ELSE @])
                /\ job' = IF w.committed THEN AfterPublish ELSE NoJob
           ELSE /\ job' = NoJob /\ memory' = memory /\ safety' = safety
  BY DEF Publish, Fails
<1>4. w.disk \in {disk, job.doc}
  BY DEF Writes
<1>5. NoJob.kind = "none" /\ NoJob.at = "idle" /\ NoJob.card = NoCard /\ NoJob.doc.card = NoCard
      /\ NoJob.aimed = {} /\ NoJob.of = "card"
  BY DEF NoJob
<1>6. Types'
  BY PublishTypes DEF Inv
<1>7. CASE ~(readable /\ w.disk = job.doc)
  <2>1. job' = NoJob /\ memory' = memory /\ safety' = safety
    BY <1>3, <1>7
  <2>2. disk'.card \in {disk.card, safety.pending.desired}
    BY <1>2, <1>3, <1>4
  <2>3. Proposed' /\ Steps'
    BY <1>1, <1>5, <2>1, <2>2 DEF Inv, Types, Proposed, Steps, Confirms, Fencing
  <2>4. Confirmation' /\ PendingFits' /\ Deletion'
    BY <1>1, <1>5, <2>1 DEF Inv, Confirmation, PendingFits, Deletion, Fencing, Pending
  <2>5. DiskFits'
    BY <1>1, <2>1, <2>2 DEF Inv, DiskFits
  <2>6. ReceiptsAreKnown'
    BY <1>1, <1>2, <1>5, <2>1 DEF Inv, ReceiptsAreKnown, Confirmation
  <2>7. ErasedIsDead' /\ ReaderIsFenced'
    BY <1>1, <1>5, <2>1, <2>2 DEF Inv, ErasedIsDead, Dead, ReaderIsFenced
  <2> QED
    BY <1>6, <2>3, <2>4, <2>5, <2>6, <2>7 DEF Inv
<1>8. CASE readable /\ w.disk = job.doc
  <2>1. disk'.card = safety.pending.desired /\ memory'.card = safety.pending.desired
    BY <1>2, <1>3, <1>8 DEF Inv, Types, Docs
  <2>2. /\ safety'.pending = NoPending /\ safety'.orphan = safety.orphan
        /\ safety'.generation = safety.generation
        /\ safety'.blocked <=> (safety.orphan # NoCard)
    <3> DEFINE f == IF job.doc.card = NoCard THEN safety.forgets \ {safety.pending.expected}
                    ELSE safety.forgets
               s == [safety EXCEPT !.pending = NoPending, !.forgets = f]
    <3>1. safety' = Unfenced(s)
      BY <1>3, <1>8
    <3>2. f \in SUBSET Cards
      BY Cardinals DEF Inv
    <3> HIDE DEF f
    <3>3. s.pending = NoPending /\ s.orphan = safety.orphan /\ s.generation = safety.generation
          /\ s.blocked = safety.blocked
      BY DEF Inv, Types, Safeties
    <3>4. s \in Safeties
      BY <3>2, SafetyTypes, Cardinals DEF Inv, Types
    <3> HIDE DEF s
    <3> QED
      BY <1>2, <3>1, <3>3, <3>4 DEF Unfenced, Safeties
  <2>3. \/ job' = NoJob
        \/ /\ job.kind \in {"clear", "erase"} /\ job'.kind = job.kind /\ job'.who = job.who
           /\ job'.card = job.card /\ job'.aimed = job.aimed /\ job'.of = job.of
           /\ job'.doc = job.doc
           /\ \/ job.at = "publish" /\ job'.at = "report"
              \/ job.at = "republish" /\ job.kind = "clear" /\ job'.at = "orphan"
              \/ job.at = "republish" /\ job.kind = "erase" /\ job'.at = "target"
    <3>1. job' = NoJob \/ job' = AfterPublish
      BY <1>3, <1>8
    <3>2. CASE job' = AfterPublish /\ job.kind # "confirm"
      <4>1. job.kind \in {"clear", "erase"}
        BY <1>2, <3>2 DEF Inv, Types, Jobs, Kinds, Steps
      <4>2. CASE job.at = "publish"
        <5>1. job' = [job EXCEPT !.at = "report"]
          BY <3>2, <4>2 DEF AfterPublish
        <5> QED
          BY <4>1, <4>2, <5>1 DEF Inv, Types, Jobs
      <4>3. CASE job.at = "republish"
        <5>1. job' = [job EXCEPT !.at = IF job.kind = "clear" THEN "orphan" ELSE "target"]
          BY <3>2, <4>3 DEF AfterPublish
        <5> QED
          BY <4>1, <4>3, <5>1 DEF Inv, Types, Jobs
      <4> QED
        BY <1>2, <4>2, <4>3
    <3> QED
      BY <3>1, <3>2 DEF AfterPublish
  <2>4. ~Pending' /\ safety'.pending.expected = NoCard /\ safety'.pending.desired = NoCard
    BY <2>2 DEF Pending, NoPending
  <2>5. Proposed'
    BY <1>1, <1>5, <2>1, <2>2, <2>3, <2>4 DEF Inv, Types, Proposed
  <2>6. Steps' /\ Confirmation'
    BY <1>1, <1>2, <1>5, <2>2, <2>3 DEF Inv, Steps, Confirmation, Confirms, Fencing
  <2>7. PendingFits'
    <3>1. NoCard \notin held
      BY ContinuityAssumption DEF Inv, Types
    <3> QED
      BY <1>1, <1>5, <2>2, <2>3, <2>4, <3>1 DEF PendingFits
  <2>8. Deletion'
    BY <1>1, <1>2, <1>5, <2>1, <2>2, <2>3, <2>4 DEF Inv, Deletion, Fencing, Aimed, LinkedTo
  <2>9. DiskFits'
    BY <2>1 DEF DiskFits
  <2>10. ReceiptsAreKnown'
    BY <1>1, <1>2, <2>1, <2>2, <2>4 DEF Inv, Types, PendingFits, ReceiptsAreKnown, Confirmation
  <2>11. ErasedIsDead'
    <3>1. ASSUME NEW c \in gone
          PROVE  Dead(c)'
      <4>1. Dead(c) /\ c \in Cards /\ c # NoCard
        BY ContinuityAssumption DEF Inv, ErasedIsDead, Types
      <4> QED
        BY <1>1, <2>1, <2>2, <2>4, <4>1 DEF Dead
    <3>2. ASSUME NEW c \in job.aimed, job'.aimed = job.aimed, job'.at = "report", job.at = "publish",
                 job.kind \in {"clear", "erase"}
          PROVE  Dead(c)'
      <4>1. c \in Cards /\ c # NoCard /\ (proposal[c].at = "used" \/ proposal[c].generation < safety.generation)
        BY ContinuityAssumption, Cardinals DEF Inv, ErasedIsDead
      <4>2. c # safety.orphan
        BY <3>2, <4>1 DEF Inv, Deletion, Fencing, Steps
      <4>3. safety.pending.desired = NoCard
        BY <3>2 DEF Inv, Deletion
      <4> QED
        BY <1>1, <2>1, <2>2, <2>4, <4>1, <4>2, <4>3 DEF Dead
    <3>3. job'.aimed = {} \/ (job'.aimed = job.aimed /\ job'.at = "report" /\ job.at = "publish"
                              /\ job.kind \in {"clear", "erase"})
      BY <1>5, <2>3 DEF Inv, Steps, Fencing
    <3> QED
      BY <1>1, <2>2, <3>1, <3>2, <3>3 DEF Inv, ErasedIsDead
  <2>12. ReaderIsFenced'
    BY <1>1, <1>2, <2>2 DEF Inv, Types, Readers, Safeties, ReaderIsFenced
  <2> QED
    BY <1>6, <2>5, <2>6, <2>7, <2>8, <2>9, <2>10, <2>11, <2>12 DEF Inv
<1> QED
  BY <1>7, <1>8

\* A preview keeps the invariant.
LEMMA PreviewKeeps ==
  ASSUME Inv, NEW c \in Cards, Preview(c)
  PROVE  Inv'
<1>1. Types'
  BY ContinuityAssumption, Start, SMTT(30) DEF Inv, Types, CardsOrNone, Docs, Proposals, Safeties,
      Jobs, Readers, Preview, history, outside, kept, Current, Revision, Pending, NoPending,
      Aimed, LinkedTo, Snapshot
<1>2. /\ Proposed' /\ Steps' /\ Confirmation' /\ PendingFits' /\ Deletion' /\ DiskFits'
      /\ ReceiptsAreKnown' /\ ErasedIsDead' /\ ReaderIsFenced'
  BY ContinuityAssumption, SMTT(30) DEF Inv, Types, CardsOrNone, Docs, Proposals, Safeties, Jobs,
      Readers, Proposed, Steps, Confirms, Fencing, Confirmation, PendingFits, Deletion, DiskFits,
      ReceiptsAreKnown, ErasedIsDead, Dead, ReaderIsFenced, Preview, history, outside, kept,
      Current, Revision, Pending, NoPending, Aimed, LinkedTo, Snapshot
<1> QED
  BY <1>1, <1>2 DEF Inv

\* Presenting a preview keeps the invariant.
LEMMA MarkPresentedKeeps ==
  ASSUME Inv, NEW c \in Cards, MarkPresented(c)
  PROVE  Inv'
<1>1. Types'
  BY ContinuityAssumption, Start, SMTT(120) DEF Inv, Types, CardsOrNone, Docs, Proposals, Safeties,
      Jobs, Readers, MarkPresented, history, outside, kept, Current, Pending, NoPending, Aimed,
      LinkedTo, Snapshot
<1>2. /\ Proposed' /\ Steps' /\ Confirmation' /\ PendingFits' /\ Deletion' /\ DiskFits'
      /\ ReceiptsAreKnown' /\ ErasedIsDead' /\ ReaderIsFenced'
  BY ContinuityAssumption, SMTT(30) DEF Inv, Types, CardsOrNone, Docs, Proposals, Safeties, Jobs,
      Readers, Proposed, Steps, Confirms, Fencing, Confirmation, PendingFits, Deletion, DiskFits,
      ReceiptsAreKnown, ErasedIsDead, Dead, ReaderIsFenced, MarkPresented, history, outside, kept,
      Current, Pending, NoPending, Aimed, LinkedTo, Snapshot
<1> QED
  BY <1>1, <1>2 DEF Inv

\* Discarding a proposal keeps the invariant.
LEMMA DiscardKeeps ==
  ASSUME Inv, NEW c \in Cards, Discard(c)
  PROVE  Inv'
<1>1. Types'
  BY ContinuityAssumption, Start, SMTT(30) DEF Inv, Types, CardsOrNone, Docs, Proposals, Safeties,
      Jobs, Readers, Discard, history, outside, kept, Pending, NoPending, Aimed, LinkedTo,
      Snapshot
<1>2. /\ Proposed' /\ Steps' /\ Confirmation' /\ PendingFits' /\ Deletion' /\ DiskFits'
      /\ ReceiptsAreKnown' /\ ErasedIsDead' /\ ReaderIsFenced'
  BY ContinuityAssumption, SMTT(30) DEF Inv, Types, CardsOrNone, Docs, Proposals, Safeties, Jobs,
      Readers, Proposed, Steps, Confirms, Fencing, Confirmation, PendingFits, Deletion, DiskFits,
      ReceiptsAreKnown, ErasedIsDead, Dead, ReaderIsFenced, Discard, history, outside, kept,
      Pending, NoPending, Aimed, LinkedTo, Snapshot
<1> QED
  BY <1>1, <1>2 DEF Inv

\* Resolving a proposal keeps the invariant.
LEMMA ResolveKeeps ==
  ASSUME Inv, NEW c \in Cards, Resolve(c)
  PROVE  Inv'
<1>1. Types'
  BY ContinuityAssumption, Start, SMTT(120) DEF Inv, Types, CardsOrNone, Docs, Proposals, Safeties,
      Jobs, Readers, Resolve, history, outside, kept, Current, Pending, NoPending, Aimed,
      LinkedTo, Snapshot
<1>2. /\ Proposed' /\ Steps' /\ Confirmation' /\ PendingFits' /\ Deletion' /\ DiskFits'
      /\ ReceiptsAreKnown' /\ ErasedIsDead' /\ ReaderIsFenced'
  BY ContinuityAssumption, SMTT(30) DEF Inv, Types, CardsOrNone, Docs, Proposals, Safeties, Jobs,
      Readers, Proposed, Steps, Confirms, Fencing, Confirmation, PendingFits, Deletion, DiskFits,
      ReceiptsAreKnown, ErasedIsDead, Dead, ReaderIsFenced, Resolve, history, outside, kept,
      Current, Pending, NoPending, Aimed, LinkedTo, Snapshot
<1> QED
  BY <1>1, <1>2 DEF Inv

\* A lifetime that ends keeps the invariant.
LEMMA LapseKeeps ==
  ASSUME Inv, NEW c \in Cards, Lapse(c)
  PROVE  Inv'
<1>1. Types'
  BY ContinuityAssumption, Start, SMTT(30) DEF Inv, Types, CardsOrNone, Docs, Proposals, Safeties,
      Jobs, Readers, Lapse, history, outside, kept, Event, Pending, NoPending, Aimed, LinkedTo,
      Snapshot
<1>2. /\ Proposed' /\ Steps' /\ Confirmation' /\ PendingFits' /\ Deletion' /\ DiskFits'
      /\ ReceiptsAreKnown' /\ ErasedIsDead' /\ ReaderIsFenced'
  BY ContinuityAssumption, SMTT(30) DEF Inv, Types, CardsOrNone, Docs, Proposals, Safeties, Jobs,
      Readers, Proposed, Steps, Confirms, Fencing, Confirmation, PendingFits, Deletion, DiskFits,
      ReceiptsAreKnown, ErasedIsDead, Dead, ReaderIsFenced, Lapse, history, outside, kept, Event,
      Pending, NoPending, Aimed, LinkedTo, Snapshot
<1> QED
  BY <1>1, <1>2 DEF Inv

\* A proposal keeps the invariant.
LEMMA ProposeKeeps ==
  ASSUME Inv, NEW c \in Cards, NEW links \in SUBSET Members \ {{}}, Propose(c, links)
  PROVE  Inv'
<1>1. Types'
  BY ContinuityAssumption, Start, SMTT(30) DEF Inv, Types, CardsOrNone, Docs, Proposals, Safeties,
      Jobs, Readers, Propose, history, outside, kept, Revision, Pending, NoPending, Aimed,
      LinkedTo, Snapshot
<1>2. /\ Proposed' /\ Steps' /\ Confirmation' /\ PendingFits' /\ Deletion' /\ DiskFits'
      /\ ReceiptsAreKnown' /\ ErasedIsDead' /\ ReaderIsFenced'
  BY ContinuityAssumption, SMTT(30) DEF Inv, Types, CardsOrNone, Docs, Proposals, Safeties, Jobs,
      Readers, Proposed, Steps, Confirms, Fencing, Confirmation, PendingFits, Deletion, DiskFits,
      ReceiptsAreKnown, ErasedIsDead, Dead, ReaderIsFenced, Propose, history, outside, kept,
      Revision, Pending, NoPending, Aimed, LinkedTo, Snapshot
<1> QED
  BY <1>1, <1>2 DEF Inv

\* A confirmation puts its orphan on record keeps the invariant.
LEMMA ConfirmPrepareKeeps ==
  ASSUME Inv, ConfirmPrepare
  PROVE  Inv'
<1>1. Types'
  BY ConfirmPrepareTypes DEF Inv
<1>2. /\ Proposed' /\ Steps' /\ Confirmation' /\ PendingFits' /\ Deletion' /\ DiskFits'
      /\ ReceiptsAreKnown' /\ ErasedIsDead' /\ ReaderIsFenced'
  BY ContinuityAssumption, SMTT(30) DEF Inv, Types, CardsOrNone, Docs, Proposals, Safeties, Jobs,
      Readers, Proposed, Steps, Confirms, Fencing, Confirmation, PendingFits, Deletion, DiskFits,
      ReceiptsAreKnown, ErasedIsDead, Dead, ReaderIsFenced, ConfirmPrepare, history, outside,
      kept, Revision, StillConfirmable, Current, Pending, NoPending, Aimed, LinkedTo, Snapshot
<1> QED
  BY <1>1, <1>2 DEF Inv

\* The check of the receipt to be superseded keeps the invariant.
LEMMA ConfirmVerifyKeeps ==
  ASSUME Inv, ConfirmVerify
  PROVE  Inv'
<1>1. Types'
  BY JobWords, JobField DEF Inv, Types, ConfirmVerify, kept, outside, history
<1>2. /\ Proposed' /\ Steps' /\ Confirmation' /\ PendingFits' /\ Deletion' /\ DiskFits'
      /\ ReceiptsAreKnown' /\ ErasedIsDead' /\ ReaderIsFenced'
  BY ContinuityAssumption, SMTT(30) DEF Inv, Types, CardsOrNone, Docs, Proposals, Safeties, Jobs,
      Readers, Proposed, Steps, Confirms, Fencing, Confirmation, PendingFits, Deletion, DiskFits,
      ReceiptsAreKnown, ErasedIsDead, Dead, ReaderIsFenced, ConfirmVerify, history, outside, kept,
      Pending, NoPending, Aimed, LinkedTo, Snapshot
<1> QED
  BY <1>1, <1>2 DEF Inv

\* The check before the receipt is recorded keeps the invariant.
LEMMA ConfirmAgainKeeps ==
  ASSUME Inv, ConfirmAgain
  PROVE  Inv'
<1>1. Types'
  BY JobWords, JobField DEF Inv, Types, ConfirmAgain, kept, outside, history
<1>2. /\ Proposed' /\ Steps' /\ Confirmation' /\ PendingFits' /\ Deletion' /\ DiskFits'
      /\ ReceiptsAreKnown' /\ ErasedIsDead' /\ ReaderIsFenced'
  BY ContinuityAssumption, SMTT(30) DEF Inv, Types, CardsOrNone, Docs, Proposals, Safeties, Jobs,
      Readers, Proposed, Steps, Confirms, Fencing, Confirmation, PendingFits, Deletion, DiskFits,
      ReceiptsAreKnown, ErasedIsDead, Dead, ReaderIsFenced, ConfirmAgain, history, outside, kept,
      StillConfirmable, Current, Pending, NoPending, Aimed, LinkedTo, Snapshot
<1> QED
  BY <1>1, <1>2 DEF Inv

\* An answer of the ledger that is lost keeps the invariant.
LEMMA ConfirmUnansweredKeeps ==
  ASSUME Inv, ConfirmUnanswered
  PROVE  Inv'
<1>1. Types'
  BY JobWords, Start DEF Inv, Types, ConfirmUnanswered, kept, outside, history, Fails
<1>2. /\ Proposed' /\ Steps' /\ Confirmation' /\ PendingFits' /\ Deletion' /\ DiskFits'
      /\ ReceiptsAreKnown' /\ ErasedIsDead' /\ ReaderIsFenced'
  BY ContinuityAssumption, SMTT(30) DEF Inv, Types, CardsOrNone, Docs, Proposals, Safeties, Jobs,
      Readers, Proposed, Steps, Confirms, Fencing, Confirmation, PendingFits, Deletion, DiskFits,
      ReceiptsAreKnown, ErasedIsDead, Dead, ReaderIsFenced, ConfirmUnanswered, history, kept,
      Fails, NoJob, Event, Pending, NoPending, Aimed, LinkedTo, Snapshot
<1> QED
  BY <1>1, <1>2 DEF Inv

\* A confirmation passes its last check keeps the invariant.
LEMMA ConfirmFinalKeeps ==
  ASSUME Inv, ConfirmFinal
  PROVE  Inv'
<1>1. Types'
  BY ConfirmFinalTypes DEF Inv
<1>2. /\ Proposed' /\ Steps' /\ Confirmation' /\ PendingFits' /\ Deletion' /\ DiskFits'
      /\ ReceiptsAreKnown' /\ ErasedIsDead' /\ ReaderIsFenced'
  BY ContinuityAssumption, SMTT(30) DEF Inv, Types, CardsOrNone, Docs, Proposals, Safeties, Jobs,
      Readers, Proposed, Steps, Confirms, Fencing, Confirmation, PendingFits, Deletion, DiskFits,
      ReceiptsAreKnown, ErasedIsDead, Dead, ReaderIsFenced, ConfirmFinal, history, outside, kept,
      Staged, StillConfirmable, Current, Pending, NoPending, Aimed, LinkedTo, Snapshot
<1> QED
  BY <1>1, <1>2 DEF Inv

\* A job that gives up keeps the invariant.
LEMMA GivesUpKeeps ==
  ASSUME Inv, GivesUp
  PROVE  Inv'
<1>1. Types'
  BY ContinuityAssumption, Start, SMTT(30) DEF Inv, Types, CardsOrNone, Docs, Proposals, Safeties,
      Jobs, Readers, GivesUp, history, outside, kept, Fails, NoJob, Pending, NoPending, Aimed,
      LinkedTo, Snapshot
<1>2. /\ Proposed' /\ Steps' /\ Confirmation' /\ PendingFits' /\ Deletion' /\ DiskFits'
      /\ ReceiptsAreKnown' /\ ErasedIsDead' /\ ReaderIsFenced'
  BY ContinuityAssumption, SMTT(30) DEF Inv, Types, CardsOrNone, Docs, Proposals, Safeties, Jobs,
      Readers, Proposed, Steps, Confirms, Fencing, Confirmation, PendingFits, Deletion, DiskFits,
      ReceiptsAreKnown, ErasedIsDead, Dead, ReaderIsFenced, GivesUp, history, outside, kept,
      Fails, NoJob, Pending, NoPending, Aimed, LinkedTo, Snapshot
<1> QED
  BY <1>1, <1>2 DEF Inv

\* A clear starts keeps the invariant.
LEMMA ClearStartKeeps ==
  ASSUME Inv, ClearStart
  PROVE  Inv'
<1>1. Types'
  BY ClearStartTypes DEF Inv
<1>2. /\ Proposed' /\ Steps' /\ Confirmation' /\ PendingFits' /\ Deletion' /\ DiskFits'
      /\ ReceiptsAreKnown' /\ ErasedIsDead' /\ ReaderIsFenced'
  BY ContinuityAssumption, SMTT(30) DEF Inv, Types, CardsOrNone, Docs, Proposals, Safeties, Jobs,
      Readers, Proposed, Steps, Confirms, Fencing, Confirmation, PendingFits, Deletion, DiskFits,
      ReceiptsAreKnown, ErasedIsDead, Dead, ReaderIsFenced, ClearStart, history, outside, kept,
      NoJob, Event, Pending, NoPending, Aimed, LinkedTo, Snapshot
<1> QED
  BY <1>1, <1>2 DEF Inv

\* An erasure starts keeps the invariant.
LEMMA EraseStartKeeps ==
  ASSUME Inv, NEW who \in SUBSET Members, EraseStart(who)
  PROVE  Inv'
<1>1. Types'
  BY EraseStartTypes DEF Inv
<1>2. /\ Proposed' /\ Steps' /\ Confirmation' /\ PendingFits' /\ Deletion' /\ DiskFits'
      /\ ReceiptsAreKnown' /\ ErasedIsDead' /\ ReaderIsFenced'
  BY ContinuityAssumption, SMTT(30) DEF Inv, Types, CardsOrNone, Docs, Proposals, Safeties, Jobs,
      Readers, Proposed, Steps, Confirms, Fencing, Confirmation, PendingFits, Deletion, DiskFits,
      ReceiptsAreKnown, ErasedIsDead, Dead, ReaderIsFenced, EraseStart, history, outside, kept,
      NoJob, LinkedTo, Event, Pending, NoPending, Aimed, Snapshot
<1> QED
  BY <1>1, <1>2 DEF Inv

\* The orphan of a clear is taken up keeps the invariant.
LEMMA OrphanStartKeeps ==
  ASSUME Inv, OrphanStart
  PROVE  Inv'
<1>1. Types'
  BY OrphanStartTypes DEF Inv
<1>2. /\ Proposed' /\ Steps' /\ Confirmation' /\ PendingFits' /\ Deletion' /\ DiskFits'
      /\ ReceiptsAreKnown' /\ ErasedIsDead' /\ ReaderIsFenced'
  BY ContinuityAssumption, SMTT(30) DEF Inv, Types, CardsOrNone, Docs, Proposals, Safeties, Jobs,
      Readers, Proposed, Steps, Confirms, Fencing, Confirmation, PendingFits, Deletion, DiskFits,
      ReceiptsAreKnown, ErasedIsDead, Dead, ReaderIsFenced, OrphanStart, history, outside, kept,
      Pending, NoPending, Aimed, LinkedTo, Snapshot
<1> QED
  BY <1>1, <1>2 DEF Inv

\* What is forgotten already keeps the invariant.
LEMMA AdmitForgottenKeeps ==
  ASSUME Inv, AdmitForgotten
  PROVE  Inv'
<1>1. Types'
  BY JobWords, JobField DEF Inv, Types, AdmitForgotten, kept, outside, history
<1>2. /\ Proposed' /\ Steps' /\ Confirmation' /\ PendingFits' /\ Deletion' /\ DiskFits'
      /\ ReceiptsAreKnown' /\ ErasedIsDead' /\ ReaderIsFenced'
  BY ContinuityAssumption, SMTT(30) DEF Inv, Types, CardsOrNone, Docs, Proposals, Safeties, Jobs,
      Readers, Proposed, Steps, Confirms, Fencing, Confirmation, PendingFits, Deletion, DiskFits,
      ReceiptsAreKnown, ErasedIsDead, Dead, ReaderIsFenced, AdmitForgotten, outside, kept,
      Pending, NoPending, Aimed, LinkedTo, Snapshot
<1> QED
  BY <1>1, <1>2 DEF Inv

\* Staging the card for deletion keeps the invariant.
LEMMA RemoveCardKeeps ==
  ASSUME Inv, RemoveCard
  PROVE  Inv'
<1>1. Types'
  BY RemoveCardTypes DEF Inv
<1>2. /\ Proposed' /\ Steps' /\ Confirmation' /\ PendingFits' /\ Deletion' /\ DiskFits'
      /\ ReceiptsAreKnown' /\ ErasedIsDead' /\ ReaderIsFenced'
  BY ContinuityAssumption, SMTT(30) DEF Inv, Types, CardsOrNone, Docs, Proposals, Safeties, Jobs,
      Readers, Proposed, Steps, Confirms, Fencing, Confirmation, PendingFits, Deletion, DiskFits,
      ReceiptsAreKnown, ErasedIsDead, Dead, ReaderIsFenced, RemoveCard, history, outside, kept,
      Snapshot, Pending, NoPending, Staged, Aimed, LinkedTo
<1> QED
  BY <1>1, <1>2 DEF Inv

\* The end of a clear keeps the invariant.
LEMMA ClearReportKeeps ==
  ASSUME Inv, ClearReport
  PROVE  Inv'
<1>1. Types'
  BY ClearReportTypes DEF Inv
<1>2. /\ Proposed' /\ Steps' /\ Confirmation' /\ PendingFits' /\ Deletion' /\ DiskFits'
      /\ ReceiptsAreKnown' /\ ErasedIsDead' /\ ReaderIsFenced'
  BY ContinuityAssumption, SMTT(30) DEF Inv, Types, CardsOrNone, Docs, Proposals, Safeties, Jobs,
      Readers, Proposed, Steps, Confirms, Fencing, Confirmation, PendingFits, Deletion, DiskFits,
      ReceiptsAreKnown, ErasedIsDead, Dead, ReaderIsFenced, ClearReport, outside, kept, NoJob,
      Unfenced, NoPending, Pending, Aimed, LinkedTo, Snapshot
<1> QED
  BY <1>1, <1>2 DEF Inv

\* Unfencing a scope keeps the invariant.
LEMMA EraseUnfenceKeeps ==
  ASSUME Inv, EraseUnfence
  PROVE  Inv'
<1>1. Types'
  BY EraseUnfenceTypes DEF Inv
<1>2. /\ Proposed' /\ Steps' /\ Confirmation' /\ PendingFits' /\ Deletion' /\ DiskFits'
      /\ ReceiptsAreKnown' /\ ErasedIsDead' /\ ReaderIsFenced'
  BY ContinuityAssumption, SMTT(30) DEF Inv, Types, CardsOrNone, Docs, Proposals, Safeties, Jobs,
      Readers, Proposed, Steps, Confirms, Fencing, Confirmation, PendingFits, Deletion, DiskFits,
      ReceiptsAreKnown, ErasedIsDead, Dead, ReaderIsFenced, EraseUnfence, history, outside, kept,
      Snapshot, Pending, NoPending, Unfenced, Aimed, LinkedTo
<1> QED
  BY <1>1, <1>2 DEF Inv

\* The end of an erasure keeps the invariant.
LEMMA EraseReportKeeps ==
  ASSUME Inv, EraseReport
  PROVE  Inv'
<1>1. Types'
  BY ContinuityAssumption, Start, SMTT(30) DEF Inv, Types, CardsOrNone, Docs, Proposals, Safeties,
      Jobs, Readers, EraseReport, outside, NoJob, EventIf, Event, Writes, Pending, NoPending,
      Aimed, LinkedTo, Snapshot
<1>2. /\ Proposed' /\ Steps' /\ Confirmation' /\ PendingFits' /\ Deletion' /\ DiskFits'
      /\ ReceiptsAreKnown' /\ ErasedIsDead' /\ ReaderIsFenced'
  BY ContinuityAssumption, SMTT(30) DEF Inv, Types, CardsOrNone, Docs, Proposals, Safeties, Jobs,
      Readers, Proposed, Steps, Confirms, Fencing, Confirmation, PendingFits, Deletion, DiskFits,
      ReceiptsAreKnown, ErasedIsDead, Dead, ReaderIsFenced, EraseReport, outside, NoJob, EventIf,
      Event, Writes, Pending, NoPending, Aimed, LinkedTo, Snapshot
<1> QED
  BY <1>1, <1>2 DEF Inv

\* An ordinary write keeps the invariant.
LEMMA WriteKeeps ==
  ASSUME Inv, Write
  PROVE  Inv'
<1>1. Types'
  BY ContinuityAssumption, Start, SMTT(30) DEF Inv, Types, CardsOrNone, Docs, Proposals, Safeties,
      Jobs, Readers, Write, history, outside, EventIf, Event, Snapshot, Pending, NoPending,
      Writes, Aimed, LinkedTo
<1>2. /\ Proposed' /\ Steps' /\ Confirmation' /\ PendingFits' /\ Deletion' /\ DiskFits'
      /\ ReceiptsAreKnown' /\ ErasedIsDead' /\ ReaderIsFenced'
  BY ContinuityAssumption, SMTT(30) DEF Inv, Types, CardsOrNone, Docs, Proposals, Safeties, Jobs,
      Readers, Proposed, Steps, Confirms, Fencing, Confirmation, PendingFits, Deletion, DiskFits,
      ReceiptsAreKnown, ErasedIsDead, Dead, ReaderIsFenced, Write, history, outside, EventIf,
      Event, Snapshot, Pending, NoPending, Writes, Aimed, LinkedTo
<1> QED
  BY <1>1, <1>2 DEF Inv

\* Another change of memory keeps the invariant.
LEMMA NoteKeeps ==
  ASSUME Inv, Note
  PROVE  Inv'
<1>1. Types'
  BY ContinuityAssumption, Start, SMTT(30) DEF Inv, Types, CardsOrNone, Docs, Proposals, Safeties,
      Jobs, Readers, Note, history, outside, Event, Pending, NoPending, Aimed, LinkedTo, Snapshot
<1>2. /\ Proposed' /\ Steps' /\ Confirmation' /\ PendingFits' /\ Deletion' /\ DiskFits'
      /\ ReceiptsAreKnown' /\ ErasedIsDead' /\ ReaderIsFenced'
  BY ContinuityAssumption, SMTT(30) DEF Inv, Types, CardsOrNone, Docs, Proposals, Safeties, Jobs,
      Readers, Proposed, Steps, Confirms, Fencing, Confirmation, PendingFits, Deletion, DiskFits,
      ReceiptsAreKnown, ErasedIsDead, Dead, ReaderIsFenced, Note, history, outside, Event,
      Pending, NoPending, Aimed, LinkedTo, Snapshot
<1> QED
  BY <1>1, <1>2 DEF Inv

\* A restart keeps the invariant.
LEMMA RestartKeeps ==
  ASSUME Inv, Restart
  PROVE  Inv'
<1>1. Types'
  BY ContinuityAssumption, Start, SMTT(30) DEF Inv, Types, CardsOrNone, Docs, Proposals, Safeties,
      Jobs, Readers, Restart, NoReader, NoJob, NewSafety, NoPending, Pruned, Event, Pending,
      Aimed, LinkedTo, Snapshot
<1>2. Proposed'
  BY ContinuityAssumption, SMTT(30) DEF Inv, Types, CardsOrNone, Docs, Proposals, Safeties, Jobs,
      Readers, Proposed, Steps, Confirms, Fencing, Confirmation, PendingFits, Deletion, DiskFits,
      ReceiptsAreKnown, ErasedIsDead, Dead, ReaderIsFenced, Restart, NoReader, NoJob, NewSafety,
      NoPending, Pruned, Event, Pending, Aimed, LinkedTo, Snapshot
<1>3. Steps'
  BY ContinuityAssumption, SMTT(30) DEF Inv, Types, CardsOrNone, Docs, Proposals, Safeties, Jobs,
      Readers, Proposed, Steps, Confirms, Fencing, Confirmation, PendingFits, Deletion, DiskFits,
      ReceiptsAreKnown, ErasedIsDead, Dead, ReaderIsFenced, Restart, NoReader, NoJob, NewSafety,
      NoPending, Pruned, Event, Pending, Aimed, LinkedTo, Snapshot
<1>4. Confirmation'
  BY ContinuityAssumption, SMTT(30) DEF Inv, Types, CardsOrNone, Docs, Proposals, Safeties, Jobs,
      Readers, Proposed, Steps, Confirms, Fencing, Confirmation, PendingFits, Deletion, DiskFits,
      ReceiptsAreKnown, ErasedIsDead, Dead, ReaderIsFenced, Restart, NoReader, NoJob, NewSafety,
      NoPending, Pruned, Event, Pending, Aimed, LinkedTo, Snapshot
<1>5. PendingFits'
  BY ContinuityAssumption, SMTT(30) DEF Inv, Types, CardsOrNone, Docs, Proposals, Safeties, Jobs,
      Readers, Proposed, Steps, Confirms, Fencing, Confirmation, PendingFits, Deletion, DiskFits,
      ReceiptsAreKnown, ErasedIsDead, Dead, ReaderIsFenced, Restart, NoReader, NoJob, NewSafety,
      NoPending, Pruned, Event, Pending, Aimed, LinkedTo, Snapshot
<1>6. Deletion'
  BY ContinuityAssumption, SMTT(30) DEF Inv, Types, CardsOrNone, Docs, Proposals, Safeties, Jobs,
      Readers, Proposed, Steps, Confirms, Fencing, Confirmation, PendingFits, Deletion, DiskFits,
      ReceiptsAreKnown, ErasedIsDead, Dead, ReaderIsFenced, Restart, NoReader, NoJob, NewSafety,
      NoPending, Pruned, Event, Pending, Aimed, LinkedTo, Snapshot
<1>7. DiskFits'
  BY ContinuityAssumption, SMTT(30) DEF Inv, Types, CardsOrNone, Docs, Proposals, Safeties, Jobs,
      Readers, Proposed, Steps, Confirms, Fencing, Confirmation, PendingFits, Deletion, DiskFits,
      ReceiptsAreKnown, ErasedIsDead, Dead, ReaderIsFenced, Restart, NoReader, NoJob, NewSafety,
      NoPending, Pruned, Event, Pending, Aimed, LinkedTo, Snapshot
<1>8. ReceiptsAreKnown'
  BY ContinuityAssumption, SMTT(30) DEF Inv, Types, CardsOrNone, Docs, Proposals, Safeties, Jobs,
      Readers, Proposed, Steps, Confirms, Fencing, Confirmation, PendingFits, Deletion, DiskFits,
      ReceiptsAreKnown, ErasedIsDead, Dead, ReaderIsFenced, Restart, NoReader, NoJob, NewSafety,
      NoPending, Pruned, Event, Pending, Aimed, LinkedTo, Snapshot
<1>9. ErasedIsDead'
  BY ContinuityAssumption, SMTT(30) DEF Inv, Types, CardsOrNone, Docs, Proposals, Safeties, Jobs,
      Readers, Proposed, Steps, Confirms, Fencing, Confirmation, PendingFits, Deletion, DiskFits,
      ReceiptsAreKnown, ErasedIsDead, Dead, ReaderIsFenced, Restart, NoReader, NoJob, NewSafety,
      NoPending, Pruned, Event, Pending, Aimed, LinkedTo, Snapshot
<1>10. ReaderIsFenced'
  BY ContinuityAssumption, SMTT(30) DEF Inv, Types, CardsOrNone, Docs, Proposals, Safeties, Jobs,
      Readers, Proposed, Steps, Confirms, Fencing, Confirmation, PendingFits, Deletion, DiskFits,
      ReceiptsAreKnown, ErasedIsDead, Dead, ReaderIsFenced, Restart, NoReader, NoJob, NewSafety,
      NoPending, Pruned, Event, Pending, Aimed, LinkedTo, Snapshot
<1> QED
  BY <1>1, <1>2, <1>3, <1>4, <1>5, <1>6, <1>7, <1>8, <1>9, <1>10 DEF Inv

\* A reply that reads the card keeps the invariant.
LEMMA CaptureKeeps ==
  ASSUME Inv, Capture
  PROVE  Inv'
<1>1. Types'
  BY CaptureTypes DEF Inv
<1>2. /\ Proposed' /\ Steps' /\ Confirmation' /\ PendingFits' /\ Deletion' /\ DiskFits'
      /\ ReceiptsAreKnown' /\ ErasedIsDead' /\ ReaderIsFenced'
  BY ContinuityAssumption, SMTT(30) DEF Inv, Types, CardsOrNone, Docs, Proposals, Safeties, Jobs,
      Readers, Proposed, Steps, Confirms, Fencing, Confirmation, PendingFits, Deletion, DiskFits,
      ReceiptsAreKnown, ErasedIsDead, Dead, ReaderIsFenced, Capture, history, outside, kept,
      NoReader, Pending, NoPending, Aimed, LinkedTo, Snapshot
<1> QED
  BY <1>1, <1>2 DEF Inv

\* A reply that reads the card again keeps the invariant.
LEMMA CaptureAgainKeeps ==
  ASSUME Inv, CaptureAgain
  PROVE  Inv'
<1>1. Types'
  BY CaptureAgainTypes DEF Inv
<1>2. /\ Proposed' /\ Steps' /\ Confirmation' /\ PendingFits' /\ Deletion' /\ DiskFits'
      /\ ReceiptsAreKnown' /\ ErasedIsDead' /\ ReaderIsFenced'
  BY ContinuityAssumption, SMTT(30) DEF Inv, Types, CardsOrNone, Docs, Proposals, Safeties, Jobs,
      Readers, Proposed, Steps, Confirms, Fencing, Confirmation, PendingFits, Deletion, DiskFits,
      ReceiptsAreKnown, ErasedIsDead, Dead, ReaderIsFenced, CaptureAgain, history, outside, kept,
      ReaderCurrent, Current, Pending, NoPending, Aimed, LinkedTo, Snapshot
<1> QED
  BY <1>1, <1>2 DEF Inv

\* A reply's check of the receipt keeps the invariant.
LEMMA ReadVerifyKeeps ==
  ASSUME Inv, ReadVerify
  PROVE  Inv'
<1>1. Types'
  BY JobWords, ReaderFields DEF Inv, Types, ReadVerify, kept, outside, history
<1>2. /\ Proposed' /\ Steps' /\ Confirmation' /\ PendingFits' /\ Deletion' /\ DiskFits'
      /\ ReceiptsAreKnown' /\ ErasedIsDead' /\ ReaderIsFenced'
  BY ContinuityAssumption, SMTT(30) DEF Inv, Types, CardsOrNone, Docs, Proposals, Safeties, Jobs,
      Readers, Proposed, Steps, Confirms, Fencing, Confirmation, PendingFits, Deletion, DiskFits,
      ReceiptsAreKnown, ErasedIsDead, Dead, ReaderIsFenced, ReadVerify, history, outside, kept,
      Pending, NoPending, Aimed, LinkedTo, Snapshot
<1> QED
  BY <1>1, <1>2 DEF Inv

\* Admitting the card to a reply keeps the invariant.
LEMMA AdmitKeeps ==
  ASSUME Inv, Admit
  PROVE  Inv'
<1>1. Types'
  BY JobWords, ReaderFields DEF Inv, Types, Admit, kept, outside, history
<1>2. /\ Proposed' /\ Steps' /\ Confirmation' /\ PendingFits' /\ Deletion' /\ DiskFits'
      /\ ReceiptsAreKnown' /\ ErasedIsDead' /\ ReaderIsFenced'
  BY ContinuityAssumption, SMTT(30) DEF Inv, Types, CardsOrNone, Docs, Proposals, Safeties, Jobs,
      Readers, Proposed, Steps, Confirms, Fencing, Confirmation, PendingFits, Deletion, DiskFits,
      ReceiptsAreKnown, ErasedIsDead, Dead, ReaderIsFenced, Admit, history, outside, kept,
      ReaderCurrent, Current, Pending, NoPending, Aimed, LinkedTo, Snapshot
<1> QED
  BY <1>1, <1>2 DEF Inv

\* The end of a reply keeps the invariant.
LEMMA ReadEndsKeeps ==
  ASSUME Inv, ReadEnds
  PROVE  Inv'
<1>1. Types'
  BY ContinuityAssumption, Start, SMTT(30) DEF Inv, Types, CardsOrNone, Docs, Proposals, Safeties,
      Jobs, Readers, ReadEnds, history, outside, kept, NoReader, Pending, NoPending, Aimed,
      LinkedTo, Snapshot
<1>2. /\ Proposed' /\ Steps' /\ Confirmation' /\ PendingFits' /\ Deletion' /\ DiskFits'
      /\ ReceiptsAreKnown' /\ ErasedIsDead' /\ ReaderIsFenced'
  BY ContinuityAssumption, SMTT(30) DEF Inv, Types, CardsOrNone, Docs, Proposals, Safeties, Jobs,
      Readers, Proposed, Steps, Confirms, Fencing, Confirmation, PendingFits, Deletion, DiskFits,
      ReceiptsAreKnown, ErasedIsDead, Dead, ReaderIsFenced, ReadEnds, history, outside, kept,
      NoReader, Pending, NoPending, Aimed, LinkedTo, Snapshot
<1> QED
  BY <1>1, <1>2 DEF Inv

----------------------------------------------------------------------------
(* The theorems                                                            *)

\* The invariant holds at the start.
LEMMA InitInv == Init => Inv
<1> SUFFICES ASSUME Init PROVE Inv
  OBVIOUS
<1>1. /\ NoJob.kind = "none" /\ NoJob.at = "idle" /\ NoJob.card = NoCard /\ NoJob.of = "card"
      /\ NoJob.doc.card = NoCard /\ NoJob.aimed = {}
  BY DEF NoJob
<1>2. /\ safety.generation = 1 /\ ~safety.blocked /\ safety.pending = NoPending
      /\ safety.orphan = NoCard
  BY DEF Init, NewSafety
<1>3. memory.card = NoCard /\ disk.card = NoCard
  BY DEF Init
<1>4. \A c \in Cards : proposal[c].at = "none" /\ proposal[c].generation = 0
  BY DEF Init, NoProposal
<1>5. Types
  <2>1. proposal \in Proposals
    BY DEF Init, NoProposal, Proposals
  <2>2. memory \in Docs
    BY DEF Init, Docs, CardsOrNone
  <2> QED
    BY <2>1, <2>2, Start DEF Init, Types
<1>6. Proposed /\ Steps
  BY <1>1, <1>2, <1>3, <1>4 DEF Init, Proposed, Steps, Fencing, NoPending
<1>7. Confirmation /\ PendingFits /\ Deletion /\ DiskFits /\ ReceiptsAreKnown
  BY <1>1, <1>2, <1>3
     DEF Init, Confirmation, PendingFits, Deletion, Fencing, DiskFits, ReceiptsAreKnown, Pending
<1>8. ErasedIsDead /\ ReaderIsFenced
  BY <1>1 DEF Init, ErasedIsDead, ReaderIsFenced, NoReader
<1> QED
  BY <1>5, <1>6, <1>7, <1>8 DEF Inv

\* Every step keeps the invariant.
LEMMA StepInv == Inv /\ [Next]_vars => Inv'
<1> SUFFICES ASSUME Inv, [Next]_vars PROVE Inv'
  OBVIOUS
<1>1. ASSUME NEW c \in Cards, Proposing(c) PROVE Inv'
  BY <1>1, ProposeKeeps, PreviewKeeps, MarkPresentedKeeps, DiscardKeeps, ResolveKeeps, LapseKeeps
     DEF Proposing
<1>2. CASE Confirming
  BY <1>2, ConfirmStartKeeps, ConfirmPrepareKeeps, ConfirmVerifyKeeps, ConfirmAgainKeeps,
     ConfirmRecordKeeps, ConfirmUnansweredKeeps, ConfirmFinalKeeps, ConfirmRefusedKeeps
     DEF Confirming
<1>3. CASE Deleting
  <2>1. ASSUME NEW who \in {{m} : m \in Members} \cup {Members}, EraseStart(who) PROVE Inv'
    BY <2>1, EraseStartKeeps
  <2> QED
    BY <1>3, <2>1, ClearStartKeeps, ReconcileStartKeeps, OrphanStartKeeps, TargetStartKeeps,
       AdmitForgottenKeeps, AdmitForgetKeeps, RemoveOrphanKeeps, RemoveCardKeeps,
       ClearReportKeeps, EraseUnfenceKeeps, EraseReportKeeps
       DEF Deleting
<1>4. CASE GivesUp \/ Publish \/ Write \/ Note \/ Restart
  BY <1>4, GivesUpKeeps, PublishKeeps, WriteKeeps, NoteKeeps, RestartKeeps
<1>5. CASE Reading
  BY <1>5, CaptureKeeps, CaptureAgainKeeps, ReadVerifyKeeps, AdmitKeeps, ReadEndsKeeps DEF Reading
<1>6. CASE UNCHANGED vars
  BY <1>6 DEF vars, Inv, Types, Proposed, Steps, Confirmation, PendingFits, Deletion, DiskFits,
     ReceiptsAreKnown, ErasedIsDead, Dead, ReaderIsFenced, Aimed, LinkedTo, Pending, Snapshot
<1> QED
  BY <1>1, <1>2, <1>3, <1>4, <1>5, <1>6 DEF Next

\* The invariant of a scope.
THEOREM Invariance == Spec => []Inv
BY InitInv, StepInv, PTL DEF Spec

\* An admitted receipt stays within reach of a later clear.
THEOREM ReceiptsStayKnown == Spec => []ReceiptsAreKnown
<1>1. Inv => ReceiptsAreKnown
  BY DEF Inv
<1> QED
  BY <1>1, Invariance, PTL

\* overlay_continuity finds in memory one of the two ends of the pending change, so no
\* snapshot is refused because of it.
THEOREM OverlayFits ==
  Spec => [](Pending => memory.card \in {safety.pending.expected, safety.pending.desired})
<1>1. Inv => (Pending => memory.card \in {safety.pending.expected, safety.pending.desired})
  BY DEF Inv, PendingFits
<1> QED
  BY <1>1, Invariance, PTL

\* Only admission quotes a card.
LEMMA QuotedByAdmit ==
  ASSUME Inv, Next, reader'.at = "quoted", reader.at # "quoted"
  PROVE  Admit
<1>1. reader' # reader
  OBVIOUS
<1>2. NoReader.at # "quoted"
  BY DEF NoReader
<1>3. ASSUME NEW c \in Cards PROVE ~Proposing(c)
  BY <1>1 DEF Proposing, Propose, Preview, MarkPresented, Discard, Resolve, Lapse
<1>4. ~Confirming
  BY <1>1 DEF Confirming, ConfirmStart, ConfirmPrepare, ConfirmVerify, ConfirmAgain,
              ConfirmRecord, ConfirmUnanswered, ConfirmFinal, ConfirmRefused
<1>5. ~Deleting
  BY <1>1 DEF Deleting, ClearStart, EraseStart, ReconcileStart, OrphanStart, TargetStart,
              AdmitForgotten, AdmitForget, RemoveOrphan, RemoveCard, ClearReport, EraseUnfence,
              EraseReport
<1>6. ~GivesUp /\ ~Publish /\ ~Write /\ ~Note /\ ~Restart
  BY <1>1, <1>2 DEF GivesUp, Publish, Write, Note, Restart
<1>7. ~Capture
  <2> DEFINE a == IF memory.card \in receipts THEN "verify" ELSE "access"
  <2>1. SUFFICES ASSUME Capture PROVE FALSE
    OBVIOUS
  <2>2. reader' = [NoReader EXCEPT !.at = a, !.card = memory.card, !.generation = safety.generation]
    BY <2>1 DEF Capture
  <2>3. a # "quoted"
    OBVIOUS
  <2> HIDE DEF a
  <2>4. reader'.at = a
    BY <2>2 DEF NoReader
  <2> QED
    BY <2>3, <2>4
<1>8. ~CaptureAgain
  <2> DEFINE a == IF reader.card \in receipts THEN "verify" ELSE "access"
  <2>1. SUFFICES ASSUME CaptureAgain PROVE FALSE
    OBVIOUS
  <2>2. reader' = [reader EXCEPT !.at = a, !.again = TRUE]
    BY <2>1 DEF CaptureAgain
  <2>3. a # "quoted"
    OBVIOUS
  <2> HIDE DEF a
  <2>4. reader'.at = a
    BY <2>2 DEF Inv, Types, Readers
  <2> QED
    BY <2>3, <2>4
<1>9. ~ReadVerify /\ ~ReadEnds
  BY <1>2 DEF ReadVerify, ReadEnds, Inv, Types, Readers
<1> QED
  BY <1>3, <1>4, <1>5, <1>6, <1>7, <1>8, <1>9 DEF Next, Reading

\* What was erased is not quoted again.
THEOREM ErasedStaysUnused == Spec => ErasedIsUnused
<1> DEFINE Quoted ==
      reader'.at = "quoted" /\ reader.at # "quoted" =>
        /\ reader'.card \notin gone
        /\ reader'.card \notin receipts \/ ledger[reader'.card] # "forgotten"
<1>1. ASSUME Inv, [Next]_vars, reader'.at = "quoted", reader.at # "quoted"
      PROVE  /\ reader'.card \notin gone
             /\ reader'.card \notin receipts \/ ledger[reader'.card] # "forgotten"
  <2>1. Next
    BY <1>1 DEF vars
  <2>2. Admit
    BY <1>1, <2>1, QuotedByAdmit
  <2>3. reader'.card = reader.card
    BY <1>1, <2>2 DEF Admit, Inv, Types, Readers
  <2>4. memory.card = reader.card /\ reader.generation = safety.generation /\ reader.at = "access"
    BY <2>2 DEF Admit, ReaderCurrent, Current
  <2>5. reader.card \notin gone
    BY <1>1, <2>4 DEF Inv, ErasedIsDead, Dead
  <2>6. reader.card \notin receipts \/ ledger[reader.card] # "forgotten"
    BY <1>1, <2>4 DEF Inv, ReaderIsFenced
  <2> QED
    BY <2>3, <2>5, <2>6
<1>2. Inv /\ [Next]_vars => [Quoted]_vars
  BY <1>1
<1> QED
  BY <1>2, Invariance, PTL DEF Spec, ErasedIsUnused

=============================================================================
