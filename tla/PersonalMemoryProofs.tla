------------------------ MODULE PersonalMemoryProofs ------------------------
(***************************************************************************)
(* What TLAPS proves of PersonalMemory for any members, requests, replies  *)
(* and number of failures: a member who has withdrawn is not used, no      *)
(* permit outlives the context it was captured with, and what a member was *)
(* told is what a restart would load.  IInv is inductive; PInv and AInv    *)
(* are relative to it.                                                     *)
(***************************************************************************)
EXTENDS PersonalMemoryInvariant, NaturalsInduction, WellFoundedInduction, TLAPS

-----------------------------------------------------------------------------
(* Numbers and journals                                                    *)

USE PersonalMemoryAssumption

\* A nonempty set of numbers that is bounded has a greatest one.
LEMMA Greatest ==
  ASSUME NEW some \in SUBSET Nat, some # {}, NEW n \in Nat, \A k \in some : k <= n
  PROVE  \E k \in some : \A j \in some : k >= j
<1> DEFINE bounding == {b \in Nat : \A k \in some : k <= b}
<1>1. n \in bounding /\ bounding \subseteq Nat OBVIOUS
<1>2. PICK b \in bounding : \A c \in bounding : ~(<<c, b>> \in OpToRel(<, Nat))
  BY <1>1, NatLessThanWellFounded, WFMin
<1>3. b \in Nat /\ (\A k \in some : k <= b) /\ \A c \in bounding : ~(c < b) BY <1>2 DEF OpToRel
<1>4. b \in some
  <2> SUFFICES ASSUME b \notin some PROVE FALSE OBVIOUS
  <2>1. PICK k \in some : TRUE OBVIOUS
  <2>2. \A j \in some : j \in Nat /\ j < b BY <1>3
  <2>3. b - 1 \in Nat /\ b - 1 < b BY <1>3, <2>1, <2>2
  <2>4. \A j \in some : j <= b - 1 BY <1>3, <2>2
  <2> QED BY <1>3, <2>3, <2>4
<1> QED BY <1>3, <1>4

\* The larger of two numbers.
LEMMA LargerIs ==
  ASSUME NEW a \in Nat, NEW b \in Nat
  PROVE  Larger(a, b) \in Nat /\ Larger(a, b) >= a /\ Larger(a, b) >= b
BY DEF Larger

\* An entry that a request made is an entry.
LEMMA MarkIsNot == NoMark \in Marks /\ \A w \in Marks : w.by \in Requests => w # NoMark
BY DEF NoMark, Marks

\* The types of a journal's entries.
LEMMA JournalIs ==
  ASSUME NEW m \in Journals, NEW u \in Users
  PROVE  /\ m.off[u] \in Marks /\ m.on[u] \in Marks /\ m.off[u].epoch \in Nat /\ m.on[u].epoch \in Nat
         /\ m.off[u].rev \in Nat /\ m.on[u].rev \in Nat
BY DEF Journals, Marks

\* An empty journal names nobody.
LEMMA EmptyIs ==
  /\ EmptyMarker \in Journals /\ Covers(0, EmptyMarker) /\ \A u \in Users : ~Marked(EmptyMarker, u)
  /\ \A m \in Journals : IsEmpty(m) => Covers(0, m) /\ \A u \in Users : ~Marked(m, u)
<1>1. EmptyMarker \in Journals BY MarkIsNot DEF EmptyMarker, Journals
<1>2. Covers(0, EmptyMarker) /\ \A u \in Users : ~Marked(EmptyMarker, u)
  BY DEF EmptyMarker, NoMark, Covers, Marked
<1>3. ASSUME NEW m \in Journals, IsEmpty(m) PROVE Covers(0, m) /\ \A u \in Users : ~Marked(m, u)
  <2>1. \A u \in Users : m.off[u] = NoMark /\ m.on[u] = NoMark BY <1>3 DEF IsEmpty, Entries
  <2> QED BY <2>1 DEF Covers, Marked, NoMark
<1> QED BY <1>1, <1>2, <1>3

\* add_withdrawal adds to the journal and takes nothing away.
LEMMA AddIs ==
  ASSUME NEW m \in Journals, NEW u \in Users, NEW w \in Marks, w.by \in Requests
  PROVE  LET k == AddWithdrawal(m, u, w)
         IN  /\ k \in Journals /\ k.on = m.on /\ k.off[u].by = w.by /\ k.off[u].epoch >= w.epoch
             /\ \A v \in Users \ {u} : k.off[v] = m.off[v]
             /\ Continues(k, m)
             /\ \A n \in Nat, l \in Nat : Covers(n, m) /\ w.epoch <= l /\ n <= l => Covers(l, k)
<1> DEFINE k == AddWithdrawal(m, u, w)
           entry == [rev |-> Larger(m.off[u].rev, w.rev), epoch |-> Larger(m.off[u].epoch, w.epoch),
                     by |-> w.by]
<1>1. /\ m.off \in [Users -> Marks] /\ m.on \in [Users -> Marks] /\ w.rev \in Nat /\ w.epoch \in Nat
      /\ m = [off |-> m.off, on |-> m.on]
  BY DEF Journals, Marks
<1>2. \A v \in Users : m.off[v].epoch \in Nat /\ m.on[v].epoch \in Nat /\ m.off[v].rev \in Nat
  BY JournalIs
<1>3. entry \in Marks /\ entry.epoch >= w.epoch /\ entry.epoch >= m.off[u].epoch
      /\ entry.epoch \in {w.epoch, m.off[u].epoch} /\ entry.by = w.by
  BY <1>1, <1>2, LargerIs DEF Marks, Larger
<1>4. k.off = [m.off EXCEPT ![u] = entry] /\ k.on = m.on /\ k \in Journals
  <2>1. k = [m EXCEPT !.off = [m.off EXCEPT ![u] = entry]] BY <1>1 DEF AddWithdrawal
  <2> HIDE DEF k, entry
  <2>2. [m.off EXCEPT ![u] = entry] \in [Users -> Marks] BY <1>1, <1>3
  <2> QED BY <1>1, <2>1, <2>2 DEF Journals
<1> HIDE DEF k, entry
<1>5. k.off[u] = entry /\ \A v \in Users \ {u} : k.off[v] = m.off[v] BY <1>1, <1>4
<1>6. entry # NoMark BY <1>3, MarkIsNot
<1>7. Continues(k, m) BY <1>2, <1>3, <1>4, <1>5, <1>6 DEF Continues
<1>8. ASSUME NEW n \in Nat, NEW l \in Nat, Covers(n, m), w.epoch <= l, n <= l PROVE Covers(l, k)
  <2>1. \A v \in Users : m.off[v].epoch <= l /\ m.on[v].epoch <= l BY <1>2, <1>8 DEF Covers
  <2>2. entry.epoch <= l BY <1>3, <1>8, <2>1
  <2> QED BY <1>4, <1>5, <2>1, <2>2 DEF Covers
<1> QED BY <1>3, <1>4, <1>5, <1>7, <1>8 DEF k

\* A journal that continues another names whom it named, at least as late.
LEMMA Continuing ==
  ASSUME NEW k \in Journals, NEW m \in Journals, Continues(k, m)
  PROVE  /\ \A u \in Users : Marked(m, u) => Marked(k, u)
         /\ \A n \in Nat : Covers(n, k) => Covers(n, m)
<1>1. \A u \in Users : Marked(m, u) => Marked(k, u) BY DEF Continues, Marked
<1>2. ASSUME NEW n \in Nat, Covers(n, k), NEW u \in Users
      PROVE  m.off[u].epoch <= n /\ m.on[u].epoch <= n
  BY <1>2, JournalIs DEF Continues, Covers
<1> QED BY <1>1, <1>2 DEF Covers

-----------------------------------------------------------------------------
(* What is done to a document                                              *)

\* A document that follows a sane one is sane.
LEMMA SaneFollows ==
  ASSUME NEW e, NEW d, Follows(e, d), Sane(d)
  PROVE  Sane(e)
BY DEF Follows, Sane

\* The types of a subject's fields.
LEMMA SubjectIs ==
  ASSUME NEW s \in Subjects
  PROVE  /\ s.rev \in Nat /\ s.on \in BOOLEAN /\ s.pending \in BOOLEAN /\ s.proof \in BOOLEAN
         /\ s.out \in [Requests -> Outcome]
         /\ s = [rev |-> s.rev, on |-> s.on, pending |-> s.pending, proof |-> s.proof, out |-> s.out]
BY DEF Subjects

\* The types of a document's fields.
LEMMA DocumentIs ==
  ASSUME NEW d \in Documents
  PROVE  /\ d.facts \in SUBSET Users /\ d.subj \in [Users -> Subjects] /\ d.epoch \in Nat
         /\ d = [facts |-> d.facts, subj |-> d.subj, epoch |-> d.epoch]
BY DEF Documents

\* The documents before any change.
LEMMA FirstIs ==
  ASSUME NEW S \in SUBSET Users
  PROVE  LET d == Document(S)
         IN  /\ d \in Documents /\ d.epoch = 1 /\ Sane(d)
             /\ \A u \in Users, r \in Requests : d.subj[u].out[r] = "none"
             /\ \A u \in Users \ S : ~d.subj[u].on
<1>1. \A on \in BOOLEAN : Subject(on) \in Subjects /\ \A r \in Requests : Subject(on).out[r] = "none"
  BY DEF Subject, Subjects, Outcome
<1>2. \A u \in Users : (u \in S) \in BOOLEAN OBVIOUS
<1>3. \A u \in Users : Document(S).subj[u] = Subject(u \in S) BY DEF Document
<1>4. Document(S).subj \in [Users -> Subjects] BY <1>1, <1>2 DEF Document
<1>5. ASSUME NEW u \in Users
      PROVE  /\ u \in S => Document(S).subj[u].rev = 1
             /\ u \notin S => ~Document(S).subj[u].on /\ ~Document(S).subj[u].proof
  <2>1. \A on \in BOOLEAN : /\ Subject(on).rev = (IF on THEN 1 ELSE 0)
                            /\ Subject(on).on = on /\ Subject(on).proof = on
    BY DEF Subject
  <2>2. CASE u \in S
    <3>1. (u \in S) = TRUE BY <2>2
    <3> QED BY <1>3, <2>1, <2>2, <3>1
  <2>3. CASE u \notin S
    <3>1. (u \in S) = FALSE BY <2>3
    <3> QED BY <1>3, <2>1, <2>3, <3>1
  <2> QED BY <2>2, <2>3
<1>6. Sane(Document(S))
  <2>1. Document(S).facts = S BY DEF Document
  <2> QED BY <1>5, <2>1 DEF Sane
<1> QED BY <1>1, <1>2, <1>3, <1>4, <1>5, <1>6 DEF Document, Documents

\* The in-memory fence.
LEMMA FenceIs ==
  ASSUME NEW d \in Documents, NEW u \in Users
  PROVE  LET e == Fence(d, u)
         IN  /\ e \in Documents /\ e.epoch = d.epoch + 1 /\ ~e.subj[u].on /\ Below(e, d)
             /\ Forgets(e, d) /\ e.subj[u].rev \in Nat /\ e.facts = d.facts
             /\ e.subj[u].rev >= d.subj[u].rev /\ e.subj[u].proof = d.subj[u].proof
             /\ \A v \in Users \ {u} : e.subj[v] = d.subj[v]
<1> DEFINE s == [d.subj[u] EXCEPT !.on = FALSE, !.pending = FALSE, !.rev = @ + 1]
           e == Fence(d, u)
<1>1. d.subj \in [Users -> Subjects] /\ d.epoch \in Nat /\ d.subj[u] \in Subjects
  BY DocumentIs
<1>2. s \in Subjects /\ s.on = FALSE /\ s.out = d.subj[u].out /\ s.proof = d.subj[u].proof
      /\ s.rev >= d.subj[u].rev
  <2>1. d.subj[u].rev + 1 \in Nat /\ d.subj[u].rev + 1 >= d.subj[u].rev BY <1>1, SubjectIs
  <2> QED BY <1>1, <2>1 DEF Subjects
<1>3. e = [d EXCEPT !.subj = [d.subj EXCEPT ![u] = s], !.epoch = d.epoch + 1]
  BY DocumentIs, <1>1, SubjectIs DEF Fence
<1> HIDE DEF s, e
<1>4. e \in Documents /\ e.epoch = d.epoch + 1 /\ e.subj = [d.subj EXCEPT ![u] = s] /\ e.facts = d.facts
  <2>1. [d.subj EXCEPT ![u] = s] \in [Users -> Subjects] /\ d.epoch + 1 \in Nat BY <1>1, <1>2
  <2>2. PICK S \in [Users -> Subjects] : S = [d.subj EXCEPT ![u] = s] BY <2>1
  <2>3. PICK n \in Nat : n = d.epoch + 1 BY <2>1
  <2>4. PICK f \in SUBSET Users, T \in [Users -> Subjects], k \in Nat :
          d = [facts |-> f, subj |-> T, epoch |-> k]
    BY DocumentIs
  <2>5. e = [facts |-> f, subj |-> S, epoch |-> n] BY <1>3, <2>2, <2>3, <2>4
  <2> QED BY <2>2, <2>3, <2>4, <2>5 DEF Documents
<1>5. \A v \in Users : e.subj[v] = IF v = u THEN s ELSE d.subj[v] BY <1>1, <1>4
<1>6. s.rev \in Nat BY <1>2, SubjectIs
<1> QED BY <1>2, <1>4, <1>5, <1>6 DEF Below, Forgets, e

\* An edit of the memory service.
LEMMA InvalidatedIs ==
  ASSUME NEW d \in Documents, NEW u \in Users
  PROVE  LET e == Invalidated(d, u)
         IN  /\ e \in Documents /\ e.epoch = d.epoch + 1 /\ e.facts = d.facts
             /\ \A v \in Users : /\ e.subj[v].on = d.subj[v].on /\ e.subj[v].out = d.subj[v].out
                                 /\ e.subj[v].proof = d.subj[v].proof
                                 /\ e.subj[v].rev \in Nat /\ e.subj[v].rev >= d.subj[v].rev
             /\ \A v \in Users \ {u} : e.subj[v] = d.subj[v]
             /\ e.subj[u].rev = 0 \/ e.subj[u].rev > d.subj[u].rev
<1> DEFINE s == [d.subj[u] EXCEPT !.rev = IF @ = 0 THEN 0 ELSE @ + 1]
           e == Invalidated(d, u)
<1>1. d.subj \in [Users -> Subjects] /\ d.epoch \in Nat /\ d.subj[u] \in Subjects
  BY DocumentIs
<1>2. /\ s \in Subjects /\ s.on = d.subj[u].on /\ s.out = d.subj[u].out /\ s.proof = d.subj[u].proof
      /\ s.rev \in Nat /\ s.rev >= d.subj[u].rev /\ (s.rev = 0 \/ s.rev > d.subj[u].rev)
  <2>1. PICK n : n = IF d.subj[u].rev = 0 THEN 0 ELSE d.subj[u].rev + 1 OBVIOUS
  <2>2. n \in Nat /\ n >= d.subj[u].rev /\ (n = 0 \/ n > d.subj[u].rev) BY <1>1, <2>1, SubjectIs
  <2>3. s = [d.subj[u] EXCEPT !.rev = n] BY <2>1
  <2> QED BY <1>1, <2>2, <2>3 DEF Subjects
<1>3. e = [d EXCEPT !.subj = [d.subj EXCEPT ![u] = s], !.epoch = d.epoch + 1]
  BY DocumentIs, <1>1, SubjectIs DEF Invalidated
<1> HIDE DEF s, e
<1>4. e \in Documents /\ e.epoch = d.epoch + 1 /\ e.subj = [d.subj EXCEPT ![u] = s] /\ e.facts = d.facts
  <2>1. [d.subj EXCEPT ![u] = s] \in [Users -> Subjects] /\ d.epoch + 1 \in Nat BY <1>1, <1>2
  <2>2. PICK S \in [Users -> Subjects] : S = [d.subj EXCEPT ![u] = s] BY <2>1
  <2>3. PICK n \in Nat : n = d.epoch + 1 BY <2>1
  <2>4. PICK f \in SUBSET Users, T \in [Users -> Subjects], k \in Nat :
          d = [facts |-> f, subj |-> T, epoch |-> k]
    BY DocumentIs
  <2>5. e = [facts |-> f, subj |-> S, epoch |-> n] BY <1>3, <2>2, <2>3, <2>4
  <2> QED BY <2>2, <2>3, <2>4, <2>5 DEF Documents
<1>5. \A v \in Users : e.subj[v] = IF v = u THEN s ELSE d.subj[v] BY <1>1, <1>4
<1>6. \A v \in Users : d.subj[v].rev \in Nat /\ d.subj[v].rev >= d.subj[v].rev BY <1>1, SubjectIs
<1> QED BY <1>2, <1>4, <1>5, <1>6 DEF e

\* fold_denials of one entry closes the use and makes no request known.
LEMMA FoldEntryIs ==
  ASSUME Types, NEW s \in Subjects, NEW w \in Marks
  PROVE  LET e == FoldEntry(s, w)
         IN  /\ e \in Subjects /\ (e.on => s.on /\ e = s) /\ (w # NoMark => ~e.on)
             /\ e.proof = s.proof
             /\ \A r \in Requests : e.out[r] # "none" => s.out[r] # "none"
<1>1. CASE w = NoMark BY <1>1 DEF FoldEntry
<1>2. CASE w # NoMark
  <2> DEFINE rev == Larger(s.rev, w.rev) + (IF s.on \/ s.pending THEN 1 ELSE 0)
             out == [r \in Requests |-> IF r = w.by /\ req[r].kind = "on" THEN "none" ELSE s.out[r]]
  <2>1. rev \in Nat BY SubjectIs, LargerIs DEF Marks
  <2>2. out \in [Requests -> Outcome] BY SubjectIs DEF Outcome
  <2>3. FoldEntry(s, w) = [rev |-> rev, on |-> FALSE, pending |-> FALSE, proof |-> s.proof, out |-> out]
    <3>1. FoldEntry(s, w) = [s EXCEPT !.on = FALSE, !.pending = FALSE, !.rev = rev, !.out = out]
      BY <1>2 DEF FoldEntry
    <3> HIDE DEF rev, out
    <3>2. PICK a, p, o, n, b : s = [rev |-> a, on |-> b, pending |-> n, proof |-> p, out |-> o] BY SubjectIs
    <3> QED BY <3>1, <3>2
  <2>4. \A r \in Requests : out[r] # "none" => s.out[r] # "none" OBVIOUS
  <2> HIDE DEF rev, out
  <2> QED BY <1>2, <2>1, <2>2, <2>3, <2>4, SubjectIs DEF Subjects
<1> QED BY <1>1, <1>2

\* fold_denials takes away and never gives.
LEMMA FoldIs ==
  ASSUME Types, NEW d \in Documents, NEW m \in Journals, NEW n \in Nat, Covers(n, m)
  PROVE  LET e == FoldDenials(d, m)
         IN  /\ e \in Documents /\ e.facts = d.facts /\ e.epoch >= d.epoch /\ Covers(e.epoch, m)
             /\ Below(e, d) /\ Forgets(e, d) /\ \A u \in Users : Marked(m, u) => ~e.subj[u].on
             /\ Follows(e, d)
<1> DEFINE e == FoldDenials(d, m)
           epochs == {d.epoch} \cup {w.epoch : w \in Entries(m)}
           max == CHOOSE k \in epochs : \A w \in Entries(m) : k >= w.epoch /\ k >= d.epoch
           Folded(u) == FoldEntry(FoldEntry(d.subj[u], m.off[u]), m.on[u])
<1>1. d.epoch \in Nat /\ d.subj \in [Users -> Subjects] BY DocumentIs
<1>2. \A w \in Entries(m) : w.epoch \in Nat /\ w.epoch <= n
  BY JournalIs DEF Entries, Covers
<1>3. /\ max \in Nat /\ max >= d.epoch /\ \A u \in Users : max >= m.off[u].epoch /\ max >= m.on[u].epoch
  <2>2. epochs \in SUBSET Nat /\ epochs # {} BY <1>1, <1>2
  <2>3. PICK b \in Nat : n <= b /\ d.epoch <= b BY <1>1, LargerIs
  <2>4. \A k \in epochs : k <= b BY <1>1, <1>2, <2>3
  <2>5. \E k \in epochs : \A j \in epochs : k >= j BY <2>2, <2>4, Greatest
  <2>6. \E k \in epochs : \A w \in Entries(m) : k >= w.epoch /\ k >= d.epoch BY <2>5
  <2>7. max \in epochs /\ \A w \in Entries(m) : max >= w.epoch /\ max >= d.epoch BY <2>6
  <2>8. max >= d.epoch
    <3>1. CASE Entries(m) = {} BY <1>1, <2>7, <3>1
    <3>2. CASE Entries(m) # {} BY <2>7, <3>2
    <3> QED BY <3>1, <3>2
  <2> QED BY <2>2, <2>7, <2>8 DEF Entries
<1>4. ASSUME NEW u \in Users
      PROVE  /\ Folded(u) \in Subjects /\ (Folded(u).on => d.subj[u].on /\ Folded(u) = d.subj[u])
             /\ Folded(u).proof = d.subj[u].proof
             /\ (Marked(m, u) => ~Folded(u).on)
             /\ \A r \in Requests : Folded(u).out[r] # "none" => d.subj[u].out[r] # "none"
  <2> DEFINE half == FoldEntry(d.subj[u], m.off[u])
  <2>1. /\ half \in Subjects /\ (half.on => d.subj[u].on /\ half = d.subj[u])
        /\ half.proof = d.subj[u].proof /\ (m.off[u] # NoMark => ~half.on)
        /\ \A r \in Requests : half.out[r] # "none" => d.subj[u].out[r] # "none"
    BY <1>1, JournalIs, FoldEntryIs
  <2> HIDE DEF half
  <2>2. /\ FoldEntry(half, m.on[u]) \in Subjects
        /\ (FoldEntry(half, m.on[u]).on => half.on /\ FoldEntry(half, m.on[u]) = half)
        /\ FoldEntry(half, m.on[u]).proof = half.proof
        /\ (m.on[u] # NoMark => ~FoldEntry(half, m.on[u]).on)
        /\ \A r \in Requests : FoldEntry(half, m.on[u]).out[r] # "none" => half.out[r] # "none"
    BY <2>1, JournalIs, FoldEntryIs
  <2> QED BY <2>1, <2>2 DEF Marked, half
<1>5. e = [d EXCEPT !.subj = [u \in Users |-> Folded(u)], !.epoch = max]
  BY DocumentIs DEF FoldDenials
<1> HIDE DEF e, Folded, max, epochs
<1>6. e \in Documents /\ e.facts = d.facts /\ e.epoch = max /\ \A u \in Users : e.subj[u] = Folded(u)
  BY <1>1, <1>3, <1>4, <1>5, DocumentIs DEF Documents
<1>7. Follows(e, d) BY <1>3, <1>4, <1>6 DEF Follows
<1> QED BY <1>3, <1>4, <1>6, <1>7 DEF Covers, Below, Forgets, e

\* complete_qualified_outcomes of one subject leaves the choice alone.
LEMMA CompletedIs ==
  ASSUME NEW s \in Subjects
  PROVE  /\ Completed(s) \in Subjects /\ Completed(s).on = s.on
         /\ Completed(s).rev = s.rev /\ Completed(s).proof = s.proof
         /\ \A r \in Requests : Completed(s).out[r] # "none" => s.out[r] # "none"
<1> DEFINE out == [r \in Requests |-> IF s.out[r] = "none" THEN "none" ELSE "done"]
<1>1. out \in [Requests -> Outcome] BY DEF Outcome
<1>2. \A r \in Requests : out[r] # "none" => s.out[r] # "none" OBVIOUS
<1>3. Completed(s) = [s EXCEPT !.out = out] BY DEF Completed
<1> HIDE DEF out
<1>4. PICK a, b, n, p, o : s = [rev |-> a, on |-> b, pending |-> n, proof |-> p, out |-> o] BY SubjectIs
<1>5. Completed(s) = [rev |-> a, on |-> b, pending |-> n, proof |-> p, out |-> out] BY <1>3, <1>4
<1> QED BY <1>1, <1>2, <1>4, <1>5 DEF Subjects

\* recover_owned closes a choice under way and makes no request known.
LEMMA ClosedIs ==
  ASSUME Types, NEW s \in Subjects
  PROVE  /\ Closed(s) \in Subjects /\ ~Closed(s).on /\ Closed(s).proof = s.proof
         /\ \A r \in Requests : Closed(s).out[r] # "none" => s.out[r] # "none"
<1> DEFINE out == [r \in Requests |-> IF req[r].kind = "on" /\ s.out[r] = "open" THEN "none" ELSE s.out[r]]
<1>1. out \in [Requests -> Outcome] BY SubjectIs DEF Outcome
<1>2. \A r \in Requests : out[r] # "none" => s.out[r] # "none" OBVIOUS
<1>3. Closed(s) = [s EXCEPT !.on = FALSE, !.pending = FALSE, !.rev = s.rev + 1, !.out = out]
  BY DEF Closed
<1> HIDE DEF out
<1>4. s.rev + 1 \in Nat BY SubjectIs
<1>5. PICK n : n = s.rev + 1 OBVIOUS
<1>6. PICK a, b, c, p, o : s = [rev |-> a, on |-> b, pending |-> c, proof |-> p, out |-> o] BY SubjectIs
<1>7. Closed(s) = [rev |-> n, on |-> FALSE, pending |-> FALSE, proof |-> p, out |-> out]
  BY <1>3, <1>5, <1>6
<1>8. p \in BOOLEAN BY <1>6, SubjectIs
<1>9. n \in Nat BY <1>4, <1>5
<1>10. Closed(s) \in Subjects /\ Closed(s).out = out /\ ~Closed(s).on /\ Closed(s).proof = p
  BY <1>1, <1>7, <1>8, <1>9 DEF Subjects
<1> QED BY <1>2, <1>6, <1>10

\* complete_qualified_outcomes
LEMMA CompleteIs ==
  ASSUME NEW d \in Documents
  PROVE  LET e == CompleteOutcomes(d)
         IN  /\ e \in Documents /\ e.facts = d.facts /\ e.epoch = d.epoch
             /\ \A u \in Users : e.subj[u].on = d.subj[u].on
             /\ Below(e, d) /\ Forgets(e, d) /\ Follows(e, d)
<1>1. d.subj \in [Users -> Subjects] BY DocumentIs
<1>2. PICK S : S = [u \in Users |-> Completed(d.subj[u])] OBVIOUS
<1>3. S \in [Users -> Subjects] /\ \A u \in Users : S[u] = Completed(d.subj[u])
  BY <1>1, <1>2, CompletedIs
<1>4. PICK e : e = CompleteOutcomes(d) OBVIOUS
<1>5. PICK f, T, k : d = [facts |-> f, subj |-> T, epoch |-> k] BY DocumentIs
<1>6. e = [d EXCEPT !.subj = S] BY <1>2, <1>4 DEF CompleteOutcomes
<1>7. e = [facts |-> f, subj |-> S, epoch |-> k] BY <1>5, <1>6
<1>8. f \in SUBSET Users /\ k \in Nat BY <1>5, DocumentIs
<1>9. e \in Documents /\ e.facts = d.facts /\ e.epoch = d.epoch /\ e.subj = S
  BY <1>3, <1>5, <1>7, <1>8 DEF Documents
<1>10. \A u \in Users : e.subj[u].on = d.subj[u].on BY <1>1, <1>3, <1>9, CompletedIs
<1>11. Forgets(e, d) BY <1>1, <1>3, <1>9, CompletedIs DEF Forgets
<1>12. Follows(e, d)
  <2>1. \A u \in Users : e.subj[u].rev = d.subj[u].rev /\ e.subj[u].proof = d.subj[u].proof
    BY <1>1, <1>3, <1>9, CompletedIs
  <2>2. e.epoch >= d.epoch BY <1>9, DocumentIs
  <2> QED BY <1>9, <1>10, <2>1, <2>2 DEF Follows
<1> QED BY <1>4, <1>9, <1>10, <1>11, <1>12 DEF Below

\* recover_owned: what a restart loads allows nothing the files did not allow, and
\* nothing to a member the journal names.
LEMMA RecoveredIs ==
  ASSUME Types, NEW d \in Documents, NEW m \in Journals, NEW n \in Nat, Covers(n, m)
  PROVE  LET e == Recovered(d, m)
         IN  /\ e \in Documents /\ e.epoch >= d.epoch /\ Covers(e.epoch, m)
             /\ Below(e, d) /\ Forgets(e, d) /\ \A u \in Users : Marked(m, u) => ~e.subj[u].on
             /\ Follows(e, d)
<1>1. PICK folded : folded = FoldDenials(d, m) OBVIOUS
<1>2. PICK unresolved : unresolved = {u \in Users : folded.subj[u].pending} OBVIOUS
<1>3. /\ folded \in Documents /\ folded.facts = d.facts /\ folded.epoch >= d.epoch
      /\ Covers(folded.epoch, m) /\ Below(folded, d) /\ Forgets(folded, d)
      /\ \A u \in Users : Marked(m, u) => ~folded.subj[u].on
      /\ Follows(folded, d)
  BY <1>1, FoldIs
<1>4. folded.subj \in [Users -> Subjects] /\ folded.epoch \in Nat BY <1>3, DocumentIs
<1>5. PICK S : S = [u \in Users |-> IF u \in unresolved THEN Closed(folded.subj[u]) ELSE folded.subj[u]]
  OBVIOUS
<1>6. PICK epoch : epoch = IF unresolved = {} THEN folded.epoch ELSE folded.epoch + 1 OBVIOUS
<1>7. epoch \in Nat /\ epoch >= folded.epoch BY <1>4, <1>6
<1>8. /\ S \in [Users -> Subjects]
      /\ \A u \in Users : /\ S[u].on => S[u] = folded.subj[u]
                          /\ S[u].proof = folded.subj[u].proof
      /\ \A u \in Users, r \in Requests : S[u].out[r] # "none" => folded.subj[u].out[r] # "none"
  BY <1>4, <1>5, ClosedIs
<1>9. PICK resolved : resolved = [folded EXCEPT !.subj = S, !.epoch = epoch] OBVIOUS
<1>10. Recovered(d, m) = CompleteOutcomes(resolved)
  BY <1>1, <1>2, <1>5, <1>6, <1>9 DEF Recovered
<1>11. PICK f, T, k : folded = [facts |-> f, subj |-> T, epoch |-> k] BY <1>3, DocumentIs
<1>12. resolved = [facts |-> f, subj |-> S, epoch |-> epoch] BY <1>9, <1>11
<1>13. f \in SUBSET Users BY <1>3, <1>11, DocumentIs
<1>14. resolved \in Documents /\ resolved.subj = S /\ resolved.epoch = epoch
  BY <1>7, <1>8, <1>12, <1>13 DEF Documents
<1>15. PICK e : e = CompleteOutcomes(resolved) OBVIOUS
<1>16. /\ e \in Documents /\ e.epoch = epoch /\ Forgets(e, resolved) /\ Follows(e, resolved)
       /\ \A u \in Users : e.subj[u].on = S[u].on
  BY <1>14, <1>15, CompleteIs
<1>17. Below(e, d) /\ Forgets(e, d) /\ \A u \in Users : Marked(m, u) => ~e.subj[u].on
  BY <1>3, <1>8, <1>14, <1>16 DEF Below, Forgets
<1>18. e.epoch >= d.epoch /\ Covers(e.epoch, m)
  <2>1. d.epoch \in Nat BY DocumentIs
  <2>2. \A u \in Users : m.off[u].epoch \in Nat /\ m.on[u].epoch \in Nat BY JournalIs
  <2> QED BY <1>3, <1>4, <1>7, <1>16, <2>1, <2>2 DEF Covers
<1>19. Follows(e, d)
  <2>1. resolved.facts = folded.facts BY <1>11, <1>12
  <2> QED BY <1>3, <1>8, <1>14, <1>16, <1>18, <2>1 DEF Follows
<1> QED BY <1>10, <1>15, <1>16, <1>17, <1>18, <1>19

\* UninstalledPublication::rebase: use is allowed only where the file allows it, and
\* the epoch is the later one.
LEMMA RebaseIs ==
  ASSUME NEW l \in Documents, NEW before \in Documents, NEW d \in Documents
  PROVE  LET e == Rebase(l, before, d)
         IN  /\ e \in Documents /\ e.epoch >= l.epoch /\ e.epoch >= d.epoch /\ Below(e, d)
             /\ \A u \in Users, r \in Requests :
                  e.subj[u].out[r] # "none" => l.subj[u].out[r] # "none" \/ d.subj[u].out[r] # "none"
             /\ Sane(d) => Sane(e) /\ (l = before => Follows(e, d))
<1> DEFINE s(u) == RebasedSubject(l, before, d, u)
           facts == RebasedFacts(l, before, d)
           t(u) == [s(u) EXCEPT !.proof = @ /\ u \in facts]
           epoch == Larger(l.epoch, d.epoch)
<1>1. /\ l.subj \in [Users -> Subjects] /\ before.subj \in [Users -> Subjects]
      /\ d.subj \in [Users -> Subjects] /\ l.epoch \in Nat /\ d.epoch \in Nat
      /\ l.facts \in SUBSET Users /\ d.facts \in SUBSET Users
  BY DocumentIs
<1>2. ASSUME NEW u \in Users
      PROVE  /\ s(u) \in Subjects /\ (s(u).on => d.subj[u].on /\ s(u).rev >= d.subj[u].rev)
             /\ l = before => s(u) = d.subj[u]
             /\ \A r \in Requests : s(u).out[r] # "none" =>
                  l.subj[u].out[r] # "none" \/ d.subj[u].out[r] # "none"
  <2>1. PICK mine \in Subjects, old \in Subjects, new \in Subjects :
          mine = l.subj[u] /\ old = before.subj[u] /\ new = d.subj[u]
    BY <1>1
  <2>2. CASE mine = old
    <3>1. new.rev >= new.rev BY SubjectIs
    <3> QED BY <2>1, <2>2, <3>1 DEF RebasedSubject
  <2>3. CASE mine # old
    <3> DEFINE out == [r \in Requests |-> Merged(mine.out[r], old.out[r], new.out[r])]
               on == mine.on /\ new.on
               pending == mine.on /\ new.on /\ (mine.pending \/ new.pending)
    <3>1. s(u) = [rev |-> Larger(mine.rev, new.rev), on |-> on, pending |-> pending,
                  proof |-> Merged(mine.proof, old.proof, new.proof), out |-> out]
      BY <2>1, <2>3 DEF RebasedSubject
    <3>8. on \in BOOLEAN /\ pending \in BOOLEAN /\ (on => new.on) OBVIOUS
    <3> HIDE DEF on, pending
    <3>2. out \in [Requests -> Outcome] BY SubjectIs DEF Merged
    <3>3. \A r \in Requests : out[r] # "none" => mine.out[r] # "none" \/ new.out[r] # "none" BY DEF Merged
    <3> HIDE DEF out
    <3>4. Larger(mine.rev, new.rev) \in Nat /\ Larger(mine.rev, new.rev) >= new.rev
      BY SubjectIs, LargerIs
    <3>5. Merged(mine.proof, old.proof, new.proof) \in BOOLEAN BY SubjectIs DEF Merged
    <3>6. s(u) \in Subjects BY <3>1, <3>2, <3>4, <3>5, <3>8 DEF Subjects
    <3>7. s(u).out = out /\ (s(u).on => new.on) /\ s(u).rev = Larger(mine.rev, new.rev) BY <3>1, <3>8
    <3> HIDE DEF s
    <3> QED BY <2>1, <2>3, <3>3, <3>4, <3>6, <3>7
  <2> QED BY <2>2, <2>3
<1> HIDE DEF s
<1>3. ASSUME NEW u \in Users
      PROVE  /\ t(u) \in Subjects /\ t(u).on = s(u).on /\ t(u).out = s(u).out
             /\ t(u).rev = s(u).rev /\ t(u).proof = (s(u).proof /\ u \in facts)
  BY <1>2 DEF Subjects
<1>4. epoch \in Nat /\ epoch >= l.epoch /\ epoch >= d.epoch BY <1>1, LargerIs
<1>5. facts \in SUBSET Users BY <1>1 DEF RebasedFacts
<1>6. Rebase(l, before, d) = [facts |-> facts, subj |-> [u \in Users |-> t(u)], epoch |-> epoch]
  BY DEF Rebase, s
<1>10. l = before => facts = d.facts BY <1>1 DEF RebasedFacts
<1> HIDE DEF t, epoch, facts
<1>7. PICK e : e = Rebase(l, before, d) OBVIOUS
<1>8. e \in Documents /\ e.epoch = epoch /\ e.facts = facts /\ \A u \in Users : e.subj[u] = t(u)
  BY <1>3, <1>4, <1>5, <1>6, <1>7 DEF Documents
<1>9. Below(e, d) BY <1>2, <1>3, <1>8 DEF Below
<1>11. ASSUME Sane(d) PROVE Sane(e) /\ (l = before => Follows(e, d))
  <2>1. ASSUME NEW u \in Users
        PROVE  /\ d.subj[u].rev \in Nat /\ d.subj[u].proof \in BOOLEAN
               /\ e.subj[u].rev \in Nat /\ s(u).proof \in BOOLEAN
    BY <1>1, <1>2, <1>8, SubjectIs, DocumentIs
  <2>2. ASSUME NEW u \in Users
        PROVE  /\ e.subj[u].on => d.subj[u].on /\ e.subj[u].rev >= d.subj[u].rev
               /\ e.subj[u].proof = (s(u).proof /\ u \in facts)
               /\ l = before => e.subj[u].rev = d.subj[u].rev /\ s(u).proof = d.subj[u].proof
    BY <1>2, <1>3, <1>8
  <2>3. ASSUME NEW u \in Users, e.subj[u].on PROVE e.subj[u].rev > 0
    BY <1>11, <2>1, <2>2, <2>3 DEF Sane
  <2>4. Sane(e) BY <1>8, <2>2, <2>3 DEF Sane
  <2>5. ASSUME l = before, NEW u \in Users PROVE e.subj[u].proof = d.subj[u].proof
    <3>1. d.subj[u].proof => u \in facts BY <1>10, <1>11, <2>5 DEF Sane
    <3> QED BY <2>1, <2>2, <2>5, <3>1
  <2> QED BY <1>4, <1>8, <1>10, <2>2, <2>4, <2>5 DEF Follows
<1> QED BY <1>2, <1>3, <1>4, <1>7, <1>8, <1>9, <1>11

\* apply_mutation: one member's choice moves, and one request becomes known.
LEMMA ApplyIs ==
  ASSUME Types, NEW r \in Requests, Member(r) \in Users, NEW d \in Documents
  PROVE  LET e == Apply(r, d)
         IN  /\ e \in Documents /\ e.epoch = d.epoch + 1
             /\ \A u \in Users : e.subj[u].on => d.subj[u].on \/ (Kind(r) = "on" /\ u = Member(r))
             /\ Kind(r) = "off" => ~e.subj[Member(r)].on
             /\ \A u \in Users, q \in Requests :
                  e.subj[u].out[q] # "none" => d.subj[u].out[q] # "none" \/ q = r
             /\ e.subj[Member(r)].rev \in Nat
             /\ Sane(d) /\ CanApply(r, d) => Sane(e)
<1>1. PICK u \in Users : u = Member(r) OBVIOUS
<1> DEFINE proof == IF Kind(r) \in {"remember", "confirm"} THEN TRUE
                    ELSE IF Kind(r) = "forget" THEN FALSE ELSE d.subj[u].proof
           on == IF Kind(r) \in {"on", "off"} THEN Kind(r) = "on" ELSE d.subj[u].on
           s == [d.subj[u] EXCEPT !.on = on, !.proof = proof, !.rev = @ + 1, !.out[r] = "open"]
           S == [d.subj EXCEPT ![u] = s]
<1>2. /\ d.subj \in [Users -> Subjects] /\ d.epoch \in Nat /\ d.facts \in SUBSET Users
      /\ d.subj[u] \in Subjects
  BY DocumentIs
<1>3. PICK a, b, k, p, o : d.subj[u] = [rev |-> a, on |-> b, pending |-> k, proof |-> p, out |-> o]
  BY <1>2, SubjectIs
<1>a. a \in Nat /\ a + 1 \in Nat /\ k \in BOOLEAN /\ o \in [Requests -> Outcome] BY <1>2, <1>3, SubjectIs
<1>4. proof \in BOOLEAN /\ on \in BOOLEAN /\ (on => d.subj[u].on \/ Kind(r) = "on")
      /\ (Kind(r) = "off" => ~on)
  BY <1>2, SubjectIs
<1>5. s = [rev |-> a + 1, on |-> on, pending |-> k, proof |-> proof, out |-> [o EXCEPT ![r] = "open"]]
  <2>1. s = [d.subj[u] EXCEPT !.on = on, !.proof = proof, !.rev = a + 1, !.out = [o EXCEPT ![r] = "open"]]
    BY <1>3
  <2> HIDE DEF on, proof, s
  <2>2. PICK z : z = a + 1 OBVIOUS
  <2>3. PICK w : w = [o EXCEPT ![r] = "open"] OBVIOUS
  <2>4. PICK t : t = d.subj[u] OBVIOUS
  <2>5. s = [t EXCEPT !.on = on, !.proof = proof, !.rev = z, !.out = w] BY <2>1, <2>2, <2>3, <2>4
  <2>6. t = [rev |-> a, on |-> b, pending |-> k, proof |-> p, out |-> o] BY <1>3, <2>4
  <2>7. s = [rev |-> z, on |-> on, pending |-> k, proof |-> proof, out |-> w] BY <2>5, <2>6
  <2> QED BY <2>2, <2>3, <2>7
<1>6. [o EXCEPT ![r] = "open"] \in [Requests -> Outcome] BY <1>a DEF Outcome
<1>8. AppliedFacts(r, d) \in SUBSET Users BY <1>1, <1>2 DEF AppliedFacts
<1>9. Apply(r, d) = [facts |-> AppliedFacts(r, d), epoch |-> d.epoch + 1, subj |-> S]
  BY <1>1 DEF Apply
<1> HIDE DEF on, proof, s
<1>10. PICK O \in [Requests -> Outcome] : O = [o EXCEPT ![r] = "open"] BY <1>6
<1>11. s \in Subjects /\ s.rev = a + 1 /\ s.rev \in Nat /\ s.on = on /\ s.proof = proof /\ s.out = O
  BY <1>a, <1>4, <1>5, <1>10 DEF Subjects
<1>12. S \in [Users -> Subjects] /\ \A v \in Users : S[v] = IF v = u THEN s ELSE d.subj[v]
  BY <1>2, <1>11
<1> HIDE DEF S
<1>13. PICK e : e = Apply(r, d) OBVIOUS
<1>14. e \in Documents /\ e.epoch = d.epoch + 1 /\ e.subj = S /\ e.facts = AppliedFacts(r, d)
  BY <1>2, <1>8, <1>9, <1>12, <1>13 DEF Documents
<1>15. \A v \in Users, q \in Requests : e.subj[v].out[q] # "none" => d.subj[v].out[q] # "none" \/ q = r
  <2>1. ASSUME NEW v \in Users, NEW q \in Requests, e.subj[v].out[q] # "none", q # r
        PROVE  d.subj[v].out[q] # "none"
    <3>1. CASE v # u BY <1>12, <1>14, <2>1, <3>1
    <3>2. CASE v = u
      <4>1. e.subj[v].out = O BY <1>11, <1>12, <1>14, <3>2
      <4>2. O[q] = o[q] BY <1>10, <1>a, <2>1
      <4>3. d.subj[v].out = o BY <1>3, <3>2
      <4> QED BY <2>1, <4>1, <4>2, <4>3
    <3> QED BY <3>1, <3>2
  <2> QED BY <2>1
<1>16. ASSUME Sane(d), CanApply(r, d) PROVE Sane(e)
  <2>1. AppliedFacts(r, d) \subseteq d.facts \cup {u} /\ d.facts \ {u} \subseteq AppliedFacts(r, d)
    BY <1>1 DEF AppliedFacts
  <2>2. s.rev > 0 BY <1>a, <1>11
  <2>3. proof => u \in AppliedFacts(r, d)
    <3>1. CASE Kind(r) = "remember" BY <1>1, <3>1 DEF AppliedFacts
    <3>2. CASE Kind(r) = "confirm" BY <1>1, <1>16, <3>2 DEF AppliedFacts, CanApply
    <3>3. CASE Kind(r) = "forget" BY <3>3 DEF proof
    <3>4. CASE Kind(r) \notin {"remember", "confirm", "forget"}
      <4>1. proof => u \in d.facts BY <1>1, <1>16, <3>4 DEF Sane, proof
      <4> QED BY <3>4, <4>1 DEF AppliedFacts
    <3> QED BY <3>1, <3>2, <3>3, <3>4
  <2> QED BY <1>11, <1>12, <1>14, <1>16, <2>1, <2>2, <2>3 DEF Sane
<1> QED BY <1>1, <1>4, <1>11, <1>12, <1>13, <1>14, <1>15, <1>16

-----------------------------------------------------------------------------
(* What every step keeps                                                   *)

Active == {"asked", "queued", "running", "refused"}

\* A request that was asked keeps its member, its kind and its stamp.
Keeps ==
  \A r \in Requests : req[r].at # "new" =>
    /\ req'[r].at # "new" /\ req'[r].user = req[r].user
    /\ req'[r].kind = req[r].kind /\ req'[r].stamp = req[r].stamp

\* It is asked at the epoch of memory.
Begins(r) ==
  /\ req[r].at = "new" /\ req'[r].user \in Users /\ req'[r].fresh
  /\ req'[r].allowed = req'[r].stamp /\ req'[r].stamp[2] = live'.epoch
\* While it may still be carried out it keeps what allows it.
Lasts(r) ==
  /\ req'[r].at # "new" => /\ req[r].at # "new"
                           /\ req'[r].kind = "on" => req'[r].allowed = req[r].allowed
  /\ req'[r].at \in Active /\ req'[r].kind = "on" =>
       /\ req[r].at \in Active
       /\ req'[r].fresh = req[r].fresh \/ live'.epoch > live.epoch
Stays(r) == Begins(r) \/ Lasts(r)

KeptGrows == \A n \in Nat : Kept(n) => Kept(n)'

\* The part of the invariant that speaks of the members, not of what is under way.
World ==
  /\ WithdrawalsAreKept /\ MemoryIsFenced /\ Dated(live) /\ Dated(disk) /\ JournalDated(marker)
  /\ \A r \in Requests : RequestIsDated(r)

\* The types of a request's fields.
LEMMA RequestIs ==
  ASSUME Types, NEW r \in Requests
  PROVE  /\ req[r] \in Requested /\ req[r].stamp \in Stamps /\ req[r].stamp[2] \in Nat
         /\ req[r].allowed \in Stamps /\ req[r].allowed[2] \in Nat /\ req[r].fresh \in BOOLEAN
BY DEF Types, Requested, Stamps

\* The types of the documents, of the journal and of their epochs.
LEMMA FilesAre ==
  ASSUME Types
  PROVE  /\ live.epoch \in Nat /\ base.epoch \in Nat /\ disk.epoch \in Nat
         /\ \A u \in Users : /\ marker.off[u] \in Marks /\ marker.on[u] \in Marks
                             /\ marker.off[u].epoch \in Nat /\ marker.on[u].epoch \in Nat
<1>1. live \in Documents /\ base \in Documents /\ disk \in Documents /\ marker \in Journals BY DEF Types
<1> QED BY <1>1, DocumentIs, JournalIs

\* A document that knows no more requests, at a later epoch, is dated as well.
LEMMA DatedGrows ==
  ASSUME Types, NEW d \in Documents, NEW e \in Documents, Dated(d), Forgets(e, d), e.epoch >= d.epoch
  PROVE  Dated(e)
<1>1. d.epoch \in Nat /\ e.epoch \in Nat BY DocumentIs
<1>2. \A r \in Requests : req[r].stamp[2] \in Nat BY RequestIs
<1> QED BY <1>1, <1>2 DEF Dated, Forgets, Past

\* The dating outlives any step.
LEMMA DatedStays ==
  ASSUME Keeps, NEW d
  PROVE  /\ Dated(d) => Dated(d)'
         /\ MarkDated(d) => MarkDated(d)'
         /\ JournalDated(d) => JournalDated(d)'
<1>1. Dated(d) => Dated(d)' BY DEF Keeps, Dated, Past
<1>2. \A w : MarkDated(w) => MarkDated(w)' BY DEF Keeps, MarkDated, Past
<1>3. JournalDated(d) => JournalDated(d)' BY <1>2 DEF JournalDated
<1> QED BY <1>1, <1>2, <1>3

\* The files forget an epoch only if the document is past it.
LEMMA KeptIs ==
  ASSUME Types, Types', disk'.epoch >= disk.epoch,
         \A u \in Users :
           /\ marker.off[u].epoch <= marker'.off[u].epoch \/ marker.off[u].epoch <= disk'.epoch
           /\ marker.on[u].epoch <= marker'.on[u].epoch \/ marker.on[u].epoch <= disk'.epoch
  PROVE  KeptGrows
<1>1. /\ disk.epoch \in Nat
      /\ \A u \in Users : marker.off[u].epoch \in Nat /\ marker.on[u].epoch \in Nat
  BY FilesAre
<1>2. /\ disk'.epoch \in Nat
      /\ \A u \in Users : marker'.off[u].epoch \in Nat /\ marker'.on[u].epoch \in Nat
  <2>1. ( /\ live.epoch \in Nat /\ base.epoch \in Nat /\ disk.epoch \in Nat
          /\ \A u \in Users : /\ marker.off[u] \in Marks /\ marker.on[u] \in Marks
                              /\ marker.off[u].epoch \in Nat /\ marker.on[u].epoch \in Nat )'
    BY FilesAre, PTL
  <2> QED BY <2>1
<1> SUFFICES ASSUME NEW n \in Nat, Kept(n) PROVE Kept(n)' BY DEF KeptGrows
<1>3. CASE disk.epoch > n BY <1>1, <1>2, <1>3 DEF Kept
<1>4. CASE \E u \in Users : marker.off[u].epoch > n \/ marker.on[u].epoch > n
  <2>1. PICK u \in Users : marker.off[u].epoch > n \/ marker.on[u].epoch > n BY <1>4
  <2>2. disk'.epoch > n \/ marker'.off[u].epoch > n \/ marker'.on[u].epoch > n BY <1>1, <1>2, <2>1
  <2> QED BY <2>2 DEF Kept
<1> QED BY <1>3, <1>4 DEF Kept

\* A request stays dated while the epoch is not lost.
LEMMA RequestStays ==
  ASSUME Types, Types', Keeps, NEW r \in Requests, RequestIsDated(r), Stays(r),
         live'.epoch >= live.epoch, KeptGrows
  PROVE  RequestIsDated(r)'
<1>1. req[r].stamp[2] \in Nat /\ live.epoch \in Nat /\ live'.epoch \in Nat
  <2>1. (live.epoch \in Nat)' BY FilesAre, PTL
  <2> QED BY <2>1, RequestIs, FilesAre
<1>2. CASE Begins(r)
  <2>1. live'.epoch >= req'[r].stamp[2] BY <1>1, <1>2 DEF Begins
  <2> QED BY <1>2, <2>1 DEF Begins, RequestIsDated
<1> SUFFICES ASSUME Lasts(r) PROVE RequestIsDated(r)' BY <1>2 DEF Stays
<1>3. ASSUME req'[r].kind = "on", req'[r].at \in {"asked", "queued", "running", "refused"}
      PROVE  /\ (live.epoch >= req[r].stamp[2] \/ Kept(req[r].stamp[2]))'
             /\ (req[r].fresh \/ live.epoch > req[r].stamp[2] \/ Kept(req[r].stamp[2]))'
  <2>1. /\ req[r].at \in {"asked", "queued", "running", "refused"}
        /\ req'[r].fresh = req[r].fresh \/ live'.epoch > live.epoch
        /\ req'[r].stamp = req[r].stamp /\ req[r].kind = "on"
    BY <1>3 DEF Lasts, Keeps, Active
  <2>2. PICK n \in Nat : n = req[r].stamp[2] BY <1>1
  <2>3. Kept(n) => Kept(n)' BY DEF KeptGrows
  <2>4. /\ live.epoch >= n \/ Kept(n)
        /\ req[r].fresh \/ live.epoch > n \/ Kept(n)
    BY <2>1, <2>2 DEF RequestIsDated
  <2>5. /\ live'.epoch >= n \/ Kept(n)'
        /\ req'[r].fresh \/ live'.epoch > n \/ Kept(n)'
    BY <1>1, <2>1, <2>3, <2>4
  <2>6. n = req'[r].stamp[2] BY <2>1, <2>2
  <2> QED BY <2>1, <2>4, <2>5, <2>6 DEF Kept
<1>4. req'[r].at # "new" => /\ req'[r].user \in Users
                            /\ req'[r].kind = "on" => req'[r].allowed = req'[r].stamp
  BY DEF RequestIsDated, Lasts, Keeps
<1> QED BY <1>3, <1>4 DEF RequestIsDated, Kept

\* Steps that leave the documents, the files and the history alone.
LEMMA WorldRests ==
  ASSUME Types, Types', World, Keeps, \A r \in Requests : Stays(r),
         UNCHANGED <<live, denials, files, withdrawn, secured>>, MemoryIsFenced'
  PROVE  World'
<1>1. UNCHANGED <<disk, marker>> BY DEF files
<1>2. KeptGrows BY <1>1 DEF KeptGrows, Kept
<1>3. \A r \in Requests : RequestIsDated(r)'
  <2>1. live'.epoch >= live.epoch BY FilesAre
  <2> QED BY <1>2, <2>1, RequestStays DEF World
<1>4. WithdrawalsAreKept' BY <1>1 DEF World, WithdrawalsAreKept, Off, Marked, Covers, NoDenial, NoMark
<1>6. Dated(live)' /\ Dated(disk)' /\ JournalDated(marker)'
  <2>1. PICK l, d, m : l = live /\ d = disk /\ m = marker OBVIOUS
  <2>2. Dated(l)' /\ Dated(d)' /\ JournalDated(m)' BY <2>1, DatedStays DEF World
  <2>3. l = live' /\ d = disk' /\ m = marker' BY <1>1, <2>1
  <2> QED BY <2>2, <2>3 DEF Dated, JournalDated
<1> QED BY <1>3, <1>4, <1>6 DEF World

\* Steps that at most block the use.
LEMMA WorldStays ==
  ASSUME Types, Types', World, Keeps, \A r \in Requests : Stays(r),
         UNCHANGED <<live, base, denials, files, boot, withdrawn, secured>>, blocked => blocked'
  PROVE  World'
<1>1. MemoryIsFenced' BY DEF World, MemoryIsFenced, Below, NoDenial, NoMark
<1> QED BY <1>1, WorldRests

-----------------------------------------------------------------------------
(* The beginning, and the steps that only answer                           *)

\* The values everything starts from.
LEMMA StartIs ==
  /\ Idle \in Transaction /\ NoSnapshot \in [held : BOOLEAN, doc : Documents, base : Documents]
  /\ NoPublication \in [known : BOOLEAN, doc : Documents, base : Documents, id : Documents]
  /\ NotAsked \in Requested
  /\ Dated(Document({})) /\ JournalDated(EmptyMarker) /\ MarkDated(NoMark)
<1>1. Document({}) \in Documents /\ \A u \in Users, r \in Requests : Document({}).subj[u].out[r] = "none"
  BY FirstIs
<1>2. EmptyMarker \in Journals /\ NoMark \in Marks BY EmptyIs, MarkIsNot
<1>3. Idle \in Transaction BY <1>1, <1>2 DEF Idle, Transaction
<1>4. NoSnapshot \in [held : BOOLEAN, doc : Documents, base : Documents] BY <1>1 DEF NoSnapshot
<1>5. NoPublication \in [known : BOOLEAN, doc : Documents, base : Documents, id : Documents]
  BY <1>1 DEF NoPublication
<1>6. NotAsked \in Requested BY DEF NotAsked, Requested, Stamps
<1>7. Dated(Document({})) BY <1>1 DEF Dated
<1>8. MarkDated(NoMark) BY DEF MarkDated, NoMark
<1>9. \A u \in Users : EmptyMarker.off[u] = NoMark /\ EmptyMarker.on[u] = NoMark BY DEF EmptyMarker
<1>10. JournalDated(EmptyMarker) BY <1>8, <1>9 DEF JournalDated
<1> QED BY <1>3, <1>4, <1>5, <1>6, <1>7, <1>8, <1>10

\* No transaction is under way.
LEMMA NothingIsUnderWay ==
  tx = Idle => /\ TransactionIsSound /\ ActivationIsSound
               /\ Dated(tx.cand) /\ JournalDated(tx.journal) /\ MarkDated(tx.mark)
<1> SUFFICES ASSUME tx = Idle
             PROVE  /\ TransactionIsSound /\ ActivationIsSound
                    /\ Dated(tx.cand) /\ JournalDated(tx.journal) /\ MarkDated(tx.mark)
  OBVIOUS
<1>1. /\ tx.at = "idle" /\ tx.replay = FALSE /\ tx.cand = Document({}) /\ tx.journal = EmptyMarker
      /\ tx.mark = NoMark
  BY DEF Idle
<1>2. Dated(tx.cand) /\ JournalDated(tx.journal) /\ MarkDated(tx.mark) BY <1>1, StartIs
<1>3. TransactionIsSound BY <1>1, EmptyIs DEF TransactionIsSound, Publishing, Written
<1>4. ActivationIsSound BY <1>1 DEF ActivationIsSound
<1> QED BY <1>2, <1>3, <1>4

\* The invariant holds at the start.
LEMMA InitIsSound == Init => IInv
<1> SUFFICES ASSUME Init PROVE IInv OBVIOUS
<1>1. PICK S \in SUBSET Users : live = Document(S) BY DEF Init
<1>2. /\ live \in Documents /\ live.epoch = 1
      /\ \A u \in Users, r \in Requests : live.subj[u].out[r] = "none"
  BY <1>1, FirstIs
<1>3. Types
  <2>1. denials \in [Users -> Marks] BY MarkIsNot DEF Init, NoDenial
  <2>2. req \in [Requests -> Requested] BY StartIs DEF Init
  <2>3. marker \in Journals BY EmptyIs DEF Init
  <2> QED BY <1>2, <2>1, <2>2, <2>3, StartIs DEF Init, Types
<1>4. WithdrawalsAreKept
  <2>1. Covers(0, marker) BY EmptyIs DEF Init
  <2> QED BY <2>1 DEF Init, WithdrawalsAreKept
<1>5. MemoryIsFenced BY <1>2 DEF Init, MemoryIsFenced, Below
<1>6. RecoveryIsFirst BY DEF Init, RecoveryIsFirst
<1>7. snap.held = FALSE /\ snap.doc = Document({}) BY DEF Init, NoSnapshot
<1>8. SnapshotIsBehind BY <1>7 DEF SnapshotIsBehind
<1>9. TransactionIsSound /\ ActivationIsSound /\ Dated(tx.cand) /\ JournalDated(tx.journal) /\ MarkDated(tx.mark)
  BY NothingIsUnderWay DEF Init
<1>10. EverythingIsDated
  <2>1. Dated(live) BY <1>2 DEF Dated
  <2>2. Dated(disk) BY <2>1 DEF Init
  <2> QED BY <2>1, <2>2, <1>7, <1>9, StartIs DEF EverythingIsDated, Init
<1>11. \A r \in Requests : RequestIsDated(r) BY DEF Init, NotAsked, RequestIsDated
<1> QED BY <1>3, <1>4, <1>5, <1>6, <1>8, <1>9, <1>10, <1>11 DEF IInv

\* A request moves on and nothing else of it changes.
LEMMA SettledIs ==
  ASSUME Types, NEW r \in Requests, Settled(r, "ok") \/ Settled(r, "queued") \/ Settled(r, "running")
                                    \/ Settled(r, "refused")
  PROVE  /\ req' \in [Requests -> Requested]
         /\ \A q \in Requests \ {r} : req'[q] = req[q]
         /\ req'[r].at \in {"ok", "queued", "running", "refused"}
         /\ Settled(r, "running") => req'[r].at = "running"
         /\ req'[r].user = req[r].user /\ req'[r].kind = req[r].kind /\ req'[r].stamp = req[r].stamp
         /\ req'[r].allowed = req[r].allowed /\ req'[r].fresh = req[r].fresh
<1>1. req \in [Requests -> Requested] BY DEF Types
<1>2. PICK at \in {"ok", "queued", "running", "refused"} :
        req' = [req EXCEPT ![r].at = at] /\ (Settled(r, "running") => at = "running")
  <2>1. CASE Settled(r, "running") BY <2>1 DEF Settled
  <2>2. CASE ~Settled(r, "running") BY <2>2 DEF Settled
  <2> QED BY <2>1, <2>2
<1>3. PICK s : s = [req[r] EXCEPT !.at = at] OBVIOUS
<1>4. req[r] \in Requested BY <1>1
<1>5. /\ s \in Requested /\ s.at = at /\ s.user = req[r].user /\ s.kind = req[r].kind
      /\ s.stamp = req[r].stamp /\ s.allowed = req[r].allowed /\ s.fresh = req[r].fresh
  BY <1>3, <1>4 DEF Requested
<1>6. req' = [req EXCEPT ![r] = s] BY <1>2, <1>3
<1> QED BY <1>1, <1>2, <1>5, <1>6

\* Requests move, the rest stands still, except that the use may be blocked.
LEMMA OnlyRequests ==
  ASSUME IInv, Types', Keeps, \A r \in Requests : Stays(r),
         UNCHANGED <<live, base, denials, publication, files, boot, tx, snap, withdrawn, secured>>,
         blocked => blocked', tx.at # "idle" => req'[tx.by] = req[tx.by]
  PROVE  IInv'
<1>1. UNCHANGED <<disk, marker>> BY DEF files
<1>2. World' BY WorldStays DEF IInv, World, EverythingIsDated
<1>3. RecoveryIsFirst'
  <2>1. \A u \in Users : Marked(marker, u) <=> Marked(marker, u)' BY <1>1 DEF Marked, NoMark
  <2>2. Covers(disk.epoch, marker) <=> Covers(disk.epoch, marker)' BY <1>1 DEF Covers
  <2>3. Idle' = Idle BY DEF Idle, Document, Subject, EmptyMarker, NoMark
  <2> QED BY <1>1, <2>1, <2>2, <2>3 DEF IInv, RecoveryIsFirst
<1>4. SnapshotIsBehind'
  <2>1. Idle' = Idle BY DEF Idle, Document, Subject, EmptyMarker, NoMark
  <2> QED BY <2>1 DEF IInv, SnapshotIsBehind, Below
<1>5. Dated(snap.doc)' /\ Dated(tx.cand)' /\ JournalDated(tx.journal)' /\ MarkDated(tx.mark)'
  <2>1. PICK s, c, j, w : s = snap.doc /\ c = tx.cand /\ j = tx.journal /\ w = tx.mark OBVIOUS
  <2>2. Dated(s)' /\ Dated(c)' /\ JournalDated(j)' /\ MarkDated(w)'
    BY <2>1, DatedStays DEF IInv, EverythingIsDated
  <2>3. s = snap'.doc /\ c = tx'.cand /\ j = tx'.journal /\ w = tx'.mark BY <2>1
  <2> QED BY <2>2, <2>3 DEF Dated, JournalDated, MarkDated
<1>6. TransactionIsSound'
  BY <1>1 DEF IInv, TransactionIsSound, Covers, Continues, Activates, Activation, Kind, Member, Marked,
              Publishing, Written, NoMark
<1>7. ActivationIsSound'
  BY <1>1 DEF IInv, ActivationIsSound, TransactionIsSound, Activation, Kind, Member, NoMark, NoDenial
<1> QED BY <1>2, <1>3, <1>4, <1>5, <1>6, <1>7 DEF World, IInv, EverythingIsDated

\* Asking, answering from the record, queueing, refusing and trying again, and replies.
LEMMA AnswersKeep ==
  ASSUME IInv,
         \/ \E r \in Requests : \/ \E u \in Users, k \in Kinds : Ask(r, u, k)
                                \/ AdmitKnown(r) \/ AdmitOther(r) \/ Retry(r) \/ RefuseFresh(r)
         \/ \E t \in Turns : Deliver(t) \/ \E u \in Users : Capture(t, u)
  PROVE  IInv'
<1>1. Types /\ req \in [Requests -> Requested] BY DEF IInv, Types
<1>2. tx.at # "idle" => tx.by \in Requests /\ req[tx.by].at = "running"
  BY DEF IInv, TransactionIsSound
<1>3. ASSUME NEW r \in Requests, NEW u \in Users, NEW k \in Kinds, Ask(r, u, k) PROVE IInv'
  <2> DEFINE asked == [at |-> "asked", user |-> u, kind |-> k, stamp |-> Stamp(live, u),
                       allowed |-> Stamp(live, u), fresh |-> TRUE]
  <2>1. Stamp(live, u) \in Stamps /\ Stamp(live, u)[2] = live.epoch
    <3>1. live \in Documents BY <1>1 DEF Types
    <3>2. live.subj[u] \in Subjects /\ live.epoch \in Nat BY <3>1, DocumentIs
    <3>3. live.subj[u].rev \in Nat BY <3>2, SubjectIs
    <3> QED BY <3>2, <3>3 DEF Stamp, Stamps
  <2>2. asked \in Requested BY <2>1 DEF Requested
  <2>3. req' = [req EXCEPT ![r] = asked] /\ req[r].at = "new" BY <1>3 DEF Ask
  <2>4. /\ asked.at = "asked" /\ asked.user = u /\ asked.fresh /\ asked.allowed = asked.stamp
        /\ asked.stamp[2] = live.epoch
    BY <2>1
  <2> HIDE DEF asked
  <2>5. req' \in [Requests -> Requested] /\ req'[r] = asked /\ \A q \in Requests \ {r} : req'[q] = req[q]
    BY <1>1, <2>2, <2>3
  <2>6. /\ Keeps /\ UNCHANGED <<live, base, denials, publication, files, boot, tx, snap, withdrawn, secured, blocked>>
    BY <2>3, <2>5, <1>3 DEF Ask, Keeps, memory, history
  <2>7. \A q \in Requests : Stays(q)
    BY <2>3, <2>4, <2>5, <2>6 DEF Stays, Begins, Lasts
  <2>8. Types' BY <1>1, <2>5, <2>6 DEF Types, files
  <2> QED BY <1>2, <2>3, <2>5, <2>6, <2>7, <2>8, OnlyRequests
<1>4. ASSUME NEW r \in Requests, AdmitKnown(r) \/ AdmitOther(r) \/ RefuseFresh(r) PROVE IInv'
  <2>1. Settled(r, "ok") \/ Settled(r, "queued") \/ Settled(r, "running") \/ Settled(r, "refused")
    BY <1>4 DEF AdmitKnown, AdmitOther, RefuseFresh, Refused
  <2>2. /\ req' \in [Requests -> Requested] /\ \A q \in Requests \ {r} : req'[q] = req[q]
        /\ req'[r].at \in {"ok", "queued", "running", "refused"}
        /\ req'[r].user = req[r].user /\ req'[r].kind = req[r].kind /\ req'[r].stamp = req[r].stamp
        /\ req'[r].allowed = req[r].allowed /\ req'[r].fresh = req[r].fresh
    BY <1>1, <2>1, SettledIs
  <2>3. req[r].at \in {"asked", "queued"} /\ (tx.at = "idle" \/ req[r].at = "asked")
    BY <1>4 DEF AdmitKnown, AdmitOther, RefuseFresh, Free
  <2>4. UNCHANGED <<live, base, denials, publication, files, boot, tx, snap, withdrawn, secured, blocked>>
    BY <1>4 DEF AdmitKnown, AdmitOther, RefuseFresh, Refused, memory, history
  <2>5. Keeps BY <2>2 DEF Keeps
  <2>6. \A q \in Requests : Stays(q) BY <2>2, <2>3 DEF Stays, Lasts, Active
  <2>7. Types' BY <1>1, <2>2, <2>4 DEF Types, files
  <2> QED BY <1>2, <2>2, <2>3, <2>4, <2>5, <2>6, <2>7, OnlyRequests
<1>5. ASSUME NEW r \in Requests, Retry(r) PROVE IInv'
  <2>1. PICK again : again = [req[r] EXCEPT !.at = "asked", !.allowed = req[r].stamp] OBVIOUS
  <2>2. req' = [req EXCEPT ![r] = again] /\ req[r].at = "refused" BY <1>1, <1>5, <2>1 DEF Retry
  <2>3. req[r] \in Requested /\ RequestIsDated(r) BY <1>1 DEF IInv
  <2>4. /\ again \in Requested /\ again.at = "asked" /\ again.user = req[r].user
        /\ again.kind = req[r].kind /\ again.stamp = req[r].stamp /\ again.allowed = req[r].stamp
        /\ again.fresh = req[r].fresh
    BY <2>1, <2>3 DEF Requested
  <2>5. req' \in [Requests -> Requested] /\ req'[r] = again /\ \A q \in Requests \ {r} : req'[q] = req[q]
    BY <1>1, <2>2, <2>4
  <2>6. UNCHANGED <<live, base, denials, publication, files, boot, tx, snap, withdrawn, secured, blocked>>
    BY <1>5 DEF Retry, memory, history
  <2>7. Keeps BY <2>2, <2>4, <2>5 DEF Keeps
  <2>8. \A q \in Requests : Stays(q)
    <3>1. Stays(r) BY <2>2, <2>3, <2>4, <2>5 DEF Stays, Lasts, Active, RequestIsDated
    <3> QED BY <2>5, <3>1 DEF Stays, Lasts
  <2>9. Types' BY <1>1, <2>5, <2>6 DEF Types, files
  <2> QED BY <1>2, <2>2, <2>5, <2>6, <2>7, <2>8, <2>9, OnlyRequests
<1>6. ASSUME NEW t \in Turns, Deliver(t) \/ \E u \in Users : Capture(t, u) PROVE IInv'
  <2>1. UNCHANGED <<live, base, denials, publication, files, boot, tx, snap, withdrawn, secured, blocked, req>>
    BY <1>6 DEF Deliver, Capture, memory, history
  <2>2. Keeps /\ \A q \in Requests : Stays(q) BY <2>1 DEF Keeps, Stays, Lasts
  <2>3. Types' BY <1>1, <2>1 DEF Types, files
  <2> QED BY <2>1, <2>2, <2>3, OnlyRequests
<1> QED BY <1>3, <1>4, <1>5, <1>6

\* A newer change takes from an older one only that it still stands.
LEMMA OvertakenIs ==
  ASSUME Types, NEW q \in Requests, NEW u
  PROVE  LET o == Overtaken(q, u)
         IN  /\ o \in Requested /\ o.at = req[q].at /\ o.user = req[q].user /\ o.kind = req[q].kind
             /\ o.stamp = req[q].stamp /\ o.allowed = req[q].allowed
             /\ Member(q) # u => o = req[q]
<1>1. req[q] \in Requested BY DEF Types
<1> QED BY <1>1 DEF Overtaken, Requested

\* A withdrawal is admitted: the fence is in memory, and a transaction under way
\* that was to allow the use no longer stands.
LEMMA WithdrawalKeeps ==
  ASSUME IInv, NEW r \in Requests, AdmitWithdrawal(r)
  PROVE  IInv'
<1>1. Types /\ req \in [Requests -> Requested] BY DEF IInv, Types
<1>2. /\ boot = "up" /\ req[r].at = "asked" /\ req[r].kind = "off"
      /\ UNCHANGED <<base, publication, disk, marker, boot, tx, snap>>
  BY DEF AdmitWithdrawal, FencesNow, Kind, files
<1>3. PICK u : u = Member(r) OBVIOUS
<1>4. u \in Users BY <1>2, <1>3 DEF IInv, RequestIsDated, Member
<1>5. PICK fenced : fenced = Fence(live, u) OBVIOUS
<1>6. PICK denial : denial = [rev |-> fenced.subj[u].rev, epoch |-> fenced.epoch, by |-> r] OBVIOUS
<1>7. /\ live' = fenced /\ blocked' = TRUE /\ denials' = [denials EXCEPT ![u] = denial]
      /\ withdrawn' = withdrawn \cup {u}
      /\ secured' = IF marker.off[u] = NoMark THEN secured \ {u} ELSE secured
      /\ req' = [q \in Requests |->
                   IF q = r THEN [req[q] EXCEPT !.at = "queued", !.allowed = Stamp(fenced, u)]
                   ELSE Overtaken(q, u)]
  BY <1>3, <1>5, <1>6 DEF AdmitWithdrawal
<1>8. live \in Documents /\ live.epoch \in Nat BY <1>1, FilesAre DEF Types
<1>9. /\ fenced \in Documents /\ fenced.epoch = live.epoch + 1 /\ ~fenced.subj[u].on
      /\ Below(fenced, live) /\ Forgets(fenced, live) /\ fenced.subj[u].rev \in Nat
      /\ fenced.epoch \in Nat /\ fenced.epoch > live.epoch
  BY <1>4, <1>5, <1>8, FenceIs
<1>24. live'.epoch \in Nat /\ live'.epoch = live.epoch + 1
  <2>1. live'.epoch = fenced.epoch BY <1>7
  <2> QED BY <1>9, <2>1
<1>10. denial \in Marks /\ denial # NoDenial
  <2>1. denial \in Marks /\ denial.by \in Requests BY <1>6, <1>9 DEF Marks
  <2> QED BY <2>1, MarkIsNot DEF NoDenial
<1>11. /\ denials' \in [Users -> Marks] /\ denials'[u] = denial
       /\ \A v \in Users \ {u} : denials'[v] = denials[v]
  BY <1>1, <1>4, <1>7, <1>10 DEF Types
<1>12. /\ req' \in [Requests -> Requested]
       /\ \A q \in Requests : /\ req'[q].user = req[q].user /\ req'[q].kind = req[q].kind
                              /\ req'[q].stamp = req[q].stamp
       /\ \A q \in Requests \ {r} :
            /\ req'[q].at = req[q].at /\ req'[q].allowed = req[q].allowed
            /\ Member(q) # u => req'[q] = req[q]
       /\ req'[r].at = "queued"
  <2>1. PICK s : s = [req[r] EXCEPT !.at = "queued", !.allowed = Stamp(fenced, u)] OBVIOUS
  <2>2. Stamp(fenced, u) \in Stamps BY <1>9 DEF Stamp, Stamps
  <2>3. /\ s \in Requested /\ s.at = "queued" /\ s.user = req[r].user /\ s.kind = req[r].kind
        /\ s.stamp = req[r].stamp
    <3>1. req[r] \in Requested BY <1>1
    <3> QED BY <2>1, <2>2, <3>1 DEF Requested
  <2>4. \A q \in Requests : req'[q] = IF q = r THEN s ELSE Overtaken(q, u)
    BY <1>7, <2>1
  <2>5. \A q \in Requests :
          LET o == Overtaken(q, u)
          IN  /\ o \in Requested /\ o.at = req[q].at /\ o.user = req[q].user /\ o.kind = req[q].kind
              /\ o.stamp = req[q].stamp /\ o.allowed = req[q].allowed
              /\ Member(q) # u => o = req[q]
    BY <1>1, OvertakenIs
  <2>6. req' = [q \in Requests |-> req'[q]] BY <1>7
  <2> QED BY <2>3, <2>4, <2>5, <2>6
<1>13. Types'
  <2>1. withdrawn' \in SUBSET Users /\ secured' \in SUBSET Users BY <1>1, <1>4, <1>7 DEF Types
  <2> QED BY <1>1, <1>2, <1>7, <1>9, <1>11, <1>12, <2>1 DEF Types
<1>14. Keeps BY <1>2, <1>12 DEF Keeps
<1>15. \A q \in Requests : RequestIsDated(q)'
  <2>1. \A q \in Requests : Stays(q) BY <1>2, <1>7, <1>9, <1>12 DEF Stays, Lasts, Active
  <2>2. KeptGrows BY <1>2 DEF KeptGrows, Kept
  <2>3. live'.epoch >= live.epoch BY <1>8, <1>24
  <2> QED BY <1>1, <1>13, <1>14, <2>1, <2>2, <2>3, RequestStays DEF IInv
<1>16. WithdrawalsAreKept'
  <2>1. \A v \in Users : Off(v) => Off(v)' BY <1>2 DEF Off, Marked, NoMark
  <2>2. \A v \in withdrawn' : denials'[v] # NoDenial \/ Off(v)'
    BY <1>7, <1>10, <1>11, <1>13, <2>1 DEF IInv, WithdrawalsAreKept, Types
  <2>3. \A v \in withdrawn' \cap secured' : Off(v)'
    BY <1>1, <1>4, <1>7, <2>1 DEF IInv, WithdrawalsAreKept, Off, Marked, Types
  <2>4. (\E n \in Nat : Covers(n, marker))' BY <1>2 DEF IInv, WithdrawalsAreKept, Covers
  <2> QED BY <2>2, <2>3, <2>4 DEF WithdrawalsAreKept, NoDenial, NoMark
<1>17. MemoryIsFenced'
  <2>1. Below(live', base') BY <1>2, <1>7, <1>9 DEF IInv, MemoryIsFenced, Below
  <2>2. live'.epoch >= base'.epoch
    <3>1. base.epoch \in Nat BY <1>1, FilesAre
    <3>2. base'.epoch = base.epoch /\ live.epoch >= base.epoch BY <1>2 DEF IInv, MemoryIsFenced
    <3> QED BY <1>8, <1>24, <3>1, <3>2
  <2> QED BY <1>2, <1>7, <2>1, <2>2 DEF MemoryIsFenced, Below
<1>18. RecoveryIsFirst' BY <1>2 DEF RecoveryIsFirst
<1>19. SnapshotIsBehind'
  <2>1. Idle' = Idle BY DEF Idle, Document, Subject, EmptyMarker, NoMark
  <2>2. snap.doc.epoch \in Nat
    <3>1. snap.doc \in Documents BY <1>1 DEF Types
    <3> QED BY <3>1, DocumentIs
  <2>3. snap.held => live'.epoch >= snap.doc.epoch BY <1>8, <1>24, <2>2 DEF IInv, SnapshotIsBehind
  <2> QED BY <1>2, <1>7, <1>9, <2>1, <2>3 DEF IInv, SnapshotIsBehind, Below
<1>20. EverythingIsDated'
  <2>1. Dated(fenced)
    <3>1. fenced.epoch >= live.epoch BY <1>8, <1>9
    <3> QED BY <1>1, <1>8, <1>9, <3>1, DatedGrows DEF IInv, EverythingIsDated
  <2>2. PICK d, s, c, m, j, w : /\ d = disk /\ s = snap.doc /\ c = tx.cand
                                /\ m = marker /\ j = tx.journal /\ w = tx.mark
    OBVIOUS
  <2>3. /\ Dated(fenced)' /\ Dated(d)' /\ Dated(s)' /\ Dated(c)'
        /\ JournalDated(m)' /\ JournalDated(j)' /\ MarkDated(w)'
    BY <1>14, <2>1, <2>2, DatedStays DEF IInv, EverythingIsDated
  <2>4. /\ d = disk' /\ s = snap'.doc /\ c = tx'.cand /\ m = marker' /\ j = tx'.journal /\ w = tx'.mark
    BY <1>2, <2>2
  <2>6. Dated(live)' /\ Dated(disk)' BY ONLY <1>7, <2>3, <2>4 DEF Dated
  <2>7. Dated(snap.doc)' /\ Dated(tx.cand)' BY ONLY <1>7, <2>3, <2>4 DEF Dated
  <2>8. JournalDated(marker)' /\ JournalDated(tx.journal)' /\ MarkDated(tx.mark)'
    BY ONLY <1>7, <2>3, <2>4 DEF JournalDated, MarkDated
  <2> QED BY ONLY <2>6, <2>7, <2>8 DEF EverythingIsDated
<1>21. tx.at # "idle" =>
         /\ tx.by \in Requests \ {r} /\ req'[tx.by].at = "running"
         /\ req'[tx.by].kind = req[tx.by].kind /\ req'[tx.by].user = req[tx.by].user
  BY <1>2, <1>12 DEF IInv, TransactionIsSound
<1>22. TransactionIsSound'
  BY <1>2, <1>7, <1>21 DEF IInv, TransactionIsSound, Covers, Continues, Activates, Activation, Kind,
       Member, Marked, Publishing, Written, NoMark
<1>23. ActivationIsSound'
  <2> SUFFICES ASSUME tx.at \in {"mark", "write", "project", "settle", "check", "retire"},
                      ~tx.replay, req'[tx.by].kind = "on"
               PROVE  /\ \A v \in Users : /\ marker.off[v] = NoMark /\ tx.journal.off[v] = NoMark
                                          /\ v # req'[tx.by].user => tx.journal.on[v] = NoMark
                      /\ tx.journal.on[req'[tx.by].user].by = tx.by
                      /\ \/ req'[tx.by].fresh
                         \/ /\ denials'[req'[tx.by].user] # NoDenial
                            /\ req'[tx.by].user \notin secured'
    BY <1>2 DEF ActivationIsSound, Activation, Kind, Member, NoMark, NoDenial
  <2>1. tx.at # "idle" /\ Activation BY <1>21 DEF Activation, Kind
  <2>2. PICK m : m = req[tx.by].user OBVIOUS
  <2>3. /\ \A v \in Users : /\ marker.off[v] = NoMark /\ tx.journal.off[v] = NoMark
                            /\ v # m => tx.journal.on[v] = NoMark
        /\ tx.journal.on[m].by = tx.by
        /\ req[tx.by].fresh \/ (denials[m] # NoDenial /\ m \notin secured)
    BY <2>1, <2>2 DEF IInv, ActivationIsSound, Member
  <2>4. m \in Users BY <1>21, <2>1, <2>2 DEF IInv, TransactionIsSound, RequestIsDated
  <2>5. req'[tx.by].fresh \/ (denials'[m] # NoDenial /\ m \notin secured')
    <3>1. CASE m = u BY <1>7, <1>10, <1>11, <2>3, <2>4, <3>1
    <3>2. CASE m # u
      <4>1. req'[tx.by] = req[tx.by] BY <1>12, <1>21, <2>1, <2>2, <3>2 DEF Member
      <4> QED BY <1>7, <1>11, <2>3, <2>4, <3>2, <4>1
    <3> QED BY <3>1, <3>2
  <2> QED BY <1>21, <2>1, <2>2, <2>3, <2>5
<1> QED BY <1>13, <1>15, <1>16, <1>17, <1>18, <1>19, <1>20, <1>22, <1>23 DEF IInv

-----------------------------------------------------------------------------
(* A transaction starts                                                    *)

\* Memory carried over to the document on disk is dated like both.
LEMMA RebaseIsDated ==
  ASSUME Types, NEW l \in Documents, NEW before \in Documents, NEW d \in Documents, Dated(l), Dated(d)
  PROVE  Dated(Rebase(l, before, d))
<1>1. PICK e : e = Rebase(l, before, d) OBVIOUS
<1>2. /\ e \in Documents /\ e.epoch >= l.epoch /\ e.epoch >= d.epoch
      /\ \A u \in Users, r \in Requests :
           e.subj[u].out[r] # "none" => l.subj[u].out[r] # "none" \/ d.subj[u].out[r] # "none"
  BY <1>1, RebaseIs
<1>3. l.epoch \in Nat /\ d.epoch \in Nat /\ e.epoch \in Nat BY <1>2, DocumentIs
<1>4. \A r \in Requests : req[r].stamp[2] \in Nat BY RequestIs
<1>5. ASSUME NEW u \in Users, NEW r \in Requests, e.subj[u].out[r] # "none"
      PROVE  req[r].at # "new" /\ Past(r, e.epoch)
  <2>1. CASE l.subj[u].out[r] # "none" BY <1>2, <1>3, <1>4, <2>1 DEF Dated, Past
  <2>2. CASE d.subj[u].out[r] # "none" BY <1>2, <1>3, <1>4, <2>2 DEF Dated, Past
  <2> QED BY <1>2, <1>5, <2>1, <2>2
<1> QED BY <1>1, <1>5 DEF Dated

\* What a replay publishes allows nothing that the files do not.
LEMMA RepairedIs ==
  ASSUME IInv, NEW r \in Requests
  PROVE  LET e == Repaired(r)
         IN  /\ e \in Documents /\ e.epoch >= disk.epoch /\ Covers(e.epoch, marker) /\ Below(e, disk)
             /\ Dated(e) /\ \A u \in Users : Marked(marker, u) => ~e.subj[u].on
             /\ Sane(disk) => Sane(e) /\ ((publication.known /\ publication.doc # live) \/ Follows(e, disk))
<1>1. /\ Types /\ live \in Documents /\ disk \in Documents /\ publication.doc \in Documents
      /\ marker \in Journals /\ Dated(live) /\ Dated(disk)
  BY DEF IInv, Types, EverythingIsDated
<1>2. PICK d : d = IF publication.known THEN Rebase(live, publication.doc, disk) ELSE disk OBVIOUS
<1>3. /\ d \in Documents /\ d.epoch >= disk.epoch /\ Below(d, disk) /\ Dated(d)
      /\ Sane(disk) => Sane(d) /\ ((publication.known /\ publication.doc # live) \/ Follows(d, disk))
  <2>1. CASE publication.known BY <1>1, <1>2, <2>1, RebaseIs, RebaseIsDated
  <2>2. CASE ~publication.known
    <3>1. disk.epoch >= disk.epoch BY <1>1, FilesAre
    <3>2. Follows(disk, disk) BY <3>1 DEF Follows
    <3> QED BY <1>1, <1>2, <2>2, <3>1, <3>2 DEF Below
  <2> QED BY <2>1, <2>2
<1>4. PICK n \in Nat : Covers(n, marker) BY DEF IInv, WithdrawalsAreKept
<1>5. PICK e : e = FoldDenials(d, marker) OBVIOUS
<1>6. /\ e \in Documents /\ e.epoch >= d.epoch /\ Covers(e.epoch, marker) /\ Below(e, d)
      /\ Forgets(e, d) /\ (\A u \in Users : Marked(marker, u) => ~e.subj[u].on) /\ Follows(e, d)
  BY <1>1, <1>3, <1>4, <1>5, FoldIs
<1>7. Dated(e) BY <1>1, <1>3, <1>6, DatedGrows
<1>8. e.epoch >= disk.epoch
  <2>1. e.epoch \in Nat /\ d.epoch \in Nat /\ disk.epoch \in Nat BY <1>1, <1>3, <1>6, DocumentIs
  <2> QED BY <1>3, <1>6, <2>1
<1>9. Below(e, disk) BY <1>3, <1>6 DEF Below
<1>10. e = Repaired(r) BY <1>2, <1>5 DEF Repaired
<1>11. Sane(d) => Sane(e) BY <1>6, SaneFollows
<1>12. Follows(d, disk) => Follows(e, disk) BY <1>6, <1>8 DEF Follows
<1> QED BY <1>3, <1>6, <1>7, <1>8, <1>9, <1>10, <1>11, <1>12

\* The request of a transaction runs.
LEMMA RunningIs ==
  ASSUME Types, NEW r \in Requests, req[r].at = "queued", Settled(r, "running")
  PROVE  /\ req' \in [Requests -> Requested] /\ req'[r].at = "running"
         /\ req'[r].kind = req[r].kind /\ req'[r].user = req[r].user /\ req'[r].fresh = req[r].fresh
         /\ Keeps /\ \A q \in Requests : Stays(q)
<1>1. /\ req' \in [Requests -> Requested] /\ \A q \in Requests \ {r} : req'[q] = req[q]
      /\ req'[r].at = "running"
      /\ req'[r].user = req[r].user /\ req'[r].kind = req[r].kind /\ req'[r].stamp = req[r].stamp
      /\ req'[r].allowed = req[r].allowed /\ req'[r].fresh = req[r].fresh
  BY SettledIs
<1>2. Keeps BY <1>1 DEF Keeps
<1>3. \A q \in Requests : Stays(q) BY <1>1 DEF Stays, Lasts, Active
<1> QED BY <1>1, <1>2, <1>3

\* A transaction that is sound may start.
LEMMA Starting ==
  ASSUME IInv, Free, req' \in [Requests -> Requested], Keeps, \A q \in Requests : Stays(q),
         UNCHANGED <<live, base, denials, publication, files, boot, snap, withdrawn, secured>>,
         blocked' \in BOOLEAN, blocked => blocked', tx' \in Transaction, TransactionIsSound',
         ActivationIsSound', Dated(tx.cand)', JournalDated(tx.journal)', MarkDated(tx.mark)'
  PROVE  IInv'
<1>1. Types /\ ~snap.held /\ boot = "up" BY DEF IInv, Free
<1>3. Types' BY <1>1 DEF Types, files
<1>4. World' BY <1>1, <1>3, WorldStays DEF IInv, World, EverythingIsDated
<1>5. RecoveryIsFirst' BY <1>1 DEF RecoveryIsFirst
<1>6. SnapshotIsBehind' BY <1>1 DEF SnapshotIsBehind
<1>7. Dated(snap.doc)'
  <2>1. PICK s : s = snap.doc OBVIOUS
  <2>2. Dated(s)' BY <2>1, DatedStays DEF IInv, EverythingIsDated
  <2>3. s = snap'.doc BY <2>1
  <2> QED BY <2>2, <2>3 DEF Dated
<1> QED BY <1>3, <1>4, <1>5, <1>6, <1>7 DEF World, IInv, EverythingIsDated

\* A request that was published and not confirmed is taken up again.
LEMMA StartReplayKeeps ==
  ASSUME IInv, NEW r \in Requests, StartReplay(r)
  PROVE  IInv'
<1>1. /\ Types /\ Free /\ req[r].at = "queued" /\ blocked' = TRUE
      /\ UNCHANGED <<live, base, denials, publication, files, disk, marker, boot, snap, withdrawn, secured>>
  BY DEF IInv, StartReplay, files
<1>2. CASE Refused(r)
  <2>1. /\ req' \in [Requests -> Requested] /\ \A q \in Requests \ {r} : req'[q] = req[q]
        /\ req'[r].at \in {"ok", "queued", "running", "refused"}
        /\ req'[r].user = req[r].user /\ req'[r].kind = req[r].kind /\ req'[r].stamp = req[r].stamp
        /\ req'[r].allowed = req[r].allowed /\ req'[r].fresh = req[r].fresh
    BY <1>1, <1>2, SettledIs DEF Refused
  <2>2. Keeps BY <2>1 DEF Keeps
  <2>3. \A q \in Requests : Stays(q) BY <1>1, <2>1 DEF Stays, Lasts, Active
  <2>4. UNCHANGED tx /\ tx.at = "idle" BY <1>1, <1>2 DEF Refused, Free
  <2>5. Types' BY <1>1, <2>1, <2>4 DEF Types
  <2> QED BY <1>1, <2>1, <2>2, <2>3, <2>4, <2>5, OnlyRequests
<1>3. CASE ~Refused(r)
  <2>1. PICK repaired : repaired = Repaired(r) OBVIOUS
  <2>2. PICK recorded \in BOOLEAN : recorded = (repaired.subj[Member(r)].out[r] # "none") OBVIOUS
  <2>3. PICK cand : cand = IF recorded \/ AbortedOn(r) THEN repaired
                           ELSE [repaired EXCEPT !.subj[Member(r)].out[r] = "open"]
    OBVIOUS
  <2>4. /\ tx' = [Idle EXCEPT !.at = "write", !.by = r, !.live = live, !.base = base,
                              !.journal = marker, !.replay = TRUE, !.aborted = AbortedOn(r), !.cand = cand]
        /\ Settled(r, "running")
        /\ AbortedOn(r) \/ recorded \/ Kind(r) = "off"
    BY <1>3, <2>1, <2>2, <2>3 DEF StartReplay
  <2>5. /\ repaired \in Documents /\ repaired.epoch >= disk.epoch /\ Covers(repaired.epoch, marker)
        /\ Below(repaired, disk) /\ Dated(repaired)
        /\ \A u \in Users : Marked(marker, u) => ~repaired.subj[u].on
    BY <2>1, RepairedIs
  <2>6. req[r].user \in Users BY <1>1 DEF IInv, RequestIsDated
  <2>7. /\ req' \in [Requests -> Requested] /\ req'[r].at = "running"
        /\ req'[r].kind = req[r].kind /\ Keeps /\ \A q \in Requests : Stays(q)
    BY <1>1, <2>4, RunningIs
  <2>8. /\ cand \in Documents /\ cand.epoch = repaired.epoch
        /\ \A u \in Users : cand.subj[u].on = repaired.subj[u].on
        /\ \A u \in Users, q \in Requests :
             cand.subj[u].out[q] # "none" => repaired.subj[u].out[q] # "none" \/ (q = r /\ req[r].kind = "off")
    <3>1. CASE recorded \/ AbortedOn(r) BY <2>3, <2>5, <3>1
    <3>2. CASE ~(recorded \/ AbortedOn(r))
      <4>1. PICK u \in Users : u = Member(r) BY <2>6 DEF Member
      <4>2. PICK f, T, k : repaired = [facts |-> f, subj |-> T, epoch |-> k] BY <2>5, DocumentIs
      <4>3. f \in SUBSET Users /\ T \in [Users -> Subjects] /\ k \in Nat BY <2>5, <4>2, DocumentIs
      <4>4. PICK s : s = [T[u] EXCEPT !.out[r] = "open"] OBVIOUS
      <4>5. T[u] \in Subjects BY <4>3
      <4>6. PICK out : out = [T[u].out EXCEPT ![r] = "open"] OBVIOUS
      <4>7. T[u].out \in [Requests -> Outcome] BY <4>5, SubjectIs
      <4>8. out \in [Requests -> Outcome] /\ \A q \in Requests \ {r} : out[q] = T[u].out[q]
        BY <4>6, <4>7 DEF Outcome
      <4>9. s \in Subjects /\ s.on = T[u].on /\ s.out = out
        <5>1. PICK t \in Subjects : t = T[u] BY <4>5
        <5>2. s = [t EXCEPT !.out = out] BY <4>4, <4>6, <5>1 DEF Subjects
        <5> QED BY <4>8, <5>1, <5>2 DEF Subjects
      <4>10. cand = [facts |-> f, subj |-> [T EXCEPT ![u] = s], epoch |-> k]
        BY <2>3, <3>2, <4>1, <4>2, <4>3, <4>4
      <4>11. PICK S \in [Users -> Subjects] : S = [T EXCEPT ![u] = s] BY <4>3, <4>9
      <4>12. cand \in Documents /\ cand.epoch = repaired.epoch /\ cand.subj = S /\ repaired.subj = T
        BY <4>2, <4>3, <4>10, <4>11 DEF Documents
      <4>13. \A v \in Users : S[v] = IF v = u THEN s ELSE T[v] BY <4>3, <4>11
      <4>14. req[r].kind = "off" BY <2>4, <3>2 DEF Kind
      <4> QED BY <4>8, <4>9, <4>12, <4>13, <4>14
    <3> QED BY <3>1, <3>2
  <2>9. Dated(cand)'
    <3>1. Dated(repaired)' BY <2>5, <2>7, DatedStays
    <3> QED BY <2>7, <2>8, <3>1 DEF Dated, Past
  <2>10. /\ tx'.at = "write" /\ tx'.by = r /\ tx'.cand = cand /\ tx'.journal = marker /\ tx'.replay = TRUE
         /\ tx'.mark = NoMark
    BY <2>4 DEF Idle
  <2>11. tx' \in Transaction
    <3>1. /\ live \in Documents /\ base \in Documents /\ marker \in Journals BY <1>1 DEF Types
    <3>2. AbortedOn(r) \in BOOLEAN BY DEF AbortedOn
    <3>3. PICK a : a = AbortedOn(r) OBVIOUS
    <3>4. tx' = [Idle EXCEPT !.at = "write", !.by = r, !.live = live, !.base = base,
                             !.journal = marker, !.replay = TRUE, !.aborted = a, !.cand = cand]
      BY <2>4, <3>3
    <3> QED BY <2>8, <3>1, <3>2, <3>3, <3>4, StartIs DEF Transaction, Publishing
  <2>12. JournalDated(tx.journal)' /\ MarkDated(tx.mark)'
    <3>1. PICK m : m = marker OBVIOUS
    <3>2. JournalDated(m)' BY <2>7, <3>1, DatedStays DEF IInv, EverythingIsDated
    <3>3. JournalDated(tx.journal)' BY <2>10, <3>1, <3>2 DEF JournalDated
    <3>4. MarkDated(tx.mark)' BY <2>10 DEF MarkDated, NoMark
    <3> QED BY <3>3, <3>4
  <2>13. TransactionIsSound'
    <3>1. boot' = "up" /\ ~snap'.held BY <1>1 DEF Free
    <3>2. \E n \in Nat : Covers(n, marker) BY DEF IInv, WithdrawalsAreKept
    <3>3. cand.epoch >= disk.epoch /\ Covers(cand.epoch, marker) BY <2>5, <2>8
    <3>4. \A u \in Users : /\ cand.subj[u].on => disk.subj[u].on
                           /\ Marked(marker, u) => ~cand.subj[u].on
      BY <2>5, <2>8 DEF Below
    <3> QED BY <1>1, <2>7, <2>10, <3>1, <3>2, <3>3, <3>4
        DEF TransactionIsSound, Publishing, Written, Covers, Marked, NoMark
  <2>14. ActivationIsSound' BY <2>10 DEF ActivationIsSound, Activation
  <2> QED BY <1>1, <2>7, <2>9, <2>10, <2>11, <2>12, <2>13, <2>14, Starting DEF Dated
<1> QED BY <1>2, <1>3

\* The entry a request makes in the journal.
LEMMA MarkIs ==
  ASSUME NEW r \in Requests, Member(r) \in Users, NEW d \in Documents
  PROVE  Mark(r, d) \in Marks /\ Mark(r, d).by = r /\ Mark(r, d).epoch = d.epoch /\ Mark(r, d) # NoMark
<1>1. d.subj[Member(r)] \in Subjects /\ d.epoch \in Nat BY DocumentIs
<1>2. d.subj[Member(r)].rev \in Nat BY <1>1, SubjectIs
<1>3. Mark(r, d) \in Marks /\ Mark(r, d).by = r /\ Mark(r, d).epoch = d.epoch BY <1>1, <1>2 DEF Mark, Marks
<1> QED BY <1>3, MarkIsNot

\* A dated entry added to a dated journal.
LEMMA AddIsDated ==
  ASSUME Types, NEW m \in Journals, NEW u \in Users, NEW w \in Marks, w.by \in Requests,
         JournalDated(m), MarkDated(w)
  PROVE  JournalDated(AddWithdrawal(m, u, w))
<1>1. PICK k : k = AddWithdrawal(m, u, w) OBVIOUS
<1>2. /\ k \in Journals /\ k.on = m.on /\ k.off[u].by = w.by /\ k.off[u].epoch >= w.epoch
      /\ \A v \in Users \ {u} : k.off[v] = m.off[v]
  BY <1>1, AddIs
<1>3. MarkDated(k.off[u])
  <2>1. k.off[u].epoch \in Nat /\ w.epoch \in Nat BY <1>2, JournalIs DEF Marks
  <2>2. req[w.by].stamp[2] \in Nat BY RequestIs
  <2> QED BY <1>2, <2>1, <2>2 DEF MarkDated, Past
<1> QED BY <1>1, <1>2, <1>3 DEF JournalDated

\* A withdrawal is put on record only.
LEMMA StartMarkKeeps ==
  ASSUME IInv, NEW r \in Requests, StartMark(r)
  PROVE  IInv'
<1>1. /\ Types /\ Free /\ req[r].at = "queued" /\ Kind(r) = "off" /\ Settled(r, "running")
      /\ UNCHANGED <<live, base, denials, publication, files, disk, marker, boot, snap, withdrawn, secured, blocked>>
  BY DEF IInv, StartMark, OnlyMarks, files, memory, history
<1>2. Member(r) \in Users BY <1>1 DEF IInv, RequestIsDated, Member
<1>3. live \in Documents /\ marker \in Journals BY <1>1 DEF Types
<1>4. PICK w : w = Mark(r, live) OBVIOUS
<1>5. w \in Marks /\ w.by = r /\ w.epoch = live.epoch BY <1>2, <1>3, <1>4, MarkIs
<1>6. PICK k : k = AddWithdrawal(marker, Member(r), w) OBVIOUS
<1>7. PICK n \in Nat : Covers(n, marker) BY DEF IInv, WithdrawalsAreKept
<1>8. /\ k \in Journals /\ Continues(k, marker)
      /\ \A l \in Nat : w.epoch <= l /\ n <= l => Covers(l, k)
  BY <1>2, <1>3, <1>5, <1>6, <1>7, AddIs
<1>9. \E l \in Nat : Covers(l, k)
  <2>1. live.epoch \in Nat BY <1>1, FilesAre
  <2>2. PICK l \in Nat : w.epoch <= l /\ n <= l BY <1>5, <2>1, LargerIs
  <2> QED BY <1>8, <2>2
<1>10. JournalDated(k)
  <2>1. MarkDated(w) BY <1>1, <1>5 DEF MarkDated, Past, Kind
  <2> QED BY <1>1, <1>2, <1>3, <1>5, <1>6, <2>1, AddIsDated DEF IInv, EverythingIsDated
<1>11. /\ req' \in [Requests -> Requested] /\ Keeps /\ \A q \in Requests : Stays(q)
       /\ req'[r].at = "running" /\ req'[r].kind = "off"
  BY <1>1, RunningIs DEF Kind
<1>12. /\ tx'.at = "mark only" /\ tx'.by = r /\ tx'.journal = k /\ tx'.replay = FALSE
       /\ tx'.cand = Document({}) /\ tx'.mark = NoMark /\ tx' \in Transaction
  <2>1. tx' = [Idle EXCEPT !.at = "mark only", !.by = r, !.journal = k]
    BY <1>4, <1>6 DEF StartMark
  <2> QED BY <1>8, <2>1, StartIs DEF Idle, Transaction
<1>13. JournalDated(tx.journal)' /\ Dated(tx.cand)' /\ MarkDated(tx.mark)'
  <2>1. PICK c : c = Document({}) OBVIOUS
  <2>2. JournalDated(k)' /\ Dated(c)' BY <1>10, <1>11, <2>1, StartIs, DatedStays
  <2>3. c = tx'.cand /\ k = tx'.journal BY <1>12, <2>1
  <2>6. tx'.mark.by = Nobody
    <3>1. tx'.mark = NoMark BY <1>12
    <3> QED BY <3>1 DEF NoMark
  <2>4. JournalDated(tx.journal)' /\ Dated(tx.cand)' BY <2>2, <2>3 DEF JournalDated, Dated
  <2>5. MarkDated(tx.mark)' BY <2>6 DEF MarkDated
  <2> QED BY <2>4, <2>5
<1>14. TransactionIsSound'
  <2>1. boot' = "up" /\ ~snap'.held BY <1>1 DEF Free
  <2> QED BY <1>1, <1>8, <1>9, <1>11, <1>12, <2>1
      DEF TransactionIsSound, Publishing, Written, Covers, Continues, NoMark
<1>15. ActivationIsSound' BY <1>12 DEF ActivationIsSound
<1>16. blocked' \in BOOLEAN BY <1>1 DEF Types
<1> QED BY <1>1, <1>11, <1>12, <1>13, <1>14, <1>15, <1>16, Starting

\* What a fresh change starts from: memory, or memory carried over to what was published.
LEMMA SourceIs ==
  ASSUME IInv, NEW r \in Requests, Permitted(r)
  PROVE  LET d == Source(r)
         IN  /\ d \in Documents /\ d.epoch >= live.epoch /\ d.epoch >= disk.epoch
             /\ Below(d, disk) /\ Dated(d) /\ (Sane(live) /\ Sane(disk) => Sane(d))
<1>1. /\ Types /\ live \in Documents /\ disk \in Documents /\ publication.doc \in Documents
      /\ Dated(live) /\ Dated(disk)
  BY DEF IInv, Types, EverythingIsDated
<1>2. live.epoch \in Nat /\ disk.epoch \in Nat BY <1>1, FilesAre
<1>3. CASE Current
  <2>1. Source(r) = live /\ base = disk BY <1>3 DEF Source, Current
  <2>2. Below(live, disk) /\ live.epoch >= disk.epoch BY <2>1 DEF IInv, MemoryIsFenced
  <2> QED BY <1>1, <1>2, <2>1, <2>2
<1>4. CASE ~Current
  <2>1. PICK e : e = Rebase(live, publication.doc, disk) OBVIOUS
  <2>2. /\ e \in Documents /\ e.epoch >= live.epoch /\ e.epoch >= disk.epoch /\ Below(e, disk)
        /\ Sane(disk) => Sane(e)
    BY <1>1, <2>1, RebaseIs
  <2>3. Dated(e) BY <1>1, <2>1, RebaseIsDated
  <2>4. Source(r) = e BY <1>4, <2>1 DEF Source
  <2> QED BY <2>2, <2>3, <2>4
<1> QED BY <1>3, <1>4

\* The change applied, before the journal is folded into it.
LEMMA AppliedIs ==
  ASSUME IInv, NEW r \in Requests, req[r].at = "queued", Permitted(r)
  PROVE  LET e == Apply(r, Source(r))
         IN  /\ e \in Documents /\ e.epoch > live.epoch /\ e.epoch >= disk.epoch /\ Dated(e)
             /\ \A u \in Users : e.subj[u].on => disk.subj[u].on \/ (Kind(r) = "on" /\ u = Member(r))
             /\ Past(r, e.epoch) /\ (Sane(live) /\ Sane(disk) => Sane(e))
<1>1. Types /\ disk \in Documents BY DEF IInv, Types
<1>2. Member(r) \in Users BY DEF IInv, RequestIsDated, Member
<1>3. PICK d : d = Source(r) OBVIOUS
<1>4. /\ d \in Documents /\ d.epoch >= live.epoch /\ d.epoch >= disk.epoch /\ Below(d, disk) /\ Dated(d)
      /\ Sane(live) /\ Sane(disk) => Sane(d)
  BY <1>3, SourceIs
<1>5. PICK e : e = Apply(r, d) OBVIOUS
<1>6. /\ e \in Documents /\ e.epoch = d.epoch + 1
      /\ \A u \in Users : e.subj[u].on => d.subj[u].on \/ (Kind(r) = "on" /\ u = Member(r))
      /\ \A u \in Users, q \in Requests : e.subj[u].out[q] # "none" => d.subj[u].out[q] # "none" \/ q = r
      /\ Sane(d) /\ CanApply(r, d) => Sane(e)
  BY <1>1, <1>2, <1>4, <1>5, ApplyIs
<1>7. live.epoch \in Nat /\ disk.epoch \in Nat /\ d.epoch \in Nat BY <1>1, <1>4, FilesAre, DocumentIs
<1>8. e.epoch > live.epoch /\ e.epoch >= disk.epoch /\ e.epoch >= d.epoch BY <1>4, <1>6, <1>7
<1>9. Past(r, e.epoch)
  <2> SUFFICES ASSUME req[r].kind = "on" PROVE e.epoch > req[r].stamp[2] BY DEF Past
  <2>1. req[r].allowed = req[r].stamp BY DEF IInv, RequestIsDated
  <2>2. Stamp(live, Member(r))[2] = live.epoch BY DEF Stamp
  <2>3. Stamp(live, Member(r)) = req[r].allowed BY DEF Permitted
  <2> QED BY <1>8, <2>1, <2>2, <2>3
<1>10. Dated(e)
  <2> SUFFICES ASSUME NEW u \in Users, NEW q \in Requests, e.subj[u].out[q] # "none"
               PROVE  req[q].at # "new" /\ Past(q, e.epoch)
    BY DEF Dated
  <2>1. CASE q = r BY <1>9, <2>1
  <2>2. CASE q # r
    <3>1. req[q].at # "new" /\ Past(q, d.epoch) BY <1>4, <1>6, <2>2 DEF Dated
    <3>2. req[q].stamp[2] \in Nat /\ e.epoch \in Nat BY <1>1, <1>6, RequestIs, DocumentIs
    <3> QED BY <1>7, <1>8, <3>1, <3>2 DEF Past
  <2> QED BY <2>1, <2>2
<1>11. \A u \in Users : e.subj[u].on => disk.subj[u].on \/ (Kind(r) = "on" /\ u = Member(r))
  BY <1>4, <1>6 DEF Below
<1>12. CanApply(r, d) BY <1>3 DEF Permitted
<1> QED BY <1>3, <1>4, <1>5, <1>6, <1>8, <1>9, <1>10, <1>11, <1>12

\* A fresh change of choice or of a fact starts.
LEMMA StartFreshKeeps ==
  ASSUME IInv, NEW r \in Requests, StartFresh(r)
  PROVE  IInv'
<1>1. /\ Types /\ Free /\ req[r].at = "queued" /\ Permitted(r)
      /\ UNCHANGED <<live, base, denials, publication, files, disk, marker, boot, snap, withdrawn, secured, blocked>>
  BY DEF IInv, StartFresh, files, memory
<1>2. marker \in Journals /\ disk \in Documents /\ live \in Documents /\ base \in Documents
  BY <1>1 DEF Types
<1>3. PICK u \in Users : u = Member(r) BY <1>1 DEF IInv, RequestIsDated, Member
<1>4. PICK e : e = Apply(r, Source(r)) OBVIOUS
<1>5. /\ e \in Documents /\ e.epoch > live.epoch /\ e.epoch >= disk.epoch /\ Dated(e)
      /\ \A v \in Users : e.subj[v].on => disk.subj[v].on \/ (Kind(r) = "on" /\ v = u)
      /\ Past(r, e.epoch)
  BY <1>1, <1>3, <1>4, AppliedIs
<1>6. /\ live.epoch \in Nat /\ base.epoch \in Nat /\ disk.epoch \in Nat /\ e.epoch \in Nat
      /\ \A v \in Users : marker.off[v].epoch \in Nat /\ marker.on[v].epoch \in Nat
  BY <1>1, <1>5, FilesAre, DocumentIs
<1>7. PICK w : w = Mark(r, e) OBVIOUS
<1>8. w \in Marks /\ w.by = r /\ w.epoch = e.epoch /\ w # NoMark BY <1>3, <1>5, <1>7, MarkIs
<1>9. MarkDated(w) BY <1>1, <1>5, <1>8 DEF MarkDated
<1>10. PICK journal :
         journal = CASE Kind(r) = "off" -> AddWithdrawal(marker, u, w)
                     [] Kind(r) = "on" -> [marker EXCEPT !.on[u] = w]
                     [] OTHER -> marker
  OBVIOUS
<1>11. PICK cand :
         cand = CASE Kind(r) = "off" -> FoldDenials(e, journal)
                  [] Kind(r) = "on" -> [e EXCEPT !.subj[u].pending = TRUE]
                  [] OTHER -> e
  OBVIOUS
<1>12. tx' = [Idle EXCEPT !.at = IF Kind(r) \in {"on", "off"} THEN "mark" ELSE "write", !.by = r,
                          !.cand = cand, !.live = live, !.base = base, !.journal = journal, !.mark = w]
  BY <1>3, <1>4, <1>7, <1>10, <1>11 DEF StartFresh, Prepared
<1>13. Kind(r) = "off" \/ (IsEmpty(marker) /\ NoDenials) BY <1>1 DEF Permitted
<1>14. /\ cand \in Documents /\ journal \in Journals /\ Continues(journal, marker)
       /\ Covers(cand.epoch, journal) /\ cand.epoch >= disk.epoch
       /\ \A v \in Users : cand.subj[v].on => disk.subj[v].on \/ (Kind(r) = "on" /\ v = u)
       /\ \A v \in Users : Marked(journal, v) => ~cand.subj[v].on \/ (Kind(r) = "on" /\ v = u)
       /\ Dated(cand) /\ JournalDated(journal)
       /\ Kind(r) \notin {"on", "off"} => journal = marker
  <2>1. CASE Kind(r) = "off"
    <3>1. journal = AddWithdrawal(marker, u, w) /\ cand = FoldDenials(e, journal) BY <1>10, <1>11, <2>1
    <3>2. PICK n \in Nat : Covers(n, marker) BY DEF IInv, WithdrawalsAreKept
    <3>3. /\ journal \in Journals /\ Continues(journal, marker)
          /\ \A l \in Nat : w.epoch <= l /\ n <= l => Covers(l, journal)
      BY <1>2, <1>8, <3>1, <3>2, AddIs
    <3>4. PICK l \in Nat : w.epoch <= l /\ n <= l BY <1>6, <1>8, LargerIs
    <3>5. Covers(l, journal) BY <3>3, <3>4
    <3>6. /\ cand \in Documents /\ cand.epoch >= e.epoch /\ Covers(cand.epoch, journal)
          /\ Below(cand, e) /\ Forgets(cand, e) /\ \A v \in Users : Marked(journal, v) => ~cand.subj[v].on
      BY <1>1, <1>5, <3>1, <3>3, <3>5, FoldIs
    <3>7. Dated(cand) BY <1>1, <1>5, <3>6, DatedGrows
    <3>8. JournalDated(journal) BY <1>1, <1>2, <1>8, <1>9, <3>1, AddIsDated DEF IInv, EverythingIsDated
    <3>9. cand.epoch >= disk.epoch
      <4>1. cand.epoch \in Nat BY <3>6, DocumentIs
      <4> QED BY <1>5, <1>6, <3>6, <4>1
    <3>10. \A v \in Users : cand.subj[v].on => disk.subj[v].on BY <1>5, <2>1, <3>6 DEF Below
    <3> QED BY <2>1, <3>3, <3>6, <3>7, <3>8, <3>9, <3>10
  <2>2. CASE Kind(r) = "on"
    <3>1. journal = [marker EXCEPT !.on[u] = w] /\ cand = [e EXCEPT !.subj[u].pending = TRUE]
      BY <1>10, <1>11, <2>2
    <3>2. IsEmpty(marker) BY <1>13, <2>2
    <3>3. \A v \in Users : marker.off[v] = NoMark /\ marker.on[v] = NoMark BY <3>2 DEF IsEmpty, Entries
    <3>4. /\ journal \in Journals /\ journal.off = marker.off /\ journal.on[u] = w
          /\ \A v \in Users \ {u} : journal.on[v] = marker.on[v]
      <4>1. marker.off \in [Users -> Marks] /\ marker.on \in [Users -> Marks]
            /\ marker = [off |-> marker.off, on |-> marker.on]
        BY <1>2 DEF Journals
      <4>2. PICK on : on = [marker.on EXCEPT ![u] = w] OBVIOUS
      <4>3. journal = [off |-> marker.off, on |-> on] BY <3>1, <4>1, <4>2
      <4>4. on \in [Users -> Marks] /\ on[u] = w /\ \A v \in Users \ {u} : on[v] = marker.on[v]
        BY <1>8, <4>1, <4>2
      <4> QED BY <4>1, <4>3, <4>4 DEF Journals
    <3>5. /\ cand \in Documents /\ cand.epoch = e.epoch
          /\ \A v \in Users : cand.subj[v].on = e.subj[v].on /\ cand.subj[v].out = e.subj[v].out
      <4>1. PICK f, T, k : e = [facts |-> f, subj |-> T, epoch |-> k] BY <1>5, DocumentIs
      <4>2. f \in SUBSET Users /\ T \in [Users -> Subjects] /\ k \in Nat BY <1>5, <4>1, DocumentIs
      <4>3. PICK t \in Subjects : t = T[u] BY <4>2
      <4>4. PICK s : s = [t EXCEPT !.pending = TRUE] OBVIOUS
      <4>5. s \in Subjects /\ s.on = t.on /\ s.out = t.out BY <4>4 DEF Subjects
      <4>6. PICK S : S = [T EXCEPT ![u] = s] OBVIOUS
      <4>7. S \in [Users -> Subjects] /\ \A v \in Users : S[v] = IF v = u THEN s ELSE T[v]
        BY <4>2, <4>5, <4>6
      <4>8. cand = [facts |-> f, subj |-> S, epoch |-> k] BY <3>1, <4>1, <4>2, <4>3, <4>4, <4>6
      <4> QED BY <4>1, <4>2, <4>3, <4>5, <4>7, <4>8 DEF Documents
    <3>6. Continues(journal, marker)
      <4>1. \A v \in Users : /\ journal.off[v] = marker.off[v] /\ journal.off[v].epoch >= marker.off[v].epoch
        BY <1>6, <3>4
      <4>2. NoMark.epoch = 0 BY DEF NoMark
      <4>3. \A v \in Users : journal.on[v].epoch >= marker.on[v].epoch BY <1>6, <1>8, <3>3, <3>4, <4>2
      <4> QED BY <3>3, <4>1, <4>3 DEF Continues
    <3>7. Covers(cand.epoch, journal)
      <4>1. NoMark.epoch = 0 BY DEF NoMark
      <4>2. \A v \in Users : journal.off[v].epoch <= e.epoch /\ journal.on[v].epoch <= e.epoch
        BY <1>6, <1>8, <3>3, <3>4, <4>1
      <4> QED BY <3>5, <4>2 DEF Covers
    <3>8. \A v \in Users : Marked(journal, v) => v = u BY <3>3, <3>4 DEF Marked
    <3>9. Dated(cand) BY <1>5, <3>5 DEF Dated
    <3>10. JournalDated(journal)
      <4>1. MarkDated(NoMark) BY StartIs
      <4> QED BY <1>9, <3>3, <3>4, <4>1 DEF JournalDated
    <3> QED BY <1>5, <2>2, <3>4, <3>5, <3>6, <3>7, <3>8, <3>9, <3>10
  <2>3. CASE Kind(r) \notin {"on", "off"}
    <3>1. journal = marker /\ cand = e BY <1>10, <1>11, <2>3
    <3>2. IsEmpty(marker) BY <1>13, <2>3
    <3>3. Covers(0, marker) /\ \A v \in Users : ~Marked(marker, v) BY <1>2, <3>2, EmptyIs
    <3>4. Covers(e.epoch, marker) BY <1>6, <3>3 DEF Covers
    <3>5. Continues(marker, marker) BY <1>6 DEF Continues
    <3> QED BY <1>2, <1>5, <2>3, <3>1, <3>3, <3>4, <3>5 DEF IInv, EverythingIsDated
  <2> QED BY <2>1, <2>2, <2>3
<1>15. /\ req' \in [Requests -> Requested] /\ req'[r].at = "running" /\ Keeps
       /\ req'[r].kind = req[r].kind /\ req'[r].user = req[r].user
       /\ Kind(r) = "on" => req'[r].fresh = req[r].fresh
       /\ \A q \in Requests : Stays(q)
  <2>1. Settled(r, "running") BY DEF StartFresh
  <2> QED BY <1>1, <2>1, RunningIs DEF Kind
<1>16. /\ tx'.at = (IF Kind(r) \in {"on", "off"} THEN "mark" ELSE "write") /\ tx'.by = r /\ tx'.cand = cand
       /\ tx'.journal = journal /\ tx'.replay = FALSE /\ tx'.mark = w /\ tx' \in Transaction
  <2>1. PICK at \in {"mark", "write"} : at = IF Kind(r) \in {"on", "off"} THEN "mark" ELSE "write" OBVIOUS
  <2>2. tx' = [Idle EXCEPT !.at = at, !.by = r, !.cand = cand, !.live = live, !.base = base,
                           !.journal = journal, !.mark = w]
    BY <1>12, <2>1
  <2>3. Idle.replay = FALSE BY DEF Idle
  <2>4. /\ tx'.at = at /\ tx'.by = r /\ tx'.cand = cand /\ tx'.journal = journal
        /\ tx'.replay = FALSE /\ tx'.mark = w
    BY <2>2, <2>3, StartIs DEF Transaction
  <2>5. tx' \in Transaction BY <1>2, <1>8, <1>14, <2>2, StartIs DEF Transaction, Publishing
  <2> QED BY <2>1, <2>4, <2>5
<1>17. Dated(tx.cand)' /\ JournalDated(tx.journal)' /\ MarkDated(tx.mark)'
  <2>1. Dated(cand)' /\ JournalDated(journal)' /\ MarkDated(w)' BY <1>9, <1>14, <1>15, DatedStays
  <2> QED BY <1>16, <2>1 DEF Dated, JournalDated, MarkDated
<1>18. TransactionIsSound'
  <2>1. boot' = "up" /\ ~snap'.held BY <1>1 DEF Free
  <2>2. cand.epoch \in Nat BY <1>14, DocumentIs
  <2>3. UNCHANGED <<disk, marker>> /\ Kind(r) = req[r].kind /\ u = req[r].user BY <1>1, <1>3 DEF Kind, Member
  <2>4. tx'.at \in {"mark", "write"} /\ (tx'.at = "mark" <=> Kind(r) \in {"on", "off"}) BY <1>16
  <2>5. \A v \in Users : Activates(v)' <=> Kind(r) = "on" /\ v = u
    BY <1>15, <1>16, <2>3 DEF Activates, Activation, Kind, Member
  <2>6. /\ \A v \in Users : cand.subj[v].on => disk'.subj[v].on \/ Activates(v)'
        /\ \A v \in Users : Marked(journal, v) => ~cand.subj[v].on \/ Activates(v)'
    BY <1>14, <2>3, <2>5
  <2>7. cand.epoch >= disk'.epoch /\ Continues(journal, marker') /\ (tx'.at = "write" => marker' = journal)
    BY <1>14, <2>3, <2>4
  <2>8. (\E n \in Nat : Covers(n, tx.journal))' BY <1>14, <1>16, <2>2 DEF Covers
  <2>9. /\ Covers(tx.cand.epoch, tx.journal)'
        /\ (\A v \in Users : Marked(tx.journal, v) => ~tx.cand.subj[v].on \/ Activates(v))'
        /\ Continues(tx.journal, marker)'
    <3>1. Covers(tx.cand.epoch, tx.journal)' BY <1>14, <1>16 DEF Covers
    <3>2. (\A v \in Users : Marked(tx.journal, v) => ~tx.cand.subj[v].on \/ Activates(v))'
      BY <1>16, <2>6 DEF Marked, NoMark
    <3>3. Continues(tx.journal, marker)' BY <1>16, <2>7 DEF Continues, NoMark
    <3> QED BY <3>1, <3>2, <3>3
  <2>10. tx'.at # "deny" /\ tx'.at \notin Written /\ tx'.at \notin {"install", "finish"} /\ tx'.by \in Requests
         /\ req'[tx'.by].at = "running" /\ tx'.mark.by = tx'.by /\ ~tx'.replay
    BY <1>8, <1>15, <1>16, <2>4 DEF Written
  <2>11. tx'.at \in Publishing => marker' = tx'.journal BY <1>16, <2>4, <2>7 DEF Publishing
  <2>12. tx'.cand.epoch >= disk'.epoch /\ (\A v \in Users : tx.cand.subj[v].on => disk.subj[v].on \/ Activates(v))'
    BY <1>16, <2>6, <2>7
  <2> QED BY <2>1, <2>8, <2>9, <2>10, <2>11, <2>12 DEF TransactionIsSound
<1>19. ActivationIsSound'
  <2> SUFFICES ASSUME Kind(r) = "on"
               PROVE  /\ \A v \in Users : /\ marker.off[v] = NoMark /\ journal.off[v] = NoMark
                                          /\ v # u => journal.on[v] = NoMark
                      /\ journal.on[u].by = r /\ req[r].fresh
    BY <1>1, <1>3, <1>15, <1>16 DEF ActivationIsSound, Activation, Kind, Member, NoMark, NoDenial
  <2>1. journal = [marker EXCEPT !.on[u] = w] BY <1>10
  <2>2. IsEmpty(marker) BY <1>13
  <2>3. \A v \in Users : marker.off[v] = NoMark /\ marker.on[v] = NoMark BY <2>2 DEF IsEmpty, Entries
  <2>4. journal.off = marker.off /\ journal.on = [marker.on EXCEPT ![u] = w]
        /\ marker.on \in [Users -> Marks]
    BY <1>2, <2>1 DEF Journals
  <2>5. /\ \A v \in Users : v # u => journal.on[v] = NoMark
        /\ journal.on[u] = w
    BY <2>3, <2>4
  <2>6. req[r].fresh
    <3> SUFFICES ASSUME ~req[r].fresh PROVE FALSE OBVIOUS
    <3>1. PICK n \in Nat : n = req[r].stamp[2] BY <1>1, RequestIs
    <3>2. req[r].allowed = req[r].stamp /\ (live.epoch > n \/ Kept(n))
      BY <1>1, <3>1 DEF IInv, RequestIsDated, Kind
    <3>3. live.epoch = n
      <4>1. Stamp(live, Member(r)) = req[r].allowed BY <1>1 DEF Permitted
      <4>2. Stamp(live, Member(r))[2] = live.epoch BY DEF Stamp
      <4> QED BY <3>1, <3>2, <4>1, <4>2
    <3>4. NoMark.epoch = 0 BY DEF NoMark
    <3>5. disk.epoch > n BY <1>6, <2>3, <3>2, <3>3, <3>4 DEF Kept
    <3>6. base = disk BY <1>1 DEF Permitted, Behind, Current
    <3>7. live.epoch >= base.epoch BY DEF IInv, MemoryIsFenced
    <3> QED BY <1>6, <3>3, <3>5, <3>6, <3>7
  <2> QED BY <1>8, <2>3, <2>4, <2>5, <2>6
<1>20. blocked' \in BOOLEAN BY <1>1 DEF Types
<1> QED BY <1>1, <1>15, <1>16, <1>17, <1>18, <1>19, <1>20, Starting

-----------------------------------------------------------------------------
(* The steps of a transaction                                              *)

\* The types of a transaction's fields.
LEMMA TransactionIs ==
  ASSUME IInv, tx.at # "idle"
  PROVE  /\ tx \in Transaction /\ tx.cand \in Documents /\ tx.journal \in Journals /\ tx.mark \in Marks
         /\ tx.replay \in BOOLEAN /\ tx.cand.epoch \in Nat
         /\ boot = "up" /\ ~snap.held /\ tx.by \in Requests /\ req[tx.by].at = "running"
         /\ Member(tx.by) \in Users
<1>1. tx \in Transaction BY DEF IInv, Types
<1>2. /\ tx.cand \in Documents /\ tx.journal \in Journals /\ tx.mark \in Marks /\ tx.replay \in BOOLEAN
  BY <1>1 DEF Transaction
<1>3. boot = "up" /\ ~snap.held /\ tx.by \in Requests /\ req[tx.by].at = "running"
  BY DEF IInv, TransactionIsSound
<1>4. Member(tx.by) \in Users BY <1>3 DEF IInv, RequestIsDated, Member
<1> QED BY <1>1, <1>2, <1>3, <1>4, DocumentIs

\* The next step of a transaction.
LEMMA GotoIs ==
  ASSUME Types, NEW at \in {"deny"} \cup Publishing, Goto(at)
  PROVE  /\ tx' \in Transaction /\ tx'.at = at /\ tx'.by = tx.by /\ tx'.cand = tx.cand
         /\ tx'.journal = tx.journal /\ tx'.mark = tx.mark /\ tx'.replay = tx.replay
         /\ tx'.live = tx.live
<1>1. tx \in Transaction BY DEF Types
<1> QED BY <1>1 DEF Goto, Transaction

\* The requests stand still.
LEMMA NobodyAsks ==
  ASSUME UNCHANGED req
  PROVE  Keeps /\ \A r \in Requests : Stays(r)
BY DEF Keeps, Stays, Lasts

\* The transaction ends and its request is answered.
LEMMA SettlesIs ==
  ASSUME IInv, tx.at # "idle", NEW ok \in BOOLEAN, Settles(ok)
  PROVE  /\ tx' = Idle /\ req' \in [Requests -> Requested] /\ Keeps /\ \A r \in Requests : Stays(r)
<1>1. Types /\ tx.by \in Requests /\ req[tx.by].at = "running" BY TransactionIs DEF IInv
<1>2. Settled(tx.by, "ok") \/ Settled(tx.by, "refused") BY DEF Settles
<1>3. /\ req' \in [Requests -> Requested] /\ \A q \in Requests \ {tx.by} : req'[q] = req[q]
      /\ req'[tx.by].at \in {"ok", "queued", "running", "refused"}
      /\ req'[tx.by].user = req[tx.by].user /\ req'[tx.by].kind = req[tx.by].kind
      /\ req'[tx.by].stamp = req[tx.by].stamp /\ req'[tx.by].allowed = req[tx.by].allowed
      /\ req'[tx.by].fresh = req[tx.by].fresh
  BY <1>1, <1>2, SettledIs
<1>4. Keeps BY <1>3 DEF Keeps
<1>5. \A q \in Requests : Stays(q) BY <1>1, <1>3 DEF Stays, Lasts, Active
<1>6. tx' = Idle BY DEF Settles
<1> QED BY <1>3, <1>4, <1>5, <1>6

\* The two files change: what the invariant says of the members still holds if the
\* files still tell of the withdrawals.
LEMMA FilesMove ==
  ASSUME Types, Types', World, Keeps, \A r \in Requests : Stays(r),
         UNCHANGED <<live, base, denials, boot>>, blocked => blocked', KeptGrows,
         Dated(disk)', JournalDated(marker)', withdrawn' \subseteq withdrawn,
         \A u \in withdrawn' : denials[u] # NoDenial \/ Off(u)',
         \A u \in withdrawn' \cap secured' : Off(u)',
         (\E n \in Nat : Covers(n, marker))'
  PROVE  World'
<1>1. \A r \in Requests : RequestIsDated(r)'
  <2>1. live'.epoch >= live.epoch BY FilesAre
  <2> QED BY <2>1, RequestStays DEF World
<1>2. WithdrawalsAreKept' BY DEF WithdrawalsAreKept, NoDenial, NoMark
<1>3. MemoryIsFenced' BY DEF World, MemoryIsFenced, Below, NoDenial, NoMark, Types
<1>4. Dated(live)'
  <2>1. PICK l : l = live OBVIOUS
  <2>2. Dated(l)' BY <2>1, DatedStays DEF World
  <2> QED BY <2>1, <2>2 DEF Dated
<1> QED BY <1>1, <1>2, <1>3, <1>4 DEF World

\* A step of a transaction keeps the invariant if it keeps the parts that matter.
LEMMA TransactionMoves ==
  ASSUME IInv, Types', World', Keeps, tx.at # "idle", UNCHANGED <<boot, snap>>,
         \/ tx' = Idle
         \/ /\ TransactionIsSound' /\ ActivationIsSound'
            /\ Dated(tx.cand)' /\ JournalDated(tx.journal)' /\ MarkDated(tx.mark)'
  PROVE  IInv'
<1>1. boot = "up" /\ ~snap.held BY TransactionIs
<1>2. RecoveryIsFirst' BY <1>1 DEF RecoveryIsFirst
<1>3. SnapshotIsBehind' BY <1>1 DEF SnapshotIsBehind
<1>4. Dated(snap.doc)'
  <2>1. PICK s : s = snap.doc OBVIOUS
  <2>2. Dated(s)' BY <2>1, DatedStays DEF IInv, EverythingIsDated
  <2>3. s = snap'.doc BY <2>1
  <2> QED BY <2>2, <2>3 DEF Dated
<1>5. /\ TransactionIsSound' /\ ActivationIsSound'
      /\ Dated(tx.cand)' /\ JournalDated(tx.journal)' /\ MarkDated(tx.mark)'
  <2>1. CASE tx' = Idle
    <3>1. Idle' = Idle BY DEF Idle, Document, Subject, EmptyMarker, NoMark
    <3>2. ( tx = Idle => /\ TransactionIsSound /\ ActivationIsSound
                         /\ Dated(tx.cand) /\ JournalDated(tx.journal) /\ MarkDated(tx.mark) )'
      BY NothingIsUnderWay, PTL
    <3> QED BY <2>1, <3>1, <3>2
  <2> QED BY <2>1
<1> QED BY <1>2, <1>3, <1>4, <1>5 DEF World, IInv, EverythingIsDated

\* The journal takes entries and loses none.
LEMMA JournalMoves ==
  ASSUME IInv, Types', Keeps, \A r \in Requests : Stays(r),
         UNCHANGED <<live, base, denials, disk, boot, withdrawn, blocked>>,
         NEW m \in Journals, Journal(m), Continues(m, marker), JournalDated(m), \E n \in Nat : Covers(n, m)
  PROVE  World'
<1>1. Types /\ marker \in Journals /\ withdrawn \subseteq Users BY DEF IInv, Types
<1>2. marker' = m /\ secured' = secured \cup {u \in withdrawn : m.off[u] # NoMark} BY DEF Journal
<1>3. \A u \in Users : Off(u) => Off(u)'
  <2>1. \A u \in Users : Marked(marker, u) => Marked(m, u) BY <1>1, Continuing
  <2> QED BY <1>2, <2>1 DEF Off, Marked, NoMark
<1>4. \A u \in withdrawn' : denials[u] # NoDenial \/ Off(u)'
  BY <1>1, <1>3 DEF IInv, WithdrawalsAreKept
<1>5. \A u \in withdrawn' \cap secured' : Off(u)'
  <2> SUFFICES ASSUME NEW u \in withdrawn, u \in secured' PROVE Off(u)' OBVIOUS
  <2>1. CASE u \in secured BY <1>1, <1>3, <2>1 DEF IInv, WithdrawalsAreKept
  <2>2. CASE m.off[u] # NoMark BY <1>2, <2>2 DEF Off, Marked, NoMark
  <2> QED BY <1>2, <2>1, <2>2
<1>6. KeptGrows
  <2>1. /\ disk.epoch \in Nat
        /\ \A u \in Users : /\ marker.off[u].epoch \in Nat /\ marker.on[u].epoch \in Nat
                            /\ m.off[u].epoch \in Nat /\ m.on[u].epoch \in Nat
    BY <1>1, FilesAre, JournalIs
  <2>2. \A u \in Users : marker.off[u].epoch <= m.off[u].epoch /\ marker.on[u].epoch <= m.on[u].epoch
    BY <2>1 DEF Continues
  <2> QED BY <1>1, <1>2, <2>1, <2>2, KeptIs
<1>7. JournalDated(marker)' /\ Dated(disk)'
  <2>1. PICK d : d = disk OBVIOUS
  <2>2. JournalDated(m)' /\ Dated(d)' BY <2>1, DatedStays DEF IInv, EverythingIsDated
  <2> QED BY <1>2, <2>1, <2>2 DEF JournalDated, Dated
<1>8. (\E n \in Nat : Covers(n, marker))' BY <1>2 DEF Covers
<1>9. World BY DEF IInv, World, EverythingIsDated
<1> QED BY <1>1, <1>4, <1>5, <1>6, <1>7, <1>8, <1>9, FilesMove

\* A journal in the file: the types stay right.
LEMMA JournalTypes ==
  ASSUME Types, NEW m \in Journals, Journal(m), tx' \in Transaction, req' \in [Requests -> Requested],
         UNCHANGED <<memory, disk, boot, snap, withdrawn>>
  PROVE  Types'
<1>1. marker' \in Journals /\ secured' \in SUBSET Users BY DEF Journal, Types
<1> QED BY <1>1 DEF Types, memory

\* The entry of a change of choice is put in the journal first.
LEMMA PublishMarkKeeps ==
  ASSUME IInv, PublishMark
  PROVE  IInv'
<1>1. /\ tx.at = "mark" /\ Goto("write") /\ Journal(tx.journal)
      /\ UNCHANGED <<live, base, blocked, denials, publication, disk, boot, req, snap, withdrawn>>
  BY DEF PublishMark, memory
<1>2. /\ Types /\ tx.journal \in Journals /\ tx.by \in Requests /\ req[tx.by].at = "running"
      /\ boot = "up" /\ ~snap.held /\ Member(tx.by) \in Users /\ tx.at # "idle"
  BY <1>1, TransactionIs DEF IInv
<1>3. /\ tx' \in Transaction /\ tx'.at = "write" /\ tx'.by = tx.by /\ tx'.cand = tx.cand
      /\ tx'.journal = tx.journal /\ tx'.mark = tx.mark /\ tx'.replay = tx.replay
  BY <1>1, <1>2, GotoIs DEF Publishing
<1>4. Types' BY <1>1, <1>2, <1>3, JournalTypes DEF Types, memory
<1>5. Keeps /\ \A r \in Requests : Stays(r) BY <1>1, NobodyAsks
<1>6. Continues(tx.journal, marker) /\ \E n \in Nat : Covers(n, tx.journal)
  BY <1>1 DEF IInv, TransactionIsSound
<1>7. World' BY <1>1, <1>2, <1>4, <1>5, <1>6, JournalMoves DEF IInv, EverythingIsDated
<1>8. Dated(tx.cand)' /\ JournalDated(tx.journal)' /\ MarkDated(tx.mark)'
  <2>1. PICK c, j, w : c = tx.cand /\ j = tx.journal /\ w = tx.mark OBVIOUS
  <2>2. Dated(c)' /\ JournalDated(j)' /\ MarkDated(w)' BY <1>5, <2>1, DatedStays DEF IInv, EverythingIsDated
  <2> QED BY <1>3, <2>1, <2>2 DEF Dated, JournalDated, MarkDated
<1>9. marker' = tx.journal BY <1>1 DEF Journal
<1>10. TransactionIsSound'
  <2>1. \A u \in Users : Activates(u)' <=> Activates(u)
    BY <1>1, <1>3 DEF Activates, Activation, Kind, Member
  <2>2. /\ tx.cand.epoch >= disk.epoch /\ Covers(tx.cand.epoch, tx.journal)
        /\ \A u \in Users : tx.cand.subj[u].on => disk.subj[u].on \/ Activates(u)
        /\ \A u \in Users : Marked(tx.journal, u) => ~tx.cand.subj[u].on \/ Activates(u)
    BY <1>1 DEF IInv, TransactionIsSound
  <2>3. /\ tx'.cand.epoch >= disk'.epoch /\ Covers(tx.cand.epoch, tx.journal)'
        /\ (\A u \in Users : tx.cand.subj[u].on => disk.subj[u].on \/ Activates(u))'
        /\ (\A u \in Users : Marked(tx.journal, u) => ~tx.cand.subj[u].on \/ Activates(u))'
    BY <1>1, <1>3, <2>1, <2>2 DEF Covers, Marked, NoMark
  <2>4. (\E n \in Nat : Covers(n, tx.journal))' BY <1>3, <1>6 DEF Covers
  <2>5. ~tx.replay /\ Kind(tx.by) \in {"on", "off"} => tx.mark.by = tx.by
    BY <1>1 DEF IInv, TransactionIsSound
  <2>6. ~tx.replay BY <1>1 DEF IInv, TransactionIsSound, Publishing
  <2> QED BY <1>1, <1>2, <1>3, <1>9, <2>3, <2>4, <2>5, <2>6
      DEF TransactionIsSound, Publishing, Written, Kind
<1>11. ActivationIsSound'
  <2> SUFFICES ASSUME Activation'
               PROVE  /\ \A u \in Users : /\ tx.journal.off[u] = NoMark
                                          /\ u # Member(tx.by) => tx.journal.on[u] = NoMark
                      /\ tx.journal.on[Member(tx.by)].by = tx.by
                      /\ \/ req[tx.by].fresh
                         \/ denials[Member(tx.by)] # NoDenial /\ Member(tx.by) \notin secured'
    BY <1>1, <1>3, <1>9 DEF ActivationIsSound, Member, NoMark, NoDenial
  <2>1. Activation BY <1>1, <1>3 DEF Activation, Kind
  <2>2. /\ \A u \in Users : /\ tx.journal.off[u] = NoMark
                            /\ u # Member(tx.by) => tx.journal.on[u] = NoMark
        /\ tx.journal.on[Member(tx.by)].by = tx.by
        /\ req[tx.by].fresh \/ (denials[Member(tx.by)] # NoDenial /\ Member(tx.by) \notin secured)
    BY <1>1, <2>1 DEF IInv, ActivationIsSound
  <2>3. secured' = secured BY <1>1, <1>2, <2>2 DEF Journal, Types
  <2> QED BY <2>2, <2>3
<1> QED BY <1>1, <1>2, <1>4, <1>5, <1>7, <1>8, <1>10, <1>11, TransactionMoves

\* The other writes of the journal that end a transaction, and their failures.
LEMMA MarkingKeeps ==
  ASSUME IInv, PublishMarkOnly \/ MarkFails \/ Deny \/ DenyFails
  PROVE  IInv'
<1>1. /\ tx.at \in {"mark", "mark only", "deny"} /\ Settles(FALSE)
      /\ \/ tx.at \in {"mark", "mark only"} /\ \E m \in {marker, tx.journal} : Journal(m)
         \/ tx.at = "deny" /\ \E m \in {marker, Denied} : Journal(m)
      /\ UNCHANGED <<live, base, blocked, denials, publication, disk, boot, snap, withdrawn>>
  BY DEF PublishMarkOnly, MarkFails, Deny, DenyFails, memory
<1>2. /\ Types /\ tx.journal \in Journals /\ tx.mark \in Marks /\ tx.by \in Requests
      /\ Member(tx.by) \in Users /\ tx.at # "idle" /\ marker \in Journals
  BY <1>1, TransactionIs DEF IInv, Types
<1>3. tx' = Idle /\ req' \in [Requests -> Requested] /\ Keeps /\ \A r \in Requests : Stays(r)
  BY <1>1, <1>2, SettlesIs
<1>4. PICK n \in Nat : Covers(n, marker) BY DEF IInv, WithdrawalsAreKept
<1>5. \E m \in Journals : /\ Journal(m) /\ Continues(m, marker) /\ JournalDated(m)
                          /\ \E l \in Nat : Covers(l, m)
  <2>1. CASE Journal(marker)
    <3>1. \A u \in Users : marker.off[u].epoch \in Nat /\ marker.on[u].epoch \in Nat BY <1>2, FilesAre
    <3>2. Continues(marker, marker) BY <3>1 DEF Continues
    <3> QED BY <1>2, <1>4, <2>1, <3>2 DEF IInv, EverythingIsDated
  <2>2. CASE tx.at \in {"mark", "mark only"} /\ Journal(tx.journal)
    BY <1>2, <2>2 DEF IInv, TransactionIsSound, EverythingIsDated
  <2>3. CASE tx.at = "deny" /\ Journal(Denied)
    <3>1. tx.mark.by = tx.by
      BY <2>3 DEF IInv, TransactionIsSound, Publishing
    <3>2. PICK k : k = AddWithdrawal(marker, Member(tx.by), tx.mark) OBVIOUS
    <3>3. /\ k \in Journals /\ Continues(k, marker)
          /\ \A l \in Nat : tx.mark.epoch <= l /\ n <= l => Covers(l, k)
      BY <1>2, <1>4, <3>1, <3>2, AddIs
    <3>4. tx.mark.epoch \in Nat BY <1>2 DEF Marks
    <3>5. PICK l \in Nat : tx.mark.epoch <= l /\ n <= l BY <3>4, LargerIs
    <3>6. JournalDated(k) BY <1>2, <3>1, <3>2, AddIsDated DEF IInv, EverythingIsDated
    <3> QED BY <2>3, <3>2, <3>3, <3>5, <3>6 DEF Denied
  <2> QED BY <1>1, <2>1, <2>2, <2>3
<1>6. PICK m \in Journals : /\ Journal(m) /\ Continues(m, marker) /\ JournalDated(m)
                            /\ \E l \in Nat : Covers(l, m)
  BY <1>5
<1>7. Types' BY <1>1, <1>2, <1>3, <1>6, StartIs, JournalTypes DEF memory
<1>8. World' BY <1>1, <1>3, <1>6, <1>7, JournalMoves
<1> QED BY <1>1, <1>2, <1>3, <1>7, <1>8, TransactionMoves

\* A transaction fails: it ends, or it goes on to leave a withdrawal in the journal.
LEMMA FailsIs ==
  ASSUME IInv, tx.at \in Publishing, Fails, UNCHANGED <<boot, snap>>
  PROVE  /\ tx' \in Transaction /\ req' \in [Requests -> Requested] /\ blocked' \in BOOLEAN
         /\ Keeps /\ (\A r \in Requests : Stays(r)) /\ (blocked => blocked')
         /\ \/ tx' = Idle
            \/ /\ TransactionIsSound' /\ ActivationIsSound'
               /\ Dated(tx.cand)' /\ JournalDated(tx.journal)' /\ MarkDated(tx.mark)'
<1>1. /\ Types /\ tx.at # "idle" /\ boot = "up" /\ ~snap.held /\ tx.by \in Requests
      /\ req[tx.by].at = "running" /\ blocked \in BOOLEAN
  <2>1. tx.at # "idle" BY DEF Publishing
  <2> QED BY <2>1, TransactionIs DEF IInv, Types
<1>2. CASE Settles(FALSE)
  <2>1. tx' = Idle /\ req' \in [Requests -> Requested] /\ Keeps /\ \A r \in Requests : Stays(r)
    BY <1>1, <1>2, SettlesIs
  <2>2. blocked' \in BOOLEAN /\ (blocked => blocked') BY <1>1 DEF Fails
  <2> QED BY <2>1, <2>2, StartIs
<1>3. CASE ~Settles(FALSE)
  <2>1. /\ ~tx.replay /\ blocked' = TRUE /\ Kind(tx.by) \in {"on", "off"} /\ Goto("deny") /\ UNCHANGED req
    BY <1>3 DEF Fails
  <2>2. Keeps /\ \A r \in Requests : Stays(r) BY <2>1, NobodyAsks
  <2>3. /\ tx' \in Transaction /\ tx'.at = "deny" /\ tx'.by = tx.by /\ tx'.cand = tx.cand
        /\ tx'.journal = tx.journal /\ tx'.mark = tx.mark /\ tx'.replay = tx.replay
    BY <1>1, <2>1, GotoIs
  <2>4. Dated(tx.cand)' /\ JournalDated(tx.journal)' /\ MarkDated(tx.mark)'
    <3>1. PICK c, j, w : c = tx.cand /\ j = tx.journal /\ w = tx.mark OBVIOUS
    <3>2. Dated(c)' /\ JournalDated(j)' /\ MarkDated(w)' BY <2>2, <3>1, DatedStays DEF IInv, EverythingIsDated
    <3> QED BY <2>3, <3>1, <3>2 DEF Dated, JournalDated, MarkDated
  <2>5. TransactionIsSound'
    <3>1. tx.mark.by = tx.by BY <2>1 DEF IInv, TransactionIsSound
    <3>2. (\E n \in Nat : Covers(n, tx.journal))' BY <2>3 DEF IInv, TransactionIsSound, Covers
    <3> QED BY <1>1, <2>1, <2>3, <3>1, <3>2 DEF TransactionIsSound, Publishing, Written, Kind
  <2>6. ActivationIsSound' BY <2>3 DEF ActivationIsSound
  <2>7. req' \in [Requests -> Requested] BY <1>1, <2>1 DEF Types
  <2> QED BY <2>1, <2>2, <2>3, <2>4, <2>5, <2>6, <2>7
<1> QED BY <1>2, <1>3

\* The candidate reaches the disk, or does not.
LEMMA WritingKeeps ==
  ASSUME IInv, Types', tx.at \in {"write", "settle"}, disk' \in {disk, tx.cand},
         UNCHANGED <<live, base, denials, marker, boot, withdrawn, secured>>, blocked => blocked',
         Keeps, \A r \in Requests : Stays(r)
  PROVE  World'
<1>1. /\ Types /\ tx.at # "idle" /\ tx.at \in Publishing /\ World /\ tx.cand \in Documents
      /\ tx.cand.epoch \in Nat /\ tx.by \in Requests /\ withdrawn \subseteq Users
  BY TransactionIs DEF IInv, World, EverythingIsDated, Publishing, Types
<1>2. /\ marker = tx.journal /\ tx.cand.epoch >= disk.epoch
      /\ \A u \in Users : tx.cand.subj[u].on => disk.subj[u].on \/ Activates(u)
  BY <1>1 DEF IInv, TransactionIsSound
<1>3. disk'.epoch >= disk.epoch
  <2>1. disk.epoch \in Nat BY <1>1, FilesAre
  <2> QED BY <1>1, <1>2, <2>1
<1>4. KeptGrows
  <2>1. \A u \in Users : marker.off[u].epoch \in Nat /\ marker.on[u].epoch \in Nat BY <1>1, FilesAre
  <2>2. \A u \in Users : marker.off[u].epoch <= marker'.off[u].epoch /\ marker.on[u].epoch <= marker'.on[u].epoch
    BY <2>1
  <2> QED BY <1>1, <1>3, <2>2, KeptIs
<1>5. Dated(disk)' /\ JournalDated(marker)'
  <2>1. PICK d, c, m : d = disk /\ c = tx.cand /\ m = marker OBVIOUS
  <2>2. Dated(d)' /\ Dated(c)' /\ JournalDated(m)' BY <2>1, DatedStays DEF IInv, EverythingIsDated
  <2>3. disk' \in {d, c} /\ marker' = m BY <2>1
  <2> QED BY <2>2, <2>3 DEF Dated, JournalDated
<1>6. \A u \in Users : Off(u) => Off(u)'
  <2> SUFFICES ASSUME NEW u \in Users, Off(u) PROVE Off(u)' OBVIOUS
  <2>1. CASE Marked(marker, u) BY <2>1 DEF Off, Marked, NoMark
  <2>2. CASE Activates(u)
    <3>1. tx.journal.on[u].by = tx.by BY <1>1, <2>2 DEF IInv, ActivationIsSound, Activates
    <3>2. Marked(marker, u) BY <1>1, <1>2, <3>1 DEF Marked, NoMark
    <3> QED BY <3>2 DEF Off, Marked, NoMark
  <2>3. CASE ~Marked(marker, u) /\ ~Activates(u) BY <1>2, <2>3 DEF Off
  <2> QED BY <2>1, <2>2, <2>3
<1>7. (\E n \in Nat : Covers(n, marker))' BY DEF IInv, WithdrawalsAreKept, Covers
<1>8. /\ \A u \in withdrawn' : denials[u] # NoDenial \/ Off(u)'
      /\ \A u \in withdrawn' \cap secured' : Off(u)'
  BY <1>1, <1>6 DEF IInv, WithdrawalsAreKept
<1> QED BY <1>1, <1>4, <1>5, <1>7, <1>8, FilesMove

\* A write that fails, whether or not it reached the disk.
LEMMA WriteFailsKeeps ==
  ASSUME IInv, WriteFails
  PROVE  IInv'
<1>1. /\ tx.at \in {"write", "settle"} /\ Fails /\ disk' \in {disk, tx.cand}
      /\ UNCHANGED <<live, base, denials, publication, marker, boot, snap, withdrawn, secured>>
  BY DEF WriteFails, history
<1>2. tx.at \in Publishing /\ tx.at # "idle" /\ Types /\ tx.cand \in Documents
  BY <1>1, TransactionIs DEF Publishing, IInv
<1>3. /\ tx' \in Transaction /\ req' \in [Requests -> Requested] /\ blocked' \in BOOLEAN
      /\ Keeps /\ (\A r \in Requests : Stays(r)) /\ (blocked => blocked')
      /\ \/ tx' = Idle
         \/ /\ TransactionIsSound' /\ ActivationIsSound'
            /\ Dated(tx.cand)' /\ JournalDated(tx.journal)' /\ MarkDated(tx.mark)'
  BY <1>1, <1>2, FailsIs
<1>4. Types' BY <1>1, <1>2, <1>3 DEF Types
<1>5. World' BY <1>1, <1>3, <1>4, WritingKeeps
<1> QED BY <1>1, <1>2, <1>3, <1>4, <1>5, TransactionMoves

\* The projection or a check fails.
LEMMA OtherFailureKeeps ==
  ASSUME IInv, tx.at \in Publishing, Fails,
         UNCHANGED <<live, base, denials, publication, files, boot, snap, withdrawn, secured>>
  PROVE  IInv'
<1>1. Types /\ tx.at # "idle" BY DEF IInv, Publishing
<1>2. /\ tx' \in Transaction /\ req' \in [Requests -> Requested] /\ blocked' \in BOOLEAN
      /\ Keeps /\ (\A r \in Requests : Stays(r)) /\ (blocked => blocked')
      /\ \/ tx' = Idle
         \/ /\ TransactionIsSound' /\ ActivationIsSound'
            /\ Dated(tx.cand)' /\ JournalDated(tx.journal)' /\ MarkDated(tx.mark)'
  BY FailsIs
<1>3. Types' BY <1>1, <1>2 DEF Types, files
<1>4. World' BY <1>1, <1>2, <1>3, WorldStays DEF IInv, World, EverythingIsDated
<1> QED BY <1>1, <1>2, <1>3, <1>4, TransactionMoves

\* A transaction goes on with the candidate and the journal it has.
LEMMA GoesOn ==
  ASSUME IInv, tx.at \in Publishing, NEW at \in Publishing, Goto(at),
         UNCHANGED <<req, boot, snap, marker>>, disk' \in {disk, tx.cand},
         tx.replay => blocked',
         at \in Written => disk' = tx.cand, at = "finish" => base' = tx.cand,
         at \in {"install", "finish"} => ~Activation \/ tx.at = "install",
         at \notin {"install", "finish"} =>
           tx.at \notin {"install", "finish"} /\ UNCHANGED <<denials, secured>>
  PROVE  /\ TransactionIsSound' /\ ActivationIsSound'
         /\ Dated(tx.cand)' /\ JournalDated(tx.journal)' /\ MarkDated(tx.mark)'
<1>1. /\ Types /\ tx.at # "idle" /\ boot = "up" /\ ~snap.held /\ tx.by \in Requests
      /\ req[tx.by].at = "running" /\ Member(tx.by) \in Users /\ tx.cand.epoch \in Nat
  <2>1. tx.at # "idle" BY DEF Publishing
  <2> QED BY <2>1, TransactionIs DEF IInv
<1>2. /\ tx' \in Transaction /\ tx'.at = at /\ tx'.by = tx.by /\ tx'.cand = tx.cand
      /\ tx'.journal = tx.journal /\ tx'.mark = tx.mark /\ tx'.replay = tx.replay
  BY <1>1, GotoIs
<1>3. Dated(tx.cand)' /\ JournalDated(tx.journal)' /\ MarkDated(tx.mark)'
  <2>1. PICK c, j, w : c = tx.cand /\ j = tx.journal /\ w = tx.mark OBVIOUS
  <2>2. Dated(c)' /\ JournalDated(j)' /\ MarkDated(w)'
    BY <2>1, NobodyAsks, DatedStays DEF IInv, EverythingIsDated
  <2> QED BY <1>2, <2>1, <2>2 DEF Dated, JournalDated, MarkDated
<1>4. \A u \in Users : Activates(u)' <=> Activates(u)
  BY <1>2 DEF Activates, Activation, Kind, Member
<1>5. TransactionIsSound'
  <2>1. /\ tx.cand.epoch >= disk.epoch /\ Covers(tx.cand.epoch, tx.journal) /\ marker = tx.journal
        /\ \A u \in Users : tx.cand.subj[u].on => disk.subj[u].on \/ Activates(u)
        /\ \A u \in Users : Marked(tx.journal, u) =>
             ~tx.cand.subj[u].on \/ (Activates(u) /\ tx.at \notin {"install", "finish"})
    BY DEF IInv, TransactionIsSound
  <2>2. tx'.cand.epoch >= disk'.epoch BY <1>1, <1>2, <2>1
  <2>3. (\A u \in Users : tx.cand.subj[u].on => disk.subj[u].on \/ Activates(u))'
    BY <1>2, <1>4, <2>1
  <2>4. \A u \in Users : Marked(tx.journal, u) => ~tx.cand.subj[u].on \/ (Activates(u) /\ at \notin {"install", "finish"})
    BY <2>1 DEF Activates
  <2>5. /\ Covers(tx.cand.epoch, tx.journal)'
        /\ (\A u \in Users : Marked(tx.journal, u) =>
             ~tx.cand.subj[u].on \/ (Activates(u) /\ tx.at \notin {"install", "finish"}))'
    BY <1>2, <1>4, <2>1, <2>4 DEF Covers, Marked, NoMark
  <2>6. (\E n \in Nat : Covers(n, tx.journal))' BY <1>2 DEF IInv, TransactionIsSound, Covers
  <2>7. ~tx.replay /\ Kind(tx.by) \in {"on", "off"} => tx.mark.by = tx.by
    BY DEF IInv, TransactionIsSound
  <2>8. at \notin {"idle", "mark", "mark only", "deny"} BY DEF Publishing
  <2> QED BY <1>1, <1>2, <2>1, <2>2, <2>3, <2>5, <2>6, <2>7, <2>8 DEF TransactionIsSound, Kind
<1>6. ActivationIsSound'
  <2> SUFFICES ASSUME at \in {"mark", "write", "project", "settle", "check", "retire"}, Activation'
               PROVE  /\ \A u \in Users : /\ marker.off[u] = NoMark /\ tx.journal.off[u] = NoMark
                                          /\ u # Member(tx.by) => tx.journal.on[u] = NoMark
                      /\ tx.journal.on[Member(tx.by)].by = tx.by
                      /\ \/ req[tx.by].fresh
                         \/ denials[Member(tx.by)] # NoDenial /\ Member(tx.by) \notin secured
    BY <1>2 DEF ActivationIsSound, Member, NoMark, NoDenial
  <2>1. Activation BY <1>2 DEF Activation, Kind
  <2>2. tx.at \in {"mark", "write", "project", "settle", "check", "retire"} BY DEF Publishing
  <2> QED BY <2>1, <2>2 DEF IInv, ActivationIsSound
<1> QED BY <1>3, <1>5, <1>6

\* The candidate is written.
LEMMA WriteCandidateKeeps ==
  ASSUME IInv, WriteCandidate
  PROVE  IInv'
<1>1. PICK at : at = IF tx.at = "write" THEN "project" ELSE IF tx.replay THEN "retire" ELSE "check" OBVIOUS
<1>2. /\ tx.at \in {"write", "settle"} /\ disk' = tx.cand /\ Goto(at)
      /\ publication' = [known |-> TRUE, doc |-> tx.live, base |-> tx.base, id |-> tx.cand]
      /\ UNCHANGED <<live, base, blocked, denials, marker, boot, req, snap, withdrawn, secured>>
  BY <1>1 DEF WriteCandidate, history
<1>3. /\ tx.at \in Publishing /\ at \in Publishing \ {"install", "finish"} /\ Types /\ tx.at # "idle"
      /\ tx.at \notin {"install", "finish"} /\ tx.cand \in Documents
  BY <1>1, <1>2, TransactionIs DEF Publishing, IInv
<1>4. tx' \in Transaction BY <1>2, <1>3, GotoIs
<1>5. Types'
  <2>1. tx.live \in Documents /\ tx.base \in Documents BY <1>3 DEF Types, Transaction
  <2>2. publication' \in [known : BOOLEAN, doc : Documents, base : Documents, id : Documents]
    BY <1>2, <1>3, <2>1
  <2> QED BY <1>2, <1>3, <1>4, <2>2 DEF Types
<1>6. Keeps /\ \A r \in Requests : Stays(r) BY <1>2, NobodyAsks
<1>7. World' BY <1>2, <1>5, <1>6, WritingKeeps
<1>8. tx.replay => blocked' BY <1>2 DEF IInv, TransactionIsSound
<1>9. /\ TransactionIsSound' /\ ActivationIsSound'
      /\ Dated(tx.cand)' /\ JournalDated(tx.journal)' /\ MarkDated(tx.mark)'
  BY <1>2, <1>3, <1>8, GoesOn
<1> QED BY <1>2, <1>3, <1>5, <1>6, <1>7, <1>9, TransactionMoves

\* The check before the journal is emptied.
LEMMA CheckKeeps ==
  ASSUME IInv, Check
  PROVE  IInv'
<1>1. /\ tx.at = "check"
      /\ UNCHANGED <<live, base, denials, publication, files, disk, marker, boot, snap, withdrawn, secured>>
  BY DEF Check, files, history
<1>2. tx.at \in Publishing /\ tx.at \in Written /\ tx.at # "idle" /\ Types
  BY <1>1 DEF Publishing, Written, IInv
<1>3. CASE Fails BY <1>1, <1>2, <1>3, OtherFailureKeeps
<1>4. CASE ~Fails
  <2>1. PICK at : at = IF Kind(tx.by) \in {"on", "off"} THEN "retire" ELSE "install" OBVIOUS
  <2>2. Goto(at) /\ UNCHANGED <<blocked, req>> BY <1>4, <2>1 DEF Check
  <2>3. at \in Publishing \ {"finish"} /\ (at = "install" => ~Activation)
    BY <2>1 DEF Publishing, Activation
  <2>4. disk = tx.cand /\ (tx.replay => blocked) BY <1>2 DEF IInv, TransactionIsSound
  <2>5. tx' \in Transaction BY <1>2, <2>2, <2>3, GotoIs
  <2>6. Types' BY <1>1, <1>2, <2>2, <2>5 DEF Types
  <2>7. Keeps /\ \A r \in Requests : Stays(r) BY <2>2, NobodyAsks
  <2>8. World' BY <1>1, <1>2, <2>2, <2>6, <2>7, WorldStays DEF IInv, World, EverythingIsDated
  <2>9. /\ TransactionIsSound' /\ ActivationIsSound'
        /\ Dated(tx.cand)' /\ JournalDated(tx.journal)' /\ MarkDated(tx.mark)'
    BY <1>1, <1>2, <2>2, <2>3, <2>4, GoesOn
  <2> QED BY <1>1, <1>2, <2>6, <2>7, <2>8, <2>9, TransactionMoves
<1> QED BY <1>3, <1>4

\* The facts are projected: the outcomes are complete and nobody's choice moves.
LEMMA ProjectKeeps ==
  ASSUME IInv, Project
  PROVE  IInv'
<1>1. /\ tx.at = "project"
      /\ UNCHANGED <<live, base, blocked, denials, publication, files, disk, marker, boot, req, snap,
                     withdrawn, secured>>
  BY DEF Project, files, memory, history
<1>2. /\ Types /\ tx \in Transaction /\ tx.at # "idle" /\ boot = "up" /\ ~snap.held /\ tx.by \in Requests
      /\ req[tx.by].at = "running" /\ Member(tx.by) \in Users /\ tx.cand \in Documents
  BY <1>1, TransactionIs DEF IInv
<1>3. PICK c : c = tx.cand OBVIOUS
<1>4. PICK u \in Users : u = Member(tx.by) BY <1>2
<1>5. PICK d : d = IF tx.replay THEN c ELSE [c EXCEPT !.subj[u].pending = FALSE] OBVIOUS
<1>6. /\ d \in Documents /\ d.epoch = c.epoch
      /\ \A v \in Users : d.subj[v].on = c.subj[v].on /\ d.subj[v].out = c.subj[v].out
  <2>1. CASE tx.replay BY <1>2, <1>3, <1>5, <2>1
  <2>2. CASE ~tx.replay
    <3>9. c \in Documents BY <1>2, <1>3
    <3>1. PICK f, T, k : c = [facts |-> f, subj |-> T, epoch |-> k] BY <3>9, DocumentIs
    <3>2. f \in SUBSET Users /\ T \in [Users -> Subjects] /\ k \in Nat BY <3>9, <3>1, DocumentIs
    <3>3. PICK t \in Subjects : t = T[u] BY <3>2
    <3>4. PICK s : s = [t EXCEPT !.pending = FALSE] OBVIOUS
    <3>5. s \in Subjects /\ s.on = t.on /\ s.out = t.out BY <3>4 DEF Subjects
    <3>6. PICK S : S = [T EXCEPT ![u] = s] OBVIOUS
    <3>7. S \in [Users -> Subjects] /\ \A v \in Users : S[v] = IF v = u THEN s ELSE T[v]
      BY <3>2, <3>5, <3>6
    <3>8. d = [facts |-> f, subj |-> S, epoch |-> k] BY <1>5, <2>2, <3>1, <3>2, <3>3, <3>4, <3>6
    <3> QED BY <3>1, <3>2, <3>3, <3>5, <3>7, <3>8 DEF Documents
  <2> QED BY <2>1, <2>2
<1>7. PICK e : e = CompleteOutcomes(d) OBVIOUS
<1>8. /\ e \in Documents /\ e.epoch = c.epoch /\ \A v \in Users : e.subj[v].on = c.subj[v].on
      /\ Forgets(e, c)
  <2>1. /\ e \in Documents /\ e.epoch = d.epoch /\ \A v \in Users : e.subj[v].on = d.subj[v].on
        /\ Forgets(e, d)
    BY <1>6, <1>7, CompleteIs
  <2> QED BY <1>6, <2>1 DEF Forgets
<1>9. tx' = [tx EXCEPT !.at = "settle", !.cand = e] BY <1>3, <1>4, <1>5, <1>7, <1>2 DEF Project
<1>10. /\ tx' \in Transaction /\ tx'.at = "settle" /\ tx'.by = tx.by /\ tx'.cand = e
       /\ tx'.journal = tx.journal /\ tx'.mark = tx.mark /\ tx'.replay = tx.replay
  BY <1>2, <1>8, <1>9 DEF Transaction, Publishing
<1>11. Keeps /\ \A r \in Requests : Stays(r) BY <1>1, NobodyAsks
<1>12. Types' BY <1>1, <1>2, <1>10 DEF Types
<1>13. World' BY <1>1, <1>2, <1>11, <1>12, WorldStays DEF IInv, World, EverythingIsDated
<1>14. Dated(tx.cand)' /\ JournalDated(tx.journal)' /\ MarkDated(tx.mark)'
  <2>1. Dated(e)
    <3>1. e.epoch >= c.epoch
      <4>1. c.epoch \in Nat BY <1>2, <1>3, DocumentIs
      <4> QED BY <1>8, <4>1
    <3> QED BY <1>2, <1>3, <1>8, <3>1, DatedGrows DEF IInv, EverythingIsDated
  <2>2. PICK j, w : j = tx.journal /\ w = tx.mark OBVIOUS
  <2>3. Dated(e)' /\ JournalDated(j)' /\ MarkDated(w)'
    BY <1>11, <2>1, <2>2, DatedStays DEF IInv, EverythingIsDated
  <2> QED BY <1>10, <2>2, <2>3 DEF Dated, JournalDated, MarkDated
<1>15. \A v \in Users : Activates(v)' <=> Activates(v)
  BY <1>1, <1>10 DEF Activates, Activation, Kind, Member
<1>16. TransactionIsSound'
  <2>1. /\ c.epoch >= disk.epoch /\ Covers(c.epoch, tx.journal) /\ marker = tx.journal
        /\ \A v \in Users : c.subj[v].on => disk.subj[v].on \/ Activates(v)
        /\ \A v \in Users : Marked(tx.journal, v) => ~c.subj[v].on \/ Activates(v)
    BY <1>1, <1>3 DEF IInv, TransactionIsSound, Publishing
  <2>2. /\ tx'.cand.epoch >= disk'.epoch /\ marker' = tx'.journal BY <1>1, <1>8, <1>10, <2>1
  <2>3. (\A v \in Users : tx.cand.subj[v].on => disk.subj[v].on \/ Activates(v))'
    BY <1>1, <1>8, <1>10, <1>15, <2>1
  <2>4. /\ Covers(tx.cand.epoch, tx.journal)'
        /\ (\A v \in Users : Marked(tx.journal, v) => ~tx.cand.subj[v].on \/ Activates(v))'
    BY <1>8, <1>10, <1>15, <2>1 DEF Covers, Marked, NoMark
  <2>5. (\E n \in Nat : Covers(n, tx.journal))' BY <1>10 DEF IInv, TransactionIsSound, Covers
  <2>6. /\ ~tx.replay /\ Kind(tx.by) \in {"on", "off"} => tx.mark.by = tx.by
        /\ tx.replay => blocked
    BY <1>1 DEF IInv, TransactionIsSound, Publishing
  <2> QED BY <1>1, <1>2, <1>10, <2>2, <2>3, <2>4, <2>5, <2>6
      DEF TransactionIsSound, Publishing, Written, Kind
<1>17. ActivationIsSound'
  <2> SUFFICES ASSUME Activation'
               PROVE  /\ \A v \in Users : /\ marker.off[v] = NoMark /\ tx.journal.off[v] = NoMark
                                          /\ v # Member(tx.by) => tx.journal.on[v] = NoMark
                      /\ tx.journal.on[Member(tx.by)].by = tx.by
                      /\ \/ req[tx.by].fresh
                         \/ denials[Member(tx.by)] # NoDenial /\ Member(tx.by) \notin secured
    BY <1>1, <1>10 DEF ActivationIsSound, Member, NoMark, NoDenial
  <2>1. Activation BY <1>1, <1>10 DEF Activation, Kind
  <2> QED BY <1>1, <2>1 DEF IInv, ActivationIsSound
<1> QED BY <1>1, <1>2, <1>11, <1>12, <1>13, <1>14, <1>16, <1>17, TransactionMoves

\* What is left of the journal once the change is in the document.
LEMMA RetiredIs ==
  ASSUME IInv, tx.at = "retire"
  PROVE  /\ Retired \in Journals
         /\ \A u \in Users : /\ Retired.off[u] \in {tx.journal.off[u], NoMark}
                             /\ Retired.on[u] \in {tx.journal.on[u], NoMark}
         /\ Activation => Retired # tx.journal /\ \A u \in Users : ~Marked(Retired, u)
<1>1. tx.at # "idle" BY DEF IInv
<1>2. tx.journal \in Journals /\ Member(tx.by) \in Users /\ tx.by \in Requests BY <1>1, TransactionIs
<1>3. PICK off, on : off = tx.journal.off /\ on = tx.journal.on OBVIOUS
<1>4. off \in [Users -> Marks] /\ on \in [Users -> Marks] BY <1>2, <1>3 DEF Journals
<1>5. CASE tx.replay
  <2>1. Retired = EmptyMarker BY <1>5 DEF Retired
  <2>2. \A u \in Users : EmptyMarker.off[u] = NoMark /\ EmptyMarker.on[u] = NoMark BY DEF EmptyMarker
  <2> QED BY <1>5, <2>1, <2>2, EmptyIs DEF Activation
<1>6. CASE ~tx.replay
  <2>1. PICK u \in Users : u = Member(tx.by) BY <1>2
  <2>2. PICK o, n : /\ o = IF Kind(tx.by) = "off" THEN [off EXCEPT ![u] = NoMark] ELSE off
                    /\ n = [on EXCEPT ![u] = NoMark]
    OBVIOUS
  <2>3. Retired = [off |-> o, on |-> n] BY <1>3, <1>6, <2>1, <2>2 DEF Retired
  <2>4. o \in [Users -> Marks] /\ \A v \in Users : o[v] \in {off[v], NoMark}
    BY <1>4, <2>2, MarkIsNot
  <2>5. n \in [Users -> Marks] /\ n[u] = NoMark /\ \A v \in Users \ {u} : n[v] = on[v]
    BY <1>4, <2>2, MarkIsNot
  <2>6. Retired \in Journals /\ Retired.off = o /\ Retired.on = n BY <2>3, <2>4, <2>5 DEF Journals
  <2>7. ASSUME Activation PROVE Retired # tx.journal /\ \A v \in Users : ~Marked(Retired, v)
    <3>1. /\ \A v \in Users : off[v] = NoMark /\ (v # u => on[v] = NoMark)
          /\ on[u].by = tx.by
      BY <1>3, <2>1, <2>7 DEF IInv, ActivationIsSound
    <3>2. on[u] # NoMark BY <1>2, <1>4, <3>1, MarkIsNot
    <3>3. Retired # tx.journal BY <1>3, <2>5, <2>6, <3>2
    <3>4. \A v \in Users : n[v] = NoMark /\ o[v] = NoMark BY <2>4, <2>5, <3>1
    <3> QED BY <2>6, <3>3, <3>4 DEF Marked
  <2> QED BY <1>3, <2>4, <2>5, <2>6, <2>7
<1> QED BY <1>5, <1>6

\* The journal is emptied, or is not: who has withdrawn stays on record, unless the
\* activation that took the entry away still stands.
LEMMA RetiringKeeps ==
  ASSUME IInv, Types', tx.at = "retire", NEW m \in {marker, Retired}, Retires(m),
         UNCHANGED <<live, base, denials, disk, boot>>, blocked => blocked',
         Keeps, \A r \in Requests : Stays(r)
  PROVE  World'
<1>1. /\ Types /\ World /\ tx.at # "idle" /\ tx.at \in Publishing /\ tx.at \in Written
      /\ withdrawn \subseteq Users /\ marker \in Journals
  BY DEF IInv, World, EverythingIsDated, Publishing, Written, Types
<1>2. /\ marker = tx.journal /\ disk = tx.cand /\ Covers(disk.epoch, marker)
      /\ \A u \in Users : Marked(marker, u) => ~disk.subj[u].on \/ Activates(u)
  BY <1>1 DEF IInv, TransactionIsSound
<1>3. /\ m \in Journals
      /\ \A u \in Users : m.off[u] \in {marker.off[u], NoMark} /\ m.on[u] \in {marker.on[u], NoMark}
      /\ Activation => m = marker \/ (m # marker /\ \A u \in Users : ~Marked(m, u))
  BY <1>1, <1>2, RetiredIs
<1>4. /\ marker' = m /\ withdrawn' \subseteq withdrawn /\ secured' \subseteq secured
      /\ Activation /\ m # marker /\ req[tx.by].fresh => Member(tx.by) \notin withdrawn'
  BY DEF Retires, Activation
<1>5. \A u \in Users : Off(u) => Off(u)' \/ (Activates(u) /\ m # marker)
  BY <1>2, <1>4 DEF Off, Marked, NoMark
<1>6. Activation => req[tx.by].fresh \/ (denials[Member(tx.by)] # NoDenial /\ Member(tx.by) \notin secured)
  BY DEF IInv, ActivationIsSound
<1>7. \A u \in withdrawn' : denials[u] # NoDenial \/ Off(u)'
  BY <1>1, <1>4, <1>5, <1>6 DEF IInv, WithdrawalsAreKept, Activates
<1>8. \A u \in withdrawn' \cap secured' : Off(u)'
  BY <1>1, <1>4, <1>5, <1>6 DEF IInv, WithdrawalsAreKept, Activates
<1>9. KeptGrows
  <2>1. disk.epoch \in Nat /\ \A u \in Users : marker.off[u].epoch \in Nat /\ marker.on[u].epoch \in Nat
    BY <1>1, FilesAre
  <2>2. \A u \in Users : marker.off[u].epoch <= disk'.epoch /\ marker.on[u].epoch <= disk'.epoch
    BY <1>2 DEF Covers
  <2>3. disk'.epoch >= disk.epoch BY <2>1
  <2> QED BY <1>1, <2>2, <2>3, KeptIs
<1>10. JournalDated(marker)' /\ Dated(disk)'
  <2>1. JournalDated(m)
    <3>1. MarkDated(NoMark) BY StartIs
    <3> QED BY <1>3, <3>1 DEF IInv, EverythingIsDated, JournalDated
  <2>2. PICK d : d = disk OBVIOUS
  <2>3. JournalDated(m)' /\ Dated(d)' BY <2>1, <2>2, DatedStays DEF IInv, EverythingIsDated
  <2> QED BY <1>4, <2>2, <2>3 DEF JournalDated, Dated
<1>11. (\E n \in Nat : Covers(n, marker))'
  <2>1. disk.epoch \in Nat BY <1>1, FilesAre
  <2>2. NoMark.epoch = 0 BY DEF NoMark
  <2>3. \A u \in Users : m.off[u].epoch <= disk.epoch /\ m.on[u].epoch <= disk.epoch
    BY <1>2, <1>3, <2>1, <2>2 DEF Covers
  <2> QED BY <1>4, <2>1, <2>3 DEF Covers
<1> QED BY <1>1, <1>4, <1>7, <1>8, <1>9, <1>10, <1>11, FilesMove

\* The types after the journal was emptied.
LEMMA RetiringTypes ==
  ASSUME Types, NEW m \in Journals, Retires(m), tx' \in Transaction, req' \in [Requests -> Requested],
         blocked' \in BOOLEAN, UNCHANGED <<live, base, denials, publication, disk, boot, snap>>
  PROVE  Types'
<1>1. marker' \in Journals /\ withdrawn' \in SUBSET Users /\ secured' \in SUBSET Users
  BY DEF Retires, Types
<1> QED BY <1>1 DEF Types

\* The transaction empties the journal, and its failure to.
LEMMA RetireKeeps ==
  ASSUME IInv, Retire
  PROVE  IInv'
<1>1. /\ tx.at = "retire" /\ Retires(Retired) /\ tx' = [tx EXCEPT !.at = "install", !.journal = Retired]
      /\ UNCHANGED <<live, base, blocked, denials, publication, disk, boot, req, snap>>
  BY DEF Retire, memory
<1>2. /\ Types /\ tx \in Transaction /\ tx.at # "idle" /\ boot = "up" /\ ~snap.held /\ tx.by \in Requests
      /\ req[tx.by].at = "running" /\ tx.at \in Publishing /\ tx.at \in Written
      /\ blocked \in BOOLEAN /\ req \in [Requests -> Requested]
  BY <1>1, TransactionIs DEF IInv, Publishing, Written, Types
<1>3. PICK k : k = Retired OBVIOUS
<1>4. /\ k \in Journals
      /\ \A u \in Users : /\ k.off[u] \in {tx.journal.off[u], NoMark}
                          /\ k.on[u] \in {tx.journal.on[u], NoMark}
      /\ Activation => \A u \in Users : ~Marked(k, u)
  BY <1>1, <1>3, RetiredIs
<1>5. /\ tx' \in Transaction /\ tx'.at = "install" /\ tx'.by = tx.by /\ tx'.cand = tx.cand
      /\ tx'.journal = k /\ tx'.mark = tx.mark /\ tx'.replay = tx.replay
  <2>1. tx' = [tx EXCEPT !.at = "install", !.journal = k] BY <1>1, <1>3
  <2> QED BY <1>2, <1>4, <2>1 DEF Transaction, Publishing
<1>6. Keeps /\ \A r \in Requests : Stays(r) BY <1>1, NobodyAsks
<1>7. Types' BY <1>1, <1>2, <1>3, <1>4, <1>5, RetiringTypes
<1>8. World' BY <1>1, <1>6, <1>7, RetiringKeeps
<1>9. Dated(tx.cand)' /\ JournalDated(tx.journal)' /\ MarkDated(tx.mark)'
  <2>1. JournalDated(k)
    <3>1. MarkDated(NoMark) BY StartIs
    <3> QED BY <1>4, <3>1 DEF IInv, EverythingIsDated, JournalDated
  <2>2. PICK c, w : c = tx.cand /\ w = tx.mark OBVIOUS
  <2>3. Dated(c)' /\ JournalDated(k)' /\ MarkDated(w)'
    BY <1>6, <2>1, <2>2, DatedStays DEF IInv, EverythingIsDated
  <2> QED BY <1>5, <2>2, <2>3 DEF Dated, JournalDated, MarkDated
<1>10. marker' = k BY <1>1, <1>3 DEF Retires
<1>11. TransactionIsSound'
  <2>1. /\ tx.cand.epoch >= disk.epoch /\ Covers(tx.cand.epoch, tx.journal) /\ disk = tx.cand
        /\ \A u \in Users : tx.cand.subj[u].on => disk.subj[u].on \/ Activates(u)
        /\ \A u \in Users : Marked(tx.journal, u) => ~tx.cand.subj[u].on \/ Activates(u)
        /\ ~tx.replay /\ Kind(tx.by) \in {"on", "off"} => tx.mark.by = tx.by
        /\ tx.replay => blocked
    BY <1>2 DEF IInv, TransactionIsSound
  <2>2. tx.cand.epoch \in Nat BY <1>2, TransactionIs
  <2>3. NoMark.epoch = 0 BY DEF NoMark
  <2>4. Covers(tx.cand.epoch, k) BY <1>4, <2>1, <2>2, <2>3 DEF Covers
  <2>5. \A u \in Users : Marked(k, u) => ~tx.cand.subj[u].on
    <3> SUFFICES ASSUME NEW u \in Users, Marked(k, u) PROVE ~tx.cand.subj[u].on OBVIOUS
    <3>1. Marked(tx.journal, u) BY <1>4 DEF Marked
    <3>2. ~Activates(u) BY <1>4 DEF Activates
    <3> QED BY <2>1, <3>1, <3>2
  <2>6. /\ Covers(tx.cand.epoch, tx.journal)'
        /\ (\A u \in Users : Marked(tx.journal, u) => ~tx.cand.subj[u].on)'
        /\ (\E n \in Nat : Covers(n, tx.journal))'
    BY <1>5, <2>2, <2>4, <2>5 DEF Covers, Marked, NoMark
  <2>7. tx'.cand.epoch >= disk'.epoch /\ disk' = tx'.cand /\ marker' = tx'.journal
    BY <1>1, <1>5, <1>10, <2>1
  <2> QED BY <1>1, <1>2, <1>5, <2>1, <2>6, <2>7 DEF TransactionIsSound, Publishing, Written, Kind
<1>12. ActivationIsSound' BY <1>5 DEF ActivationIsSound
<1> QED BY <1>1, <1>2, <1>6, <1>7, <1>8, <1>9, <1>11, <1>12, TransactionMoves

\* The journal could not be emptied, or was and the step failed after.
LEMMA RetireFailsKeeps ==
  ASSUME IInv, RetireFails
  PROVE  IInv'
<1>1. /\ tx.at = "retire" /\ Fails
      /\ UNCHANGED <<live, base, denials, publication, disk, boot, snap>>
  BY DEF RetireFails
<1>2. PICK m \in {marker, Retired} : Retires(m) BY DEF RetireFails
<1>3. tx.at \in Publishing /\ tx.at # "idle" /\ Types /\ m \in Journals
  BY <1>1, RetiredIs DEF Publishing, IInv, Types
<1>4. /\ tx' \in Transaction /\ req' \in [Requests -> Requested] /\ blocked' \in BOOLEAN
      /\ Keeps /\ (\A r \in Requests : Stays(r)) /\ (blocked => blocked')
      /\ \/ tx' = Idle
         \/ /\ TransactionIsSound' /\ ActivationIsSound'
            /\ Dated(tx.cand)' /\ JournalDated(tx.journal)' /\ MarkDated(tx.mark)'
  BY <1>1, <1>3, FailsIs
<1>5. Types' BY <1>1, <1>2, <1>3, <1>4, RetiringTypes
<1>6. World' BY <1>1, <1>2, <1>4, <1>5, RetiringKeeps
<1> QED BY <1>1, <1>3, <1>4, <1>5, <1>6, TransactionMoves

\* The candidate is installed in memory: only a fence that it covers is dropped.
LEMMA InstallKeeps ==
  ASSUME IInv, Install
  PROVE  IInv'
<1>1. /\ tx.at = "install" /\ UNCHANGED <<files, disk, marker, boot, snap, withdrawn, secured>>
  BY DEF Install, files
<1>2. /\ Types /\ World /\ tx.at # "idle" /\ tx.at \in Publishing /\ tx.at \in Written /\ boot = "up"
      /\ tx.cand \in Documents /\ tx.cand.epoch \in Nat /\ live.epoch \in Nat /\ withdrawn \subseteq Users
      /\ denials \in [Users -> Marks]
  <2>1. tx.at # "idle" BY <1>1
  <2> QED BY <1>1, <2>1, TransactionIs, FilesAre
      DEF IInv, World, EverythingIsDated, Publishing, Written, Types
<1>3. CASE ~Unmoved
  <2>1. Fails /\ UNCHANGED <<live, base, denials, publication>> BY <1>3 DEF Install
  <2> QED BY <1>1, <1>2, <2>1, OtherFailureKeeps
<1>4. CASE Unmoved
  <2>1. PICK c : c = tx.cand OBVIOUS
  <2>2. /\ live' = c /\ base' = c /\ denials' = Outstanding /\ publication' = NoPublication
        /\ c.epoch >= live.epoch
    BY <1>4, <2>1 DEF Install, Unmoved
  <2>3. /\ IF tx.replay
             THEN /\ blocked' = (blocked /\ Outstanding # [u \in Users |-> NoDenial])
                  /\ Settles(~tx.aborted)
             ELSE Goto("finish") /\ UNCHANGED <<blocked, req>>
    BY <1>4 DEF Install
  <2>4. /\ disk = c /\ marker = tx.journal
        /\ \A u \in Users : Marked(marker, u) => ~c.subj[u].on
    BY <1>1, <1>2, <2>1 DEF IInv, TransactionIsSound
  <2>5. \A u \in Users : Off(u) <=> Off(u)' BY <1>1 DEF Off, Marked, NoMark
  <2>6. \A u \in Users : Off(u) => ~c.subj[u].on BY <2>4 DEF Off
  <2>7. \A u \in Users : /\ denials'[u] \in {denials[u], NoDenial}
                         /\ denials'[u] # denials[u] => ~c.subj[u].on
    BY <2>1, <2>2 DEF Outstanding, Covered
  <2>8. /\ tx' \in Transaction /\ req' \in [Requests -> Requested] /\ blocked' \in BOOLEAN /\ Keeps
        /\ \A r \in Requests : Stays(r)
        /\ tx.replay => tx' = Idle
    <3>1. CASE tx.replay
      <4>1. PICK ok \in BOOLEAN : ok = ~tx.aborted OBVIOUS
      <4>2. Settles(ok) BY <2>3, <3>1, <4>1
      <4>3. tx' = Idle /\ req' \in [Requests -> Requested] /\ Keeps /\ \A r \in Requests : Stays(r)
        BY <1>2, <4>2, SettlesIs
      <4>4. blocked' \in BOOLEAN BY <2>3, <3>1
      <4> QED BY <4>3, <4>4, StartIs
    <3>2. CASE ~tx.replay
      <4>1. "finish" \in {"deny"} \cup Publishing BY DEF Publishing
      <4>2. tx' \in Transaction BY <1>2, <2>3, <3>2, <4>1, GotoIs
      <4>3. Keeps /\ \A r \in Requests : Stays(r) BY <2>3, <3>2, NobodyAsks
      <4> QED BY <1>2, <2>3, <3>2, <4>2, <4>3 DEF Types
    <3> QED BY <3>1, <3>2
  <2>9. denials' \in [Users -> Marks]
    <3>1. \A u \in Users : (IF Covered(u) THEN NoDenial ELSE denials[u]) \in Marks
      BY <1>2, MarkIsNot DEF NoDenial
    <3>2. denials' = [u \in Users |-> IF Covered(u) THEN NoDenial ELSE denials[u]] BY <2>2 DEF Outstanding
    <3> QED BY <3>1, <3>2
  <2>10. Types'
    <3>1. publication' \in [known : BOOLEAN, doc : Documents, base : Documents, id : Documents]
      BY <2>2, StartIs
    <3> QED BY <1>1, <1>2, <2>1, <2>2, <2>8, <2>9, <3>1 DEF Types
  <2>11. \A u \in withdrawn : denials'[u] # NoDenial \/ Off(u)
    <3> SUFFICES ASSUME NEW u \in withdrawn, denials'[u] = NoDenial PROVE Off(u) OBVIOUS
    <3>1. u \in Users /\ (denials[u] # NoDenial \/ Off(u)) BY <1>2 DEF World, WithdrawalsAreKept
    <3>2. CASE denials'[u] = denials[u] BY <3>1, <3>2
    <3>3. CASE denials'[u] # denials[u] BY <2>4, <2>7, <3>1, <3>3 DEF Off
    <3> QED BY <3>2, <3>3
  <2>12. WithdrawalsAreKept'
    <3>1. \A u \in withdrawn' : denials'[u] # NoDenial \/ Off(u)' BY <1>1, <1>2, <2>5, <2>11
    <3>2. \A u \in withdrawn' \cap secured' : Off(u)'
      BY <1>1, <1>2, <2>5 DEF World, WithdrawalsAreKept
    <3>3. (\E n \in Nat : Covers(n, marker))' BY <1>1 DEF IInv, WithdrawalsAreKept, Covers
    <3> QED BY <3>1, <3>2, <3>3 DEF WithdrawalsAreKept, NoDenial, NoMark
  <2>13. MemoryIsFenced'
    <3>1. Below(live', base') /\ live'.epoch >= base'.epoch BY <1>2, <2>1, <2>2 DEF Below
    <3>2. \A u \in Users : denials[u] # NoDenial => blocked BY DEF IInv, MemoryIsFenced
    <3>3. \A u \in Users : denials'[u] # NoDenial => blocked'
      <4> SUFFICES ASSUME NEW u \in Users, denials'[u] # NoDenial PROVE blocked' OBVIOUS
      <4>1. blocked BY <2>7, <3>2
      <4>2. CASE tx.replay
        <5>1. Outstanding # [v \in Users |-> NoDenial] BY <2>2
        <5> QED BY <2>3, <4>1, <4>2, <5>1
      <4>3. CASE ~tx.replay BY <2>3, <4>1, <4>3
      <4> QED BY <4>2, <4>3
    <3>4. ~blocked' => \A u \in withdrawn : ~c.subj[u].on
      <4> SUFFICES ASSUME ~blocked', NEW u \in withdrawn PROVE ~c.subj[u].on OBVIOUS
      <4>1. u \in Users BY <1>2
      <4>2. denials'[u] = NoDenial BY <3>3, <4>1
      <4> QED BY <2>6, <2>11, <4>1, <4>2
    <3> QED BY <1>1, <1>2, <2>2, <3>1, <3>3, <3>4 DEF MemoryIsFenced, Below, NoDenial, NoMark
  <2>14. \A r \in Requests : RequestIsDated(r)'
    <3>1. KeptGrows BY <1>1 DEF KeptGrows, Kept
    <3>2. live'.epoch >= live.epoch BY <2>2
    <3> QED BY <1>2, <2>8, <2>10, <3>1, <3>2, RequestStays DEF World
  <2>15. Dated(live)' /\ Dated(disk)' /\ JournalDated(marker)'
    <3>1. PICK m : m = marker OBVIOUS
    <3>2. Dated(c)' /\ JournalDated(m)' BY <2>1, <2>8, <3>1, DatedStays DEF IInv, EverythingIsDated
    <3>3. c = live' /\ c = disk' /\ m = marker' BY <1>1, <2>2, <2>4, <3>1
    <3> QED BY <3>2, <3>3 DEF Dated, JournalDated
  <2>16. World' BY <2>12, <2>13, <2>14, <2>15 DEF World
  <2>17. \/ tx' = Idle
         \/ /\ TransactionIsSound' /\ ActivationIsSound'
            /\ Dated(tx.cand)' /\ JournalDated(tx.journal)' /\ MarkDated(tx.mark)'
    <3>1. CASE tx.replay BY <2>8, <3>1
    <3>2. CASE ~tx.replay
      <4>1. "finish" \in Publishing BY DEF Publishing
      <4>2. Goto("finish") /\ UNCHANGED req BY <2>3, <3>2
      <4>3. base' = tx.cand /\ disk' = tx.cand BY <1>1, <2>1, <2>2, <2>4
      <4> QED BY <1>1, <1>2, <3>2, <4>1, <4>2, <4>3, GoesOn
    <3> QED BY <3>1, <3>2
  <2> QED BY <1>1, <1>2, <2>8, <2>10, <2>16, <2>17, TransactionMoves
<1> QED BY <1>3, <1>4

\* The barrier opens only with the journal empty and no fence left.
LEMMA FinishKeeps ==
  ASSUME IInv, Finish
  PROVE  IInv'
<1>1. /\ tx.at = "finish" /\ Settles(TRUE)
      /\ blocked' = (blocked /\ ~(IsEmpty(tx.journal) /\ NoDenials /\ live.epoch = tx.cand.epoch))
      /\ UNCHANGED <<live, base, denials, publication, files, disk, marker, boot, snap, withdrawn, secured>>
  BY DEF Finish, files
<1>2. /\ Types /\ World /\ tx.at # "idle" /\ tx.at \in Publishing /\ tx.at \in Written /\ boot = "up"
      /\ tx.journal \in Journals /\ withdrawn \subseteq Users
  <2>1. tx.at # "idle" BY <1>1
  <2> QED BY <1>1, <2>1, TransactionIs DEF IInv, World, EverythingIsDated, Publishing, Written, Types
<1>3. tx' = Idle /\ req' \in [Requests -> Requested] /\ Keeps /\ \A r \in Requests : Stays(r)
  BY <1>1, <1>2, SettlesIs
<1>4. blocked' \in BOOLEAN BY <1>1
<1>5. Types' BY <1>1, <1>2, <1>3, <1>4, StartIs DEF Types
<1>6. MemoryIsFenced'
  <2>1. ASSUME NoDenials, IsEmpty(tx.journal), NEW u \in withdrawn PROVE ~live.subj[u].on
    <3>1. u \in Users /\ denials[u] = NoDenial BY <1>2, <2>1 DEF NoDenials
    <3>2. Off(u) BY <3>1, <2>1 DEF IInv, WithdrawalsAreKept
    <3>3. marker = tx.journal /\ disk = tx.cand /\ base = tx.cand
      BY <1>1, <1>2 DEF IInv, TransactionIsSound
    <3>4. ~Marked(marker, u) BY <1>2, <2>1, <3>1, <3>3, EmptyIs
    <3>5. ~base.subj[u].on BY <3>2, <3>3, <3>4 DEF Off
    <3> QED BY <3>1, <3>5 DEF IInv, MemoryIsFenced, Below
  <2>2. \A u \in Users : denials[u] # NoDenial => blocked' BY <1>1 DEF IInv, MemoryIsFenced, NoDenials
  <2>3. ~blocked' => \A u \in withdrawn : ~live.subj[u].on
    BY <1>1, <1>2, <2>1 DEF IInv, MemoryIsFenced
  <2> QED BY <1>1, <1>2, <2>2, <2>3 DEF IInv, MemoryIsFenced, Below, NoDenial, NoMark
<1>7. World' BY <1>1, <1>2, <1>3, <1>5, <1>6, WorldRests
<1> QED BY <1>1, <1>2, <1>3, <1>5, <1>7, TransactionMoves

-----------------------------------------------------------------------------
(* The memory service and the ordinary writer                              *)

\* Memory moves ahead of the files while no transaction is under way.
LEMMA EditKeeps ==
  ASSUME IInv, boot = "up", tx.at = "idle", NEW u \in Users,
         req' = [q \in Requests |-> Overtaken(q, u)],
         live' \in Documents, live'.epoch > live.epoch, Below(live', live), Forgets(live', live),
         UNCHANGED <<base, blocked, denials, publication, files, boot, tx, snap, withdrawn, secured>>
  PROVE  IInv'
<1>1. /\ Types /\ live \in Documents /\ live.epoch \in Nat /\ base.epoch \in Nat /\ live'.epoch \in Nat
      /\ UNCHANGED <<disk, marker>>
  <2>1. live'.epoch \in Nat BY DocumentIs
  <2> QED BY <2>1, FilesAre DEF IInv, Types, files
<1>2. /\ req' \in [Requests -> Requested]
      /\ \A q \in Requests :
           /\ req'[q].at = req[q].at /\ req'[q].user = req[q].user /\ req'[q].kind = req[q].kind
           /\ req'[q].stamp = req[q].stamp /\ req'[q].allowed = req[q].allowed
  <2>1. \A q \in Requests :
          LET o == Overtaken(q, u)
          IN  /\ o \in Requested /\ o.at = req[q].at /\ o.user = req[q].user /\ o.kind = req[q].kind
              /\ o.stamp = req[q].stamp /\ o.allowed = req[q].allowed
    BY <1>1, OvertakenIs
  <2>2. req' = [q \in Requests |-> req'[q]] OBVIOUS
  <2>3. \A q \in Requests : req'[q] = Overtaken(q, u) OBVIOUS
  <2> QED BY <2>1, <2>2, <2>3
<1>3. Types' BY <1>1, <1>2 DEF Types
<1>4. Keeps /\ \A r \in Requests : Stays(r)
  <2>1. Keeps BY <1>2 DEF Keeps
  <2>2. \A r \in Requests : Stays(r) BY <1>2 DEF Stays, Lasts, Active
  <2> QED BY <2>1, <2>2
<1>5. WithdrawalsAreKept'
  BY <1>1 DEF IInv, WithdrawalsAreKept, Off, Marked, Covers, NoDenial, NoMark
<1>6. MemoryIsFenced'
  <2>1. Below(live', base') BY DEF IInv, MemoryIsFenced, Below
  <2>2. live'.epoch >= base'.epoch
    <3>1. live.epoch >= base.epoch BY DEF IInv, MemoryIsFenced
    <3> QED BY <1>1, <3>1
  <2>3. ~blocked => \A v \in withdrawn : ~live'.subj[v].on
    BY <1>1 DEF IInv, MemoryIsFenced, Below, Types
  <2> QED BY <2>1, <2>2, <2>3 DEF IInv, MemoryIsFenced, Below, NoDenial, NoMark
<1>7. RecoveryIsFirst' BY DEF RecoveryIsFirst
<1>8. SnapshotIsBehind'
  <2>1. Idle' = Idle BY DEF Idle, Document, Subject, EmptyMarker, NoMark
  <2>2. snap.doc.epoch \in Nat
    <3>1. snap.doc \in Documents BY <1>1 DEF Types
    <3> QED BY <3>1, DocumentIs
  <2>3. snap.held => live'.epoch >= snap.doc.epoch BY <1>1, <2>2 DEF IInv, SnapshotIsBehind
  <2> QED BY <2>1, <2>3 DEF IInv, SnapshotIsBehind, Below
<1>9. EverythingIsDated'
  <2>1. PICK l : l = live' OBVIOUS
  <2>2. Dated(l) BY <1>1, <2>1, DatedGrows DEF IInv, EverythingIsDated
  <2>3. PICK d, s, c, m, j, w : /\ d = disk /\ s = snap.doc /\ c = tx.cand
                                /\ m = marker /\ j = tx.journal /\ w = tx.mark
    OBVIOUS
  <2>4. /\ Dated(l)' /\ Dated(d)' /\ Dated(s)' /\ Dated(c)'
        /\ JournalDated(m)' /\ JournalDated(j)' /\ MarkDated(w)'
    BY <1>4, <2>2, <2>3, DatedStays DEF IInv, EverythingIsDated
  <2>5. /\ d = disk' /\ s = snap'.doc /\ c = tx'.cand /\ m = marker' /\ j = tx'.journal /\ w = tx'.mark
    BY <1>1, <2>3
  <2>6. Dated(live)' /\ Dated(disk)' BY ONLY <2>1, <2>4, <2>5 DEF Dated
  <2>7. Dated(snap.doc)' /\ Dated(tx.cand)' BY ONLY <2>1, <2>4, <2>5 DEF Dated
  <2>8. JournalDated(marker)' /\ JournalDated(tx.journal)' /\ MarkDated(tx.mark)'
    BY ONLY <2>1, <2>4, <2>5 DEF JournalDated, MarkDated
  <2> QED BY ONLY <2>6, <2>7, <2>8 DEF EverythingIsDated
<1>10. \A r \in Requests : RequestIsDated(r)'
  <2>1. KeptGrows BY <1>1 DEF KeptGrows, Kept
  <2> QED BY <1>1, <1>3, <1>4, <2>1, RequestStays DEF IInv
<1>11. TransactionIsSound'
  <2>1. tx.at = "idle" /\ ~tx.replay /\ \E n \in Nat : Covers(n, tx.journal)
    BY DEF IInv, TransactionIsSound, Publishing
  <2>2. tx'.at = "idle" /\ ~tx'.replay /\ (\E n \in Nat : Covers(n, tx.journal))' BY <2>1 DEF Covers
  <2> QED BY <2>2 DEF TransactionIsSound, Publishing, Written
<1>12. ActivationIsSound' BY DEF ActivationIsSound
<1> QED BY <1>3, <1>5, <1>6, <1>7, <1>8, <1>9, <1>10, <1>11, <1>12 DEF IInv

\* The memory service stores or drops a fact: nobody's choice moves with it.
LEMMA FactsKeep ==
  ASSUME IInv, NEW u \in Users, Learn(u) \/ Unlearn(u)
  PROVE  IInv'
<1>1. Types /\ live \in Documents /\ live.epoch \in Nat BY FilesAre DEF IInv, Types
<1>2. PICK d : d = Invalidated(live, u) OBVIOUS
<1>3. /\ d \in Documents /\ d.epoch = live.epoch + 1
      /\ \A v \in Users : d.subj[v].on = live.subj[v].on /\ d.subj[v].out = live.subj[v].out
  BY <1>1, <1>2, InvalidatedIs
<1>4. d.subj \in [Users -> Subjects] /\ d.epoch \in Nat /\ d.facts \in SUBSET Users BY <1>3, DocumentIs
<1>5. PICK f, T, k : d = [facts |-> f, subj |-> T, epoch |-> k] BY <1>3, DocumentIs
<1>6. CASE Learn(u)
  <2>1. PICK g \in SUBSET Users : g = f \cup {u} BY <1>4, <1>5
  <2>2. live' = [d EXCEPT !.facts = @ \cup {u}] BY <1>2, <1>6 DEF Learn
  <2>3. live' = [facts |-> g, subj |-> T, epoch |-> k] BY <1>5, <2>1, <2>2
  <2>4. live' \in Documents /\ live'.subj = d.subj /\ live'.epoch = d.epoch
    BY <1>4, <1>5, <2>3 DEF Documents
  <2>5. Below(live', live) /\ Forgets(live', live) BY <1>3, <2>4 DEF Below, Forgets
  <2>6. live'.epoch > live.epoch BY <1>1, <1>3, <2>4
  <2> QED BY <1>6, <2>4, <2>5, <2>6, EditKeeps DEF Learn, Overtakes
<1>7. CASE Unlearn(u)
  <2>1. PICK g \in SUBSET Users : g = f \ {u} BY <1>4, <1>5
  <2>2. PICK s : s = [T[u] EXCEPT !.proof = FALSE] OBVIOUS
  <2>3. T \in [Users -> Subjects] /\ T[u] \in Subjects BY <1>4, <1>5
  <2>4. s \in Subjects /\ s.on = T[u].on /\ s.out = T[u].out
    <3>1. PICK t \in Subjects : t = T[u] BY <2>3
    <3>2. s = [t EXCEPT !.proof = FALSE] BY <2>2, <3>1
    <3> QED BY <3>1, <3>2 DEF Subjects
  <2>5. PICK forgot : forgot = [d EXCEPT !.facts = @ \ {u}, !.subj[u].proof = FALSE] OBVIOUS
  <2>6. PICK S \in [Users -> Subjects] : S = [T EXCEPT ![u] = s] BY <2>3, <2>4
  <2>7. forgot = [facts |-> g, subj |-> S, epoch |-> k] BY <1>5, <2>1, <2>2, <2>5, <2>6
  <2>8. forgot \in Documents /\ forgot.subj = S /\ forgot.epoch = d.epoch
    BY <1>4, <1>5, <2>7 DEF Documents
  <2>9. \A v \in Users : S[v] = IF v = u THEN s ELSE T[v] BY <2>3, <2>6
  <2>10. \A v \in Users : forgot.subj[v].on = live.subj[v].on /\ forgot.subj[v].out = live.subj[v].out
    BY <1>3, <1>5, <2>4, <2>8, <2>9
  <2>11. live' \in {forgot, Invalidated(forgot, u)} BY <1>2, <1>7, <2>5 DEF Unlearn
  <2>12. /\ live' \in Documents /\ live'.epoch \in {d.epoch, d.epoch + 1}
         /\ \A v \in Users : live'.subj[v].on = live.subj[v].on /\ live'.subj[v].out = live.subj[v].out
    <3>1. CASE live' = forgot BY <2>8, <2>10, <3>1
    <3>2. CASE live' = Invalidated(forgot, u) BY <2>8, <2>10, <3>2, InvalidatedIs
    <3> QED BY <2>11, <3>1, <3>2
  <2>13. Below(live', live) /\ Forgets(live', live) BY <2>12 DEF Below, Forgets
  <2>14. live'.epoch > live.epoch BY <1>1, <1>3, <1>4, <2>12
  <2> QED BY <1>7, <2>12, <2>13, <2>14, EditKeeps DEF Unlearn, Overtakes
<1> QED BY <1>6, <1>7

\* A step of the ordinary snapshot keeps the invariant if it keeps the parts that matter.
LEMMA SnapshotMoves ==
  ASSUME IInv, boot = "up", tx.at = "idle",
         UNCHANGED <<live, blocked, denials, publication, marker, boot, req, tx, withdrawn, secured>>,
         snap' \in [held : BOOLEAN, doc : Documents, base : Documents],
         disk' \in Documents, base' \in Documents, disk'.epoch >= disk.epoch,
         \A u \in Users : Off(u) => Off(u)',
         MemoryIsFenced', SnapshotIsBehind', Dated(disk'), Dated(snap'.doc)
  PROVE  IInv'
<1>1. Types /\ Types' BY DEF IInv, Types
<1>2. Keeps /\ \A r \in Requests : Stays(r) BY DEF Keeps, Stays, Lasts
<1>3. KeptGrows
  <2>1. \A u \in Users : /\ marker.off[u].epoch <= marker'.off[u].epoch
                         /\ marker.on[u].epoch <= marker'.on[u].epoch
    BY <1>1, FilesAre
  <2> QED BY <1>1, <2>1, KeptIs
<1>4. \A r \in Requests : RequestIsDated(r)'
  <2>1. live'.epoch >= live.epoch BY <1>1, FilesAre
  <2> QED BY <1>1, <1>2, <1>3, <2>1, RequestStays DEF IInv
<1>5. WithdrawalsAreKept'
  <2>1. \A u \in withdrawn' : denials'[u] # NoDenial \/ Off(u)'
    BY <1>1 DEF IInv, WithdrawalsAreKept, Types
  <2>2. \A u \in withdrawn' \cap secured' : Off(u)' BY <1>1 DEF IInv, WithdrawalsAreKept, Types
  <2>3. (\E n \in Nat : Covers(n, marker))' BY DEF IInv, WithdrawalsAreKept, Covers
  <2> QED BY <2>1, <2>2, <2>3 DEF WithdrawalsAreKept, NoDenial, NoMark
<1>6. RecoveryIsFirst' BY DEF RecoveryIsFirst
<1>7. EverythingIsDated'
  <2>1. PICK l, d, s, c, m, j, w : /\ l = live /\ d = disk' /\ s = snap'.doc /\ c = tx.cand
                                   /\ m = marker /\ j = tx.journal /\ w = tx.mark
    OBVIOUS
  <2>2. /\ Dated(l)' /\ Dated(d)' /\ Dated(s)' /\ Dated(c)'
        /\ JournalDated(m)' /\ JournalDated(j)' /\ MarkDated(w)'
    BY <1>2, <2>1, DatedStays DEF IInv, EverythingIsDated
  <2>3. /\ l = live' /\ c = tx'.cand /\ m = marker' /\ j = tx'.journal /\ w = tx'.mark
    BY <2>1
  <2> QED BY <2>1, <2>2, <2>3 DEF EverythingIsDated, Dated, JournalDated, MarkDated
<1>8. TransactionIsSound'
  <2>1. tx.at = "idle" /\ ~tx.replay /\ \E n \in Nat : Covers(n, tx.journal)
    BY DEF IInv, TransactionIsSound, Publishing
  <2>2. tx'.at = "idle" /\ ~tx'.replay /\ (\E n \in Nat : Covers(n, tx.journal))' BY <2>1 DEF Covers
  <2> QED BY <2>2 DEF TransactionIsSound, Publishing, Written
<1>9. ActivationIsSound' BY DEF ActivationIsSound
<1> QED BY <1>1, <1>4, <1>5, <1>6, <1>7, <1>8, <1>9 DEF IInv

\* A snapshot is taken.
LEMMA TakeSnapshotKeeps ==
  ASSUME IInv, TakeSnapshot
  PROVE  IInv'
<1>1. /\ boot = "up" /\ tx.at = "idle" /\ snap' = [held |-> TRUE, doc |-> live, base |-> base]
      /\ UNCHANGED <<live, base, blocked, denials, publication, disk, marker, boot, req, tx, withdrawn, secured>>
  BY DEF TakeSnapshot, Free, memory, files, history
<1>2. /\ Types /\ live \in Documents /\ base \in Documents /\ disk \in Documents
      /\ live.epoch \in Nat /\ base.epoch \in Nat /\ disk.epoch \in Nat
  BY FilesAre DEF IInv, Types
<1>3. snap' \in [held : BOOLEAN, doc : Documents, base : Documents] BY <1>1, <1>2
<1>4. \A u \in Users : Off(u) => Off(u)' BY <1>1 DEF Off, Marked, NoMark
<1>5. MemoryIsFenced' BY <1>1 DEF IInv, MemoryIsFenced, Below, NoDenial, NoMark
<1>6. SnapshotIsBehind'
  <2>1. snap'.doc = live /\ snap'.base = base BY <1>1
  <2>2. Below(live', snap'.doc) /\ Below(snap'.doc, snap'.base)
    BY <1>1, <2>1 DEF IInv, MemoryIsFenced, Below
  <2>3. live'.epoch >= snap'.doc.epoch /\ snap'.doc.epoch >= snap'.base.epoch
    BY <1>1, <1>2, <2>1 DEF IInv, MemoryIsFenced
  <2> QED BY <1>1, <2>2, <2>3 DEF SnapshotIsBehind, Below
<1>7. Dated(disk') /\ Dated(snap'.doc)
  <2>1. disk' = disk /\ snap'.doc = live BY <1>1
  <2> QED BY <2>1 DEF IInv, EverythingIsDated
<1>8. disk'.epoch >= disk.epoch /\ disk' \in Documents /\ base' \in Documents BY <1>1, <1>2
<1> QED BY <1>1, <1>3, <1>4, <1>5, <1>6, <1>7, <1>8, SnapshotMoves

\* A snapshot is written, given up, or fails before or after the file was replaced.
LEMMA SnapshotKeeps ==
  ASSUME IInv, WriteSnapshot \/ SnapshotFails
  PROVE  IInv'
<1>1. /\ snap.held /\ snap' = NoSnapshot
      /\ UNCHANGED <<live, blocked, denials, publication, marker, boot, req, tx, withdrawn, secured>>
      /\ \/ UNCHANGED <<disk, base>>
         \/ Writable /\ disk' = snap.doc /\ base' \in {base, snap.doc}
  BY DEF WriteSnapshot, SnapshotFails, memory, files, history
<1>2. /\ Types /\ snap.doc \in Documents /\ snap.base \in Documents /\ disk \in Documents
      /\ base \in Documents /\ marker \in Journals /\ boot = "up" /\ tx.at = "idle"
      /\ Below(live, snap.doc) /\ Below(snap.doc, snap.base)
      /\ live.epoch >= snap.doc.epoch /\ snap.doc.epoch >= snap.base.epoch
  BY <1>1 DEF IInv, Types, SnapshotIsBehind
<1>3. snap' \in [held : BOOLEAN, doc : Documents, base : Documents] BY <1>1, StartIs
<1>4. SnapshotIsBehind' BY <1>1 DEF SnapshotIsBehind, NoSnapshot
<1>5. Dated(snap'.doc) BY <1>1, StartIs DEF NoSnapshot
<1>6. CASE UNCHANGED <<disk, base>>
  <2>1. \A u \in Users : Off(u) => Off(u)' BY <1>1, <1>6 DEF Off, Marked, NoMark
  <2>2. MemoryIsFenced' BY <1>1, <1>6 DEF IInv, MemoryIsFenced, Below, NoDenial, NoMark
  <2>3. disk'.epoch >= disk.epoch BY <1>2, <1>6, FilesAre
  <2>4. Dated(disk') BY <1>6 DEF IInv, EverythingIsDated
  <2>5. disk' \in Documents /\ base' \in Documents BY <1>2, <1>6
  <2> QED BY <1>1, <1>2, <1>3, <1>4, <1>5, <2>1, <2>2, <2>3, <2>4, <2>5, SnapshotMoves
<1>7. CASE Writable /\ disk' = snap.doc /\ base' \in {base, snap.doc}
  <2>1. snap.base = disk /\ \A u \in Users : ~Marked(marker, u) BY <1>2, <1>7, EmptyIs DEF Writable
  <2>2. \A u \in Users : Off(u) => Off(u)'
    <3> SUFFICES ASSUME NEW u \in Users, Off(u) PROVE Off(u)' OBVIOUS
    <3>1. ~disk.subj[u].on BY <2>1 DEF Off
    <3>2. ~disk'.subj[u].on BY <1>2, <1>7, <2>1, <3>1 DEF Below
    <3> QED BY <3>2 DEF Off
  <2>3. MemoryIsFenced'
    <3>1. Below(live', base') /\ live'.epoch >= base'.epoch
      BY <1>1, <1>2, <1>7 DEF IInv, MemoryIsFenced, Below
    <3> QED BY <1>1, <3>1 DEF IInv, MemoryIsFenced, Below, NoDenial, NoMark
  <2>4. disk'.epoch >= disk.epoch BY <1>2, <1>7, <2>1
  <2>5. Dated(disk') BY <1>7 DEF IInv, EverythingIsDated
  <2>6. disk' \in Documents /\ base' \in Documents BY <1>2, <1>7
  <2> QED BY <1>1, <1>2, <1>3, <1>4, <1>5, <2>2, <2>3, <2>4, <2>5, <2>6, SnapshotMoves
<1> QED BY <1>1, <1>6, <1>7

-----------------------------------------------------------------------------
(* The process dies and starts again                                       *)

\* The files know of a request only at a later epoch than it was asked at.
LEMMA KnownIsDated ==
  ASSUME IInv, NEW r \in Requests, req[r].at # "new", req[r].kind = "on", Known(r)
  PROVE  Kept(req[r].stamp[2])
<1>1. Types /\ Member(r) \in Users /\ Dated(disk) /\ JournalDated(marker)
  BY DEF IInv, RequestIsDated, Member, EverythingIsDated
<1>2. PICK u \in Users : u = Member(r) BY <1>1
<1>3. CASE disk.subj[u].out[r] # "none" BY <1>1, <1>3 DEF Dated, Past, Kept
<1>4. CASE marker.off[u].by = r BY <1>1, <1>4 DEF JournalDated, MarkDated, Past, Kept
<1>5. CASE marker.on[u].by = r BY <1>1, <1>5 DEF JournalDated, MarkDated, Past, Kept
<1> QED BY <1>2, <1>3, <1>4, <1>5 DEF Known

\* Memory is lost, and with it every withdrawal that the files do not hold.
LEMMA CrashKeeps ==
  ASSUME IInv, Crash
  PROVE  IInv'
<1>1. /\ boot' = "write" /\ live' = disk /\ base' = disk /\ blocked' = TRUE
      /\ denials' = [u \in Users |-> NoDenial] /\ publication' = NoPublication
      /\ tx' = Idle /\ snap' = NoSnapshot /\ withdrawn' = withdrawn \cap secured
      /\ UNCHANGED <<disk, marker, secured>>
  BY DEF Crash, files
<1>2. /\ Types /\ disk \in Documents /\ disk.epoch \in Nat /\ marker \in Journals
      /\ req \in [Requests -> Requested] /\ withdrawn \subseteq Users
  BY FilesAre DEF IInv, Types
<1>3. \A r \in Requests :
        /\ req'[r] \in Requested /\ req'[r].user = req[r].user /\ req'[r].kind = req[r].kind
        /\ req'[r].stamp = req[r].stamp /\ req'[r].allowed = req[r].allowed
        /\ req[r].at = "new" <=> req'[r].at = "new"
        /\ req'[r].at \in Active => Known(r)
  <2> SUFFICES ASSUME NEW r \in Requests
               PROVE  /\ req'[r] \in Requested /\ req'[r].user = req[r].user /\ req'[r].kind = req[r].kind
                      /\ req'[r].stamp = req[r].stamp /\ req'[r].allowed = req[r].allowed
                      /\ req[r].at = "new" <=> req'[r].at = "new"
                      /\ req'[r].at \in Active => Known(r)
    OBVIOUS
  <2>1. req[r] \in Requested BY <1>2
  <2>2. CASE req[r].at \in {"new", "ok"}
    <3>1. req'[r] = req[r] BY <2>2 DEF Crash
    <3> QED BY <2>1, <2>2, <3>1 DEF Active
  <2>3. CASE req[r].at \notin {"new", "ok"}
    <3>1. PICK at \in {"refused", "lost"} : at = IF Known(r) THEN "refused" ELSE "lost" OBVIOUS
    <3>2. req'[r] = [req[r] EXCEPT !.at = at] BY <2>3, <3>1 DEF Crash
    <3>3. /\ req'[r] \in Requested /\ req'[r].at = at /\ req'[r].user = req[r].user
          /\ req'[r].kind = req[r].kind /\ req'[r].stamp = req[r].stamp
          /\ req'[r].allowed = req[r].allowed
      BY <2>1, <3>2 DEF Requested
    <3> QED BY <2>3, <3>1, <3>3 DEF Active
  <2> QED BY <2>2, <2>3
<1>4. req' \in [Requests -> Requested]
  <2>1. req' = [r \in Requests |-> req'[r]] BY DEF Crash
  <2> QED BY <1>3, <2>1
<1>5. Types'
  <2>1. denials' \in [Users -> Marks] BY <1>1, MarkIsNot DEF NoDenial
  <2>2. /\ publication' \in [known : BOOLEAN, doc : Documents, base : Documents, id : Documents]
        /\ snap' \in [held : BOOLEAN, doc : Documents, base : Documents] /\ tx' \in Transaction
    BY <1>1, StartIs
  <2> QED BY <1>1, <1>2, <1>4, <2>1, <2>2 DEF Types
<1>6. Keeps BY <1>3 DEF Keeps
<1>7. WithdrawalsAreKept'
  <2>1. \A u \in withdrawn' : Off(u)' BY <1>1, <1>2 DEF IInv, WithdrawalsAreKept, Off, Marked, NoMark
  <2>2. (\E n \in Nat : Covers(n, marker))' BY <1>1 DEF IInv, WithdrawalsAreKept, Covers
  <2> QED BY <2>1, <2>2 DEF WithdrawalsAreKept
<1>8. MemoryIsFenced'
  <2>1. Below(live', base') /\ live'.epoch >= base'.epoch BY <1>1, <1>2 DEF Below
  <2>2. \A u \in Users : denials'[u] = NoDenial' BY <1>1 DEF NoDenial, NoMark
  <2> QED BY <1>1, <2>1, <2>2 DEF MemoryIsFenced, Below
<1>9. RecoveryIsFirst'
  <2>1. Idle' = Idle BY DEF Idle, Document, Subject, EmptyMarker, NoMark
  <2>2. live'.epoch <= disk'.epoch BY <1>1, <1>2
  <2> QED BY <1>1, <2>1, <2>2 DEF RecoveryIsFirst, NoSnapshot
<1>10. SnapshotIsBehind' BY <1>1 DEF SnapshotIsBehind, NoSnapshot
<1>11. TransactionIsSound' /\ ActivationIsSound' /\ Dated(tx.cand)' /\ JournalDated(tx.journal)' /\ MarkDated(tx.mark)'
  <2>1. tx' = Idle' BY <1>1 DEF Idle, Document, Subject, EmptyMarker, NoMark
  <2>2. ( tx = Idle => /\ TransactionIsSound /\ ActivationIsSound
                       /\ Dated(tx.cand) /\ JournalDated(tx.journal) /\ MarkDated(tx.mark) )'
    BY NothingIsUnderWay, PTL
  <2> QED BY <2>1, <2>2
<1>12. EverythingIsDated'
  <2>1. PICK d, s, m : d = disk /\ s = Document({}) /\ m = marker OBVIOUS
  <2>2. Dated(d)' /\ Dated(s)' /\ JournalDated(m)'
    BY <1>6, <2>1, StartIs, DatedStays DEF IInv, EverythingIsDated
  <2>3. d = live' /\ d = disk' /\ s = snap'.doc /\ m = marker' BY <1>1, <2>1 DEF NoSnapshot
  <2> QED BY <1>11, <2>2, <2>3 DEF EverythingIsDated, Dated, JournalDated
<1>13. \A r \in Requests : RequestIsDated(r)'
  <2> SUFFICES ASSUME NEW r \in Requests PROVE RequestIsDated(r)' OBVIOUS
  <2>1. req'[r].at # "new" => /\ req'[r].user \in Users
                              /\ req'[r].kind = "on" => req'[r].allowed = req'[r].stamp
    BY <1>3 DEF IInv, RequestIsDated
  <2>2. ASSUME req'[r].kind = "on", req'[r].at \in {"asked", "queued", "running", "refused"}
        PROVE  Kept(req[r].stamp[2])'
    <3>1. req[r].at # "new" /\ req[r].kind = "on" /\ Known(r) /\ req'[r].stamp = req[r].stamp
      BY <1>3, <2>2 DEF Active
    <3>2. Kept(req[r].stamp[2]) BY <3>1, KnownIsDated
    <3> QED BY <1>1, <3>1, <3>2 DEF Kept
  <2> QED BY <2>1, <2>2 DEF RequestIsDated
<1> QED BY <1>5, <1>7, <1>8, <1>9, <1>10, <1>11, <1>12, <1>13 DEF IInv

\* A step before the process serves keeps the invariant if it keeps the parts that matter.
LEMMA RecoveryMoves ==
  ASSUME IInv, boot # "up", UNCHANGED <<denials, publication, req, tx, snap, withdrawn, secured>>,
         live' \in Documents, base' = live', blocked' \in BOOLEAN, boot' \in {"up", "clear"},
         disk' \in Documents, marker' \in Journals,
         live'.epoch >= live.epoch, disk'.epoch >= disk.epoch,
         \A u \in Users :
           /\ marker.off[u].epoch <= marker'.off[u].epoch \/ marker.off[u].epoch <= disk'.epoch
           /\ marker.on[u].epoch <= marker'.on[u].epoch \/ marker.on[u].epoch <= disk'.epoch,
         \A u \in Users : Off(u) => Off(u)',
         boot' = "up" /\ ~blocked' => \A u \in Users : Off(u) => ~live'.subj[u].on,
         RecoveryIsFirst', \E n \in Nat : Covers(n, marker'),
         Dated(live'), Dated(disk'), JournalDated(marker')
  PROVE  IInv'
<1>1. Types /\ Types' BY DEF IInv, Types
<1>2. tx = Idle /\ ~snap.held /\ \A u \in Users : denials[u] = NoDenial
  BY DEF IInv, RecoveryIsFirst, MemoryIsFenced
<1>3. Keeps /\ \A r \in Requests : Stays(r) BY DEF Keeps, Stays, Lasts
<1>4. \A r \in Requests : RequestIsDated(r)' BY <1>1, <1>3, KeptIs, RequestStays DEF IInv
<1>5. \A u \in withdrawn : u \in Users /\ Off(u) BY <1>1, <1>2 DEF IInv, WithdrawalsAreKept, Types
<1>6. WithdrawalsAreKept'
  <2>1. \A u \in withdrawn' : Off(u)' BY <1>5
  <2>2. (\E n \in Nat : Covers(n, marker))' BY DEF Covers
  <2> QED BY <2>1, <2>2 DEF WithdrawalsAreKept
<1>7. MemoryIsFenced'
  <2>1. Below(live', base') /\ live'.epoch >= base'.epoch
    <3>1. live'.epoch \in Nat BY DocumentIs
    <3> QED BY <3>1 DEF Below
  <2>2. boot' = "up" /\ ~blocked' => \A u \in withdrawn' : ~live'.subj[u].on BY <1>5
  <2>3. \A u \in Users : denials'[u] = NoDenial' BY <1>2 DEF NoDenial, NoMark
  <2> QED BY <2>1, <2>2, <2>3 DEF MemoryIsFenced, Below
<1>8. SnapshotIsBehind' BY <1>2 DEF SnapshotIsBehind
<1>9. TransactionIsSound' /\ ActivationIsSound' /\ Dated(tx.cand)' /\ JournalDated(tx.journal)' /\ MarkDated(tx.mark)'
  <2>1. tx' = Idle' BY <1>2 DEF Idle, Document, Subject, EmptyMarker, NoMark
  <2>2. ( tx = Idle => /\ TransactionIsSound /\ ActivationIsSound
                       /\ Dated(tx.cand) /\ JournalDated(tx.journal) /\ MarkDated(tx.mark) )'
    BY NothingIsUnderWay, PTL
  <2> QED BY <2>1, <2>2
<1>10. EverythingIsDated'
  <2>1. PICK l, d, s, m : l = live' /\ d = disk' /\ s = snap.doc /\ m = marker' OBVIOUS
  <2>2. Dated(l)' /\ Dated(d)' /\ Dated(s)' /\ JournalDated(m)'
    BY <1>3, <2>1, DatedStays DEF IInv, EverythingIsDated
  <2>3. s = snap'.doc BY <2>1
  <2> QED BY <1>9, <2>1, <2>2, <2>3 DEF EverythingIsDated, Dated, JournalDated
<1> QED BY <1>1, <1>4, <1>6, <1>7, <1>8, <1>9, <1>10 DEF IInv

\* The restart writes the repaired document and empties the journal; or it fails.
LEMMA RecoverKeeps ==
  ASSUME IInv, Recover
  PROVE  IInv'
<1>1. /\ boot \in {"write", "clear"}
      /\ UNCHANGED <<denials, publication, req, tx, snap, withdrawn, secured>>
  BY DEF Recover, RecoverDocument, RecoverJournal, RecoveryFails, memory, history
<1>2. /\ Types /\ live \in Documents /\ base \in Documents /\ disk \in Documents /\ marker \in Journals
      /\ live.epoch \in Nat /\ disk.epoch \in Nat
      /\ \A u \in Users : marker.off[u].epoch \in Nat /\ marker.on[u].epoch \in Nat
  BY FilesAre DEF IInv, Types
<1>3. tx = Idle /\ ~snap.held /\ blocked /\ live = base /\ live.epoch <= disk.epoch
  BY <1>1 DEF IInv, RecoveryIsFirst
<1>4. PICK n \in Nat : Covers(n, marker) BY DEF IInv, WithdrawalsAreKept
<1>5. PICK repaired : repaired = Recovered(disk, marker) OBVIOUS
<1>6. /\ repaired \in Documents /\ repaired.epoch >= disk.epoch /\ Covers(repaired.epoch, marker)
      /\ Below(repaired, disk) /\ Forgets(repaired, disk)
      /\ \A u \in Users : Marked(marker, u) => ~repaired.subj[u].on
  BY <1>2, <1>4, <1>5, RecoveredIs
<1>7. repaired.epoch \in Nat BY <1>6, DocumentIs
<1>8. Dated(live) /\ Dated(disk) /\ JournalDated(marker) /\ Dated(repaired)
  BY <1>2, <1>6, DatedGrows DEF IInv, EverythingIsDated
<1>9. Idle' = Idle BY DEF Idle, Document, Subject, EmptyMarker, NoMark
<1>10. CASE boot = "write" /\ UNCHANGED marker
  <2>1. /\ disk' \in {disk, repaired} /\ base' = live' /\ live' \in {live, repaired} /\ blocked' \in BOOLEAN
        /\ boot' \in {"up", "clear"}
        /\ boot' = "clear" => disk' = repaired /\ live' = live /\ blocked'
        /\ ~blocked' => IsEmpty(marker) /\ live' = repaired
    BY <1>1, <1>2, <1>3, <1>5, <1>10
       DEF Recover, RecoverDocument, RecoverJournal, RecoveryFails, Serve, memory, Types
  <2>2. /\ disk' \in Documents /\ live' \in Documents /\ disk'.epoch >= disk.epoch
        /\ live'.epoch >= live.epoch
    BY <1>2, <1>3, <1>6, <1>7, <2>1
  <2>3. \A u \in Users : Off(u) => Off(u)'
    <3> SUFFICES ASSUME NEW u \in Users, Off(u) PROVE Off(u)' OBVIOUS
    <3>1. CASE Marked(marker, u) BY <1>10, <3>1 DEF Off, Marked, NoMark
    <3>2. CASE ~disk.subj[u].on
      <4>1. ~disk'.subj[u].on BY <1>6, <2>1, <3>2 DEF Below
      <4> QED BY <4>1 DEF Off
    <3> QED BY <3>1, <3>2 DEF Off
  <2>4. ~blocked' => \A u \in Users : Off(u) => ~live'.subj[u].on BY <1>6, <2>1 DEF Off, Below
  <2>5. RecoveryIsFirst'
    <3>1. boot' = "clear" => /\ tx' = Idle /\ ~snap'.held /\ blocked' /\ live' = base'
                             /\ live'.epoch <= disk'.epoch
      BY <1>1, <1>2, <1>3, <1>6, <1>7, <2>1
    <3>2. boot' = "clear" => /\ \A u \in Users : Marked(marker, u) => ~disk'.subj[u].on
                             /\ Covers(disk'.epoch, marker)
      BY <1>6, <2>1
    <3> QED BY <1>9, <1>10, <2>1, <3>1, <3>2 DEF RecoveryIsFirst, Marked, Covers, NoMark
  <2>6. \A u \in Users : /\ marker.off[u].epoch <= marker'.off[u].epoch
                         /\ marker.on[u].epoch <= marker'.on[u].epoch
    BY <1>2, <1>10
  <2>7. marker' \in Journals /\ JournalDated(marker') /\ \E k \in Nat : Covers(k, marker')
    BY <1>2, <1>4, <1>8, <1>10
  <2>8. Dated(live') /\ Dated(disk') BY <1>8, <2>1
  <2> QED BY <1>1, <2>1, <2>2, <2>3, <2>4, <2>5, <2>6, <2>7, <2>8, RecoveryMoves
<1>11. CASE boot = "clear" /\ UNCHANGED disk
  <2>1. /\ \A u \in Users : Marked(marker, u) => ~disk.subj[u].on
        /\ Covers(disk.epoch, marker)
    BY <1>11 DEF IInv, RecoveryIsFirst
  <2>2. /\ marker' \in {marker, EmptyMarker} /\ base' = live' /\ live' \in {live, disk}
        /\ blocked' \in BOOLEAN /\ boot' = "up" /\ (~blocked' => live' = disk)
    BY <1>1, <1>2, <1>3, <1>11
       DEF Recover, RecoverDocument, RecoverJournal, RecoveryFails, Serve, memory, Types
  <2>3. \A u \in Users : Off(u) => ~disk.subj[u].on BY <2>1 DEF Off
  <2>4. \A u \in Users : Off(u) => Off(u)'
    <3> SUFFICES ASSUME NEW u \in Users, Off(u) PROVE Off(u)' OBVIOUS
    <3>1. ~disk'.subj[u].on BY <1>11, <2>3
    <3> QED BY <3>1 DEF Off
  <2>5. ~blocked' => \A u \in Users : Off(u) => ~live'.subj[u].on BY <2>2, <2>3
  <2>6. /\ live' \in Documents /\ live'.epoch >= live.epoch /\ disk' \in Documents
        /\ disk'.epoch >= disk.epoch
    BY <1>2, <1>3, <1>11, <2>2
  <2>7. \A u \in Users : marker.off[u].epoch <= disk'.epoch /\ marker.on[u].epoch <= disk'.epoch
    BY <1>11, <2>1 DEF Covers
  <2>8. marker' \in Journals /\ JournalDated(marker') /\ \E k \in Nat : Covers(k, marker')
    BY <1>2, <1>4, <1>8, <2>2, EmptyIs, StartIs
  <2>9. Dated(live') /\ Dated(disk') BY <1>8, <1>11, <2>2
  <2>10. RecoveryIsFirst' BY <2>2 DEF RecoveryIsFirst
  <2> QED BY <1>1, <2>2, <2>4, <2>5, <2>6, <2>7, <2>8, <2>9, <2>10, RecoveryMoves
<1>12. (boot = "write" /\ UNCHANGED marker) \/ (boot = "clear" /\ UNCHANGED disk)
  BY DEF Recover, RecoverDocument, RecoverJournal, RecoveryFails
<1> QED BY <1>10, <1>11, <1>12

-----------------------------------------------------------------------------
(* The theorems                                                            *)

\* A step that fails after the projection was written only fails.
LEMMA ProjectFailsKeeps ==
  ASSUME IInv, ProjectFails
  PROVE  IInv'
<1>1. /\ tx.at = "project" /\ Fails
      /\ UNCHANGED <<live, base, denials, publication, files, boot, snap, withdrawn, secured>>
  BY DEF ProjectFails, history
<1>2. tx.at \in Publishing BY <1>1 DEF Publishing
<1> QED BY <1>1, <1>2, OtherFailureKeeps

\* Nothing happens.
LEMMA StutterKeeps ==
  ASSUME IInv, UNCHANGED vars
  PROVE  IInv'
<1>1. UNCHANGED <<live, base, denials, publication, files, boot, tx, snap, withdrawn, secured, blocked, req>>
  BY DEF vars, memory, history
<1>2. Keeps /\ \A r \in Requests : Stays(r) BY <1>1 DEF Keeps, Stays, Lasts
<1>3. Types' BY <1>1 DEF IInv, Types, files
<1> QED BY <1>1, <1>2, <1>3, OnlyRequests

\* Every step keeps the invariant.
LEMMA StepKeeps == IInv /\ [Next]_vars => IInv'
<1> SUFFICES ASSUME IInv, [Next]_vars PROVE IInv' OBVIOUS
<1>1. ASSUME NEW r \in Requests, Start(r) PROVE IInv'
  <2>1. CASE StartReplay(r) BY <2>1, StartReplayKeeps
  <2>2. CASE StartFresh(r) BY <2>2, StartFreshKeeps
  <2>3. CASE StartMark(r) BY <2>3, StartMarkKeeps
  <2>4. CASE RefuseFresh(r) BY <2>4, AnswersKeep
  <2> QED BY <1>1, <2>1, <2>2, <2>3, <2>4 DEF Start
<1>2. ASSUME NEW r \in Requests,
             \/ \E u \in Users, k \in Kinds : Ask(r, u, k)
             \/ AdmitKnown(r) \/ AdmitOther(r) \/ Retry(r)
      PROVE  IInv'
  BY <1>2, AnswersKeep
<1>3. ASSUME NEW r \in Requests, AdmitWithdrawal(r) PROVE IInv' BY <1>3, WithdrawalKeeps
<1>4. CASE Step
  <2>1. CASE PublishMark BY <2>1, PublishMarkKeeps
  <2>2. CASE PublishMarkOnly \/ MarkFails \/ Deny \/ DenyFails BY <2>2, MarkingKeeps
  <2>3. CASE WriteCandidate BY <2>3, WriteCandidateKeeps
  <2>4. CASE WriteFails BY <2>4, WriteFailsKeeps
  <2>5. CASE Project BY <2>5, ProjectKeeps
  <2>6. CASE ProjectFails BY <2>6, ProjectFailsKeeps
  <2>7. CASE Check BY <2>7, CheckKeeps
  <2>8. CASE Retire BY <2>8, RetireKeeps
  <2>9. CASE RetireFails BY <2>9, RetireFailsKeeps
  <2>10. CASE Install BY <2>10, InstallKeeps
  <2>11. CASE Finish BY <2>11, FinishKeeps
  <2> QED
    BY <1>4, <2>1, <2>2, <2>3, <2>4, <2>5, <2>6, <2>7, <2>8, <2>9, <2>10, <2>11 DEF Step
<1>5. ASSUME NEW u \in Users, Learn(u) \/ Unlearn(u) PROVE IInv' BY <1>5, FactsKeep
<1>6. CASE TakeSnapshot BY <1>6, TakeSnapshotKeeps
<1>7. CASE WriteSnapshot \/ SnapshotFails BY <1>7, SnapshotKeeps
<1>8. ASSUME NEW t \in Turns, Deliver(t) \/ \E u \in Users : Capture(t, u) PROVE IInv'
  BY <1>8, AnswersKeep
<1>9. CASE Crash BY <1>9, CrashKeeps
<1>10. CASE Recover BY <1>10, RecoverKeeps
<1>11. CASE UNCHANGED vars BY <1>11, StutterKeeps
<1> QED BY <1>1, <1>2, <1>3, <1>4, <1>5, <1>6, <1>7, <1>8, <1>9, <1>10, <1>11 DEF Next

\* The invariant holds: through admissions at any moment, transactions that stop
\* between any two files, replays, merges, deaths of the process and failed
\* recoveries (commit_personal_request, ReconciliationState, recover_owned).
THEOREM MemoryIsSound == Spec => []IInv
<1>1. Init => IInv BY InitIsSound
<1>2. IInv /\ [Next]_vars => IInv' BY StepKeeps
<1> QED BY <1>1, <1>2, PTL DEF Spec

\* The variables keep their types.
THEOREM MemoryIsTyped == Spec => []Types
<1>1. IInv => Types BY DEF IInv
<1> QED BY <1>1, MemoryIsSound, PTL

\* WithdrawnIsUnused: a member who has withdrawn and has not asked again since is
\* not used in a reply (personal_memory_blocked, MemoryUsePermitSet::for_subject).
THEOREM WithdrawnHolds == Spec => []WithdrawnIsUnused
<1>1. ASSUME IInv PROVE WithdrawnIsUnused
  <2>1. boot = "up" /\ ~blocked => \A u \in withdrawn : ~live.subj[u].on
    BY <1>1 DEF IInv, MemoryIsFenced
  <2> QED BY <2>1 DEF WithdrawnIsUnused, Usable, Authorizes
<1>2. IInv => WithdrawnIsUnused BY <1>1
<1> QED BY <1>2, MemoryIsSound, PTL

-----------------------------------------------------------------------------
(* Permits end with the context they were captured with                    *)

\* The documents at hand are documents.
LEMMA InHandIs ==
  ASSUME Types
  PROVE  \A d : InHand(d) =>
           d \in Documents /\ d.epoch \in Nat /\ \A u \in Users : d.subj[u].rev \in Nat
<1> SUFFICES ASSUME NEW d, InHand(d)
             PROVE  d \in Documents /\ d.epoch \in Nat /\ \A u \in Users : d.subj[u].rev \in Nat
  OBVIOUS
<1>1. d \in Documents BY DEF Types, InHand, Transaction
<1>2. d.subj \in [Users -> Subjects] /\ d.epoch \in Nat BY <1>1, DocumentIs
<1> QED BY <1>1, <1>2, SubjectIs

\* A document follows itself.
LEMMA FollowsItself ==
  ASSUME NEW d \in Documents
  PROVE  Follows(d, d)
<1>1. d.epoch >= d.epoch BY DocumentIs
<1> QED BY <1>1 DEF Follows

\* Who matches in a document that follows another matches in that one.
LEMMA MatchesFollows ==
  ASSUME NEW c \in Documents, NEW d \in Documents, Follows(d, c),
         NEW u \in Users, NEW n \in Nat, NEW e \in Nat, Matches(d, u, n, e)
  PROVE  Matches(c, u, n, e) /\ c.facts = d.facts
<1>1. c.epoch \in Nat /\ d.epoch \in Nat BY DocumentIs
<1> QED BY <1>1 DEF Follows, Matches

\* The types of a captured permit.
LEMMA PermitIs ==
  ASSUME TurnsAreTyped, NEW t \in Turns, turn[t].at = "held"
  PROVE  turn[t].user \in Users /\ turn[t].stamp[1] \in Nat /\ turn[t].stamp[2] \in Nat
         /\ turn[t].fresh \in BOOLEAN
BY DEF TurnsAreTyped, Stamps

\* While memory and the permits rest, familiar documents keep both.
LEMMA PermitsRest ==
  ASSUME IInv, IInv', PInv, UNCHANGED live, blocked => blocked',
         \A t \in Turns : turn'[t].at = "held" => turn'[t] = turn[t],
         Fixed => Fixed' /\ \A d : InHand(d)' => Familiar(d)
  PROVE  MayCapture' /\ PermitsAreHonest'
<1>1. Types /\ Types' BY DEF IInv
<1>2. live \in Documents /\ live.epoch \in Nat /\ \A u \in Users : live.subj[u].rev \in Nat
  BY <1>1, InHandIs DEF InHand
<1>3. \A d : InHand(d)' => d \in Documents /\ d.epoch \in Nat
  <2>1. ( \A d : InHand(d) =>
            d \in Documents /\ d.epoch \in Nat /\ \A u \in Users : d.subj[u].rev \in Nat )'
    BY <1>1, InHandIs, PTL
  <2> QED BY <2>1
<1>4. ASSUME Fixed, NEW u \in Users, NEW n \in Nat, NEW d, InHand(d)', Matches(d, u, n, live.epoch)
      PROVE  \E c : InHand(c) /\ Matches(c, u, n, live.epoch) /\ c.facts = d.facts
  <2>1. d \in Documents /\ d.epoch \in Nat /\ Familiar(d) BY <1>3, <1>4
  <2>2. CASE \E c : InHand(c) /\ Follows(d, c)
    <3>1. PICK c : InHand(c) /\ Follows(d, c) BY <2>2
    <3>2. c \in Documents BY <1>1, <3>1, InHandIs
    <3> QED BY <1>2, <1>4, <2>1, <3>1, <3>2, MatchesFollows
  <2>3. CASE d.epoch > live.epoch BY <1>2, <1>4, <2>1, <2>3 DEF Matches
  <2>4. CASE \A v \in Users : ~d.subj[v].on BY <1>4, <2>4 DEF Matches
  <2> QED BY <2>1, <2>2, <2>3, <2>4 DEF Familiar
<1>5. MayCapture'
  <2> SUFFICES ASSUME ~blocked'
               PROVE  /\ Fixed'
                      /\ \A u \in Users : \A d :
                           InHand(d)' /\ Matches(d, u, live.subj[u].rev, live.epoch) /\ u \in live.facts
                             => u \in d.facts
    BY DEF MayCapture, Matches
  <2>1. Fixed /\ MayCapture /\ ~blocked BY DEF PInv, MayCapture
  <2>2. ASSUME NEW u \in Users, NEW d, InHand(d)', Matches(d, u, live.subj[u].rev, live.epoch),
               u \in live.facts
        PROVE  u \in d.facts
    <3>1. PICK n \in Nat : n = live.subj[u].rev BY <1>2
    <3>2. PICK c : InHand(c) /\ Matches(c, u, n, live.epoch) /\ c.facts = d.facts
      BY <1>4, <2>1, <2>2, <3>1
    <3> QED BY <2>1, <2>2, <3>1, <3>2 DEF MayCapture
  <2> QED BY <2>1, <2>2
<1>6. PermitsAreHonest'
  <2> SUFFICES ASSUME NEW t \in Turns, turn'[t].at = "held"
               PROVE  /\ turn[t].stamp[2] <= live.epoch
                      /\ turn[t].stamp[2] = live.epoch =>
                           Fixed' /\ \A d : InHand(d)' => Honours(d, t)
    BY DEF PermitsAreHonest, Honours, Matches
  <2>1. turn[t].at = "held" BY DEF PInv
  <2>2. /\ turn[t].user \in Users /\ turn[t].stamp[1] \in Nat /\ turn[t].stamp[2] \in Nat
    BY <2>1, PermitIs DEF PInv
  <2>3. /\ turn[t].stamp[2] <= live.epoch
        /\ turn[t].stamp[2] = live.epoch => Fixed /\ \A d : InHand(d) => Honours(d, t)
    BY <2>1 DEF PInv, PermitsAreHonest
  <2>4. ASSUME turn[t].stamp[2] = live.epoch, NEW d, InHand(d)' PROVE Honours(d, t)
    <3> SUFFICES ASSUME Matches(d, turn[t].user, turn[t].stamp[1], turn[t].stamp[2])
                 PROVE  turn[t].fresh /\ turn[t].user \in d.facts
      BY DEF Honours
    <3>1. PICK c : /\ InHand(c) /\ Matches(c, turn[t].user, turn[t].stamp[1], live.epoch)
                   /\ c.facts = d.facts
      BY <1>4, <2>2, <2>3, <2>4
    <3> QED BY <2>3, <2>4, <3>1 DEF Honours
  <2> QED BY <2>3, <2>4
<1> QED BY <1>5, <1>6

\* Once memory has moved on, the permits captured before match nothing.
LEMMA PermitsPass ==
  ASSUME IInv, IInv', PInv, live'.epoch > live.epoch,
         \A t \in Turns : turn'[t].at = "held" => turn[t].at = "held" /\ turn'[t].stamp = turn[t].stamp
  PROVE  PermitsAreHonest'
<1>1. live.epoch \in Nat /\ live'.epoch \in Nat
  <2>1. Types /\ Types' BY DEF IInv
  <2>2. ( live.epoch \in Nat )' BY <2>1, FilesAre, PTL
  <2> QED BY <2>1, <2>2, FilesAre
<1>2. ASSUME NEW t \in Turns, turn'[t].at = "held"
      PROVE  turn'[t].stamp[2] <= live'.epoch /\ turn'[t].stamp[2] # live'.epoch
  <2>1. turn[t].at = "held" /\ turn'[t].stamp = turn[t].stamp BY <1>2
  <2>2. turn[t].stamp[2] \in Nat /\ turn[t].stamp[2] <= live.epoch
    BY <2>1, PermitIs DEF PInv, PermitsAreHonest
  <2> QED BY <1>1, <2>1, <2>2
<1> QED BY <1>2 DEF PermitsAreHonest

\* The document of no transaction allows nobody.
LEMMA EmptyDocumentIs ==
  /\ Document({}) \in Documents /\ Sane(Document({})) /\ \A u \in Users : ~Document({}).subj[u].on
  /\ NoSnapshot.held = FALSE /\ NoSnapshot.doc = Document({})
  /\ Idle.at = "idle" /\ Idle.cand = Document({})
BY FirstIs DEF NoSnapshot, Idle

\* A transaction goes on: its candidate may reach the disk, and nothing else moves.
LEMMA PlayGoesOn ==
  ASSUME IInv, IInv', PInv, tx.at # "idle", UNCHANGED <<live, snap, turn, boot>>,
         blocked => blocked', disk' \in {disk, tx.cand},
         tx'.cand = Document({}) \/ (tx'.at # "idle" /\ Follows(tx'.cand, tx.cand)),
         tx'.at \in InPlay => tx.at \in InPlay /\ tx'.live = tx.live,
         publication' = publication \/ (publication'.doc = tx.live /\ tx.at \in InPlay),
         ~blocked' /\ tx'.at \in Unwritten => tx.at \in Unwritten /\ UNCHANGED <<disk, publication>>,
         tx'.at # "finish", tx'.at = "deny" => blocked'
  PROVE  PInv'
<1>1. boot = "up" /\ ~snap.held /\ Types BY TransactionIs DEF IInv
<1>2. TurnsAreTyped' BY DEF PInv, TurnsAreTyped
<1>3. EverythingIsSane'
  <2>1. Sane(tx'.cand) BY EmptyDocumentIs, SaneFollows DEF PInv, EverythingIsSane
  <2>2. Sane(live') /\ Sane(disk') /\ Sane(snap'.doc) BY DEF PInv, EverythingIsSane
  <2> QED BY <2>1, <2>2 DEF EverythingIsSane, Sane
<1>4. MemoryLeads' BY <1>1 DEF PInv, MemoryLeads
<1>5. ASSUME Fixed PROVE Fixed' /\ \A d : InHand(d)' => Familiar(d)
  <2>1. Fixed' BY <1>5 DEF Fixed
  <2>2. ASSUME NEW d, InHand(d)' PROVE Familiar(d)
    <3>1. CASE InHand(d)
      <4>1. Follows(d, d) BY <1>1, <3>1, InHandIs, FollowsItself
      <4> QED BY <3>1, <4>1 DEF Familiar
    <3>2. CASE ~InHand(d)
      <4>1. d = tx'.cand BY <2>2, <3>2, <1>1 DEF InHand
      <4> QED BY <4>1, EmptyDocumentIs DEF Familiar, InHand
    <3> QED BY <3>1, <3>2
  <2> QED BY <2>1, <2>2
<1>6. MayCapture' /\ PermitsAreHonest' BY <1>5, PermitsRest
<1> QED BY <1>2, <1>3, <1>4, <1>6 DEF PInv

\* A transaction fails.
LEMMA PlayFails ==
  ASSUME IInv, IInv', PInv, tx.at \in Publishing, Fails, disk' \in {disk, tx.cand},
         UNCHANGED <<live, publication, boot, snap, turn>>
  PROVE  PInv'
<1>1. Types /\ tx.at # "idle" /\ tx.cand \in Documents
  <2>1. tx.at # "idle" BY DEF Publishing
  <2> QED BY <2>1, TransactionIs DEF IInv
<1>2. /\ blocked' /\ tx'.at \in {"idle", "deny"}
      /\ tx'.cand = Document({}) \/ (tx'.at # "idle" /\ tx'.cand = tx.cand)
  <2>1. CASE Settles(FALSE)
    <3>1. tx' = Idle BY <2>1 DEF Settles
    <3>2. blocked' BY DEF Fails, IInv, TransactionIsSound
    <3> QED BY <3>1, <3>2, EmptyDocumentIs
  <2>2. CASE ~Settles(FALSE)
    <3>1. blocked' /\ Goto("deny") BY <2>2 DEF Fails
    <3>2. tx'.at = "deny" /\ tx'.cand = tx.cand BY <1>1, <3>1, GotoIs
    <3> QED BY <3>1, <3>2
  <2> QED BY <2>1, <2>2
<1>3. tx'.cand = Document({}) \/ (tx'.at # "idle" /\ Follows(tx'.cand, tx.cand))
  BY <1>1, <1>2, FollowsItself
<1>4. tx'.at \notin InPlay /\ tx'.at # "finish" BY <1>2 DEF InPlay
<1> QED BY <1>1, <1>2, <1>3, <1>4, PlayGoesOn

\* The journal is written, or not.
LEMMA MarkingIsPlay ==
  ASSUME IInv, IInv', PInv, PublishMark \/ PublishMarkOnly \/ MarkFails \/ Deny \/ DenyFails
  PROVE  PInv'
<1>1. /\ UNCHANGED <<memory, live, blocked, publication, disk, boot, snap, turn>>
      /\ tx.at \in {"mark", "mark only", "deny"}
  BY DEF PublishMark, PublishMarkOnly, MarkFails, Deny, DenyFails, memory
<1>2. Types /\ tx.at # "idle" /\ tx.cand \in Documents
  <2>1. tx.at # "idle" BY <1>1
  <2> QED BY <2>1, TransactionIs DEF IInv
<1>3. CASE PublishMark
  <2>1. tx.at = "mark" /\ Goto("write") BY <1>3 DEF PublishMark
  <2>2. "write" \in {"deny"} \cup Publishing BY DEF Publishing
  <2>3. tx'.at = "write" /\ tx'.cand = tx.cand /\ tx'.live = tx.live BY <1>2, <2>1, <2>2, GotoIs
  <2>4. Follows(tx'.cand, tx.cand) BY <1>2, <2>3, FollowsItself
  <2>5. tx.at \in InPlay /\ tx'.at \notin Unwritten BY <2>1, <2>3 DEF InPlay, Unwritten
  <2> QED BY <1>1, <1>2, <2>3, <2>4, <2>5, PlayGoesOn
<1>4. CASE ~PublishMark
  <2>1. tx' = Idle BY <1>4 DEF PublishMarkOnly, MarkFails, Deny, DenyFails, Settles
  <2>2. tx'.at = "idle" /\ tx'.cand = Document({}) BY <2>1, EmptyDocumentIs
  <2>3. tx'.at \notin InPlay BY <2>2 DEF InPlay
  <2>4. ~blocked => tx.at \in Unwritten BY <1>1 DEF PInv, MemoryLeads, Unwritten
  <2> QED BY <1>1, <1>2, <2>2, <2>3, <2>4, PlayGoesOn
<1> QED BY <1>3, <1>4

\* The candidate is written.
LEMMA WritingIsPlay ==
  ASSUME IInv, IInv', PInv, WriteCandidate
  PROVE  PInv'
<1>1. PICK at : at = IF tx.at = "write" THEN "project" ELSE IF tx.replay THEN "retire" ELSE "check" OBVIOUS
<1>2. /\ tx.at \in {"write", "settle"} /\ disk' = tx.cand /\ Goto(at) /\ publication'.doc = tx.live
      /\ UNCHANGED <<live, blocked, boot, snap, turn>>
  BY <1>1 DEF WriteCandidate
<1>3. /\ at \in Publishing /\ at \in InPlay /\ at \notin Unwritten /\ at \notin {"finish", "deny", "idle"}
      /\ tx.at \in InPlay /\ tx.at # "idle"
  BY <1>1, <1>2 DEF Publishing, InPlay, Unwritten
<1>4. Types /\ tx.cand \in Documents BY <1>3, TransactionIs DEF IInv
<1>5. tx'.at = at /\ tx'.cand = tx.cand /\ tx'.live = tx.live BY <1>2, <1>3, <1>4, GotoIs
<1>6. Follows(tx'.cand, tx.cand) BY <1>4, <1>5, FollowsItself
<1> QED BY <1>2, <1>3, <1>5, <1>6, PlayGoesOn

\* A member's choice is settled, or a request becomes known, in a document.
LEMMA TouchedIs ==
  ASSUME NEW d \in Documents, NEW u \in Users, NEW s,
         s.on = d.subj[u].on, s.rev = d.subj[u].rev, s.proof = d.subj[u].proof
  PROVE  Follows([d EXCEPT !.subj[u] = s], d)
<1>1. PICK f, T, k : d = [facts |-> f, subj |-> T, epoch |-> k] BY DocumentIs
<1>2. T \in [Users -> Subjects] /\ k \in Nat BY <1>1, DocumentIs
<1>3. PICK S : S = [T EXCEPT ![u] = s] OBVIOUS
<1>4. \A v \in Users : S[v] = IF v = u THEN s ELSE T[v] BY <1>2, <1>3
<1>5. PICK e : e = [d EXCEPT !.subj[u] = s] OBVIOUS
<1>6. e = [facts |-> f, subj |-> S, epoch |-> k] BY <1>1, <1>3, <1>5
<1>7. e.facts = d.facts /\ e.epoch >= d.epoch /\ e.subj = S /\ d.subj = T BY <1>1, <1>2, <1>6
<1>8. Follows(e, d) BY <1>4, <1>7 DEF Follows
<1> QED BY <1>5, <1>8

\* The facts are projected.
LEMMA ProjectIsPlay ==
  ASSUME IInv, IInv', PInv, Project
  PROVE  PInv'
<1>1. /\ tx.at = "project" /\ UNCHANGED <<live, blocked, publication, disk, boot, snap, turn>>
  BY DEF Project, files, memory
<1>2. Types /\ tx.at # "idle" /\ tx \in Transaction /\ tx.cand \in Documents /\ Member(tx.by) \in Users
  BY <1>1, TransactionIs DEF IInv
<1>3. PICK c : c = tx.cand OBVIOUS
<1>4. PICK u \in Users : u = Member(tx.by) BY <1>2
<1>5. PICK d : d = IF tx.replay THEN c ELSE [c EXCEPT !.subj[u].pending = FALSE] OBVIOUS
<1>6. d \in Documents /\ Follows(d, c)
  <2>1. CASE tx.replay BY <1>2, <1>3, <1>5, <2>1, FollowsItself
  <2>2. CASE ~tx.replay
    <3>1. c \in Documents /\ c.subj[u] \in Subjects BY <1>2, <1>3, DocumentIs
    <3>2. PICK s : s = [c.subj[u] EXCEPT !.pending = FALSE] OBVIOUS
    <3>3. s \in Subjects /\ s.on = c.subj[u].on /\ s.rev = c.subj[u].rev /\ s.proof = c.subj[u].proof
      BY <3>1, <3>2 DEF Subjects
    <3>4. d = [c EXCEPT !.subj[u] = s] BY <1>5, <2>2, <3>2
    <3>5. d \in Documents BY <3>1, <3>3, <3>4 DEF Documents
    <3> QED BY <3>1, <3>3, <3>4, <3>5, TouchedIs
  <2> QED BY <2>1, <2>2
<1>7. PICK e : e = CompleteOutcomes(d) OBVIOUS
<1>8. e \in Documents /\ Follows(e, d) BY <1>6, <1>7, CompleteIs
<1>9. Follows(e, c)
  <2>1. c.epoch \in Nat /\ d.epoch \in Nat /\ e.epoch \in Nat BY <1>2, <1>3, <1>6, <1>8, DocumentIs
  <2> QED BY <1>6, <1>8, <2>1 DEF Follows
<1>10. tx' = [tx EXCEPT !.at = "settle", !.cand = e] BY <1>3, <1>4, <1>5, <1>7, <1>2 DEF Project
<1>11. tx'.at = "settle" /\ tx'.cand = e /\ tx'.live = tx.live BY <1>2, <1>10 DEF Transaction
<1>12. tx.at \in InPlay /\ tx'.at \notin Unwritten BY <1>1, <1>11 DEF InPlay, Unwritten
<1> QED BY <1>1, <1>2, <1>3, <1>9, <1>11, <1>12, PlayGoesOn

\* The check, and the journal is emptied.
LEMMA CheckIsPlay ==
  ASSUME IInv, IInv', PInv, Check \/ Retire
  PROVE  PInv'
<1>1. tx.at \in {"check", "retire"} /\ UNCHANGED <<live, publication, disk, boot, snap, turn>>
  BY DEF Check, Retire, files, memory
<1>2. /\ Types /\ tx.at # "idle" /\ tx \in Transaction /\ tx.cand \in Documents
      /\ tx.at \in Publishing /\ tx.at \in InPlay
  BY <1>1, TransactionIs DEF IInv, Publishing, InPlay
<1>3. CASE Fails BY <1>1, <1>2, <1>3, PlayFails
<1>4. CASE ~Fails
  <2>1. /\ blocked' = blocked /\ tx'.at \in {"retire", "install"}
        /\ tx'.cand = tx.cand /\ tx'.live = tx.live
    <3>1. CASE Check
      <4>1. PICK at : at = IF Kind(tx.by) \in {"on", "off"} THEN "retire" ELSE "install" OBVIOUS
      <4>2. Goto(at) /\ UNCHANGED blocked BY <1>4, <3>1, <4>1 DEF Check
      <4>3. at \in {"deny"} \cup Publishing BY <4>1 DEF Publishing
      <4> QED BY <1>2, <4>1, <4>2, <4>3, GotoIs
    <3>2. CASE Retire BY <1>2, <3>2 DEF Retire, Transaction, memory
    <3> QED BY <3>1, <3>2
  <2>2. Follows(tx'.cand, tx.cand) BY <1>2, <2>1, FollowsItself
  <2>3. tx'.at \notin Unwritten BY <2>1 DEF Unwritten
  <2> QED BY <1>1, <1>2, <2>1, <2>2, <2>3, PlayGoesOn
<1> QED BY <1>3, <1>4

\* A step of a transaction fails.
LEMMA FailureIsPlay ==
  ASSUME IInv, IInv', PInv, WriteFails \/ ProjectFails \/ RetireFails
  PROVE  PInv'
<1>1. /\ tx.at \in Publishing /\ Fails /\ disk' \in {disk, tx.cand}
      /\ UNCHANGED <<live, publication, boot, snap, turn>>
  BY DEF WriteFails, ProjectFails, RetireFails, Publishing, files
<1> QED BY <1>1, PlayFails

\* A transaction begins with a candidate that is familiar.
LEMMA PlayBegins ==
  ASSUME IInv, IInv', PInv, Free, UNCHANGED <<live, publication, disk, boot, snap, turn>>,
         blocked => blocked', tx'.at \in {"mark", "write", "mark only"},
         tx'.at # "mark only" => tx'.live = live, Sane(tx'.cand), Fixed => Familiar(tx'.cand)
  PROVE  PInv'
<1>1. boot = "up" /\ tx.at = "idle" /\ ~snap.held /\ Types BY DEF Free, IInv
<1>2. TurnsAreTyped' BY DEF PInv, TurnsAreTyped
<1>3. EverythingIsSane'
  <2>1. Sane(live') /\ Sane(disk') /\ Sane(snap'.doc) BY DEF PInv, EverythingIsSane
  <2> QED BY <2>1 DEF EverythingIsSane, Sane
<1>4. MemoryLeads' BY <1>1 DEF PInv, MemoryLeads, Unwritten
<1>5. ASSUME Fixed PROVE Fixed' /\ \A d : InHand(d)' => Familiar(d)
  <2>1. Fixed' BY <1>5 DEF Fixed, InPlay
  <2>2. ASSUME NEW d, InHand(d)' PROVE Familiar(d)
    <3>1. CASE InHand(d)
      <4>1. Follows(d, d) BY <1>1, <3>1, InHandIs, FollowsItself
      <4> QED BY <3>1, <4>1 DEF Familiar
    <3>2. CASE ~InHand(d) BY <1>1, <1>5, <2>2, <3>2 DEF InHand
    <3> QED BY <3>1, <3>2
  <2> QED BY <2>1, <2>2
<1>6. MayCapture' /\ PermitsAreHonest' BY <1>5, PermitsRest
<1> QED BY <1>2, <1>3, <1>4, <1>6 DEF PInv

\* Nothing moves but requests, the barrier that closes, and replies that end.
LEMMA PermitsStay ==
  ASSUME IInv, IInv', PInv, UNCHANGED <<live, publication, disk, boot, snap, tx>>,
         blocked => blocked', TurnsAreTyped',
         \A t \in Turns : turn'[t].at = "held" => turn'[t] = turn[t]
  PROVE  PInv'
<1>1. Types BY DEF IInv
<1>2. EverythingIsSane'
  <2>1. Sane(live') /\ Sane(disk') /\ Sane(snap'.doc) /\ Sane(tx'.cand) BY DEF PInv, EverythingIsSane
  <2> QED BY <2>1 DEF EverythingIsSane, Sane
<1>3. MemoryLeads'
  <2>1. boot # "up" => \A t \in Turns : turn'[t].at # "held" BY DEF PInv, MemoryLeads
  <2> QED BY <2>1 DEF PInv, MemoryLeads
<1>4. ASSUME Fixed PROVE Fixed' /\ \A d : InHand(d)' => Familiar(d)
  <2>1. Fixed' BY <1>4 DEF Fixed
  <2>2. ASSUME NEW d, InHand(d)' PROVE Familiar(d)
    <3>1. InHand(d) BY <2>2 DEF InHand
    <3>2. Follows(d, d) BY <1>1, <3>1, InHandIs, FollowsItself
    <3> QED BY <3>1, <3>2 DEF Familiar
  <2> QED BY <2>1, <2>2
<1>5. MayCapture' /\ PermitsAreHonest' BY <1>4, PermitsRest
<1> QED BY <1>2, <1>3, <1>5 DEF PInv

\* Asking, answering from the record, queueing, refusing, trying again.
LEMMA AnswersStay ==
  ASSUME IInv, IInv', PInv,
         \/ \E r \in Requests : \/ \E u \in Users, k \in Kinds : Ask(r, u, k)
                                \/ AdmitKnown(r) \/ AdmitOther(r) \/ Retry(r) \/ RefuseFresh(r)
         \/ UNCHANGED vars
  PROVE  PInv'
<1>1. UNCHANGED <<live, blocked, publication, disk, boot, snap, tx, turn>>
  BY DEF Ask, AdmitKnown, AdmitOther, Retry, RefuseFresh, Refused, memory, files, vars
<1>2. TurnsAreTyped' BY <1>1 DEF PInv, TurnsAreTyped
<1> QED BY <1>1, <1>2, PermitsStay

\* A replay starts with what is on disk, repaired.
LEMMA StartReplayIsPlay ==
  ASSUME IInv, IInv', PInv, NEW r \in Requests, StartReplay(r)
  PROVE  PInv'
<1>1. /\ Types /\ Free /\ req[r].at = "queued" /\ blocked' = TRUE
      /\ UNCHANGED <<live, publication, disk, boot, snap, turn>>
  BY DEF IInv, StartReplay, files
<1>2. CASE Refused(r)
  <2>1. UNCHANGED tx BY <1>2 DEF Refused
  <2>2. TurnsAreTyped' BY <1>1 DEF PInv, TurnsAreTyped
  <2> QED BY <1>1, <2>1, <2>2, PermitsStay
<1>3. CASE ~Refused(r)
  <2>1. PICK repaired : repaired = Repaired(r) OBVIOUS
  <2>2. PICK cand : /\ cand = repaired \/ cand = [repaired EXCEPT !.subj[Member(r)].out[r] = "open"]
                    /\ tx' = [Idle EXCEPT !.at = "write", !.by = r, !.live = live, !.base = base,
                                          !.journal = marker, !.replay = TRUE, !.aborted = AbortedOn(r),
                                          !.cand = cand]
    BY <1>3, <2>1 DEF StartReplay
  <2>3. /\ repaired \in Documents /\ Sane(repaired)
        /\ Fixed => Follows(repaired, disk)
    BY <2>1, RepairedIs DEF PInv, EverythingIsSane, Fixed
  <2>4. PICK u \in Users : u = Member(r) BY <1>1 DEF IInv, RequestIsDated, Member
  <2>5. Follows(cand, repaired)
    <3>1. CASE cand = repaired BY <2>3, <3>1, FollowsItself
    <3>2. CASE cand # repaired
      <4>1. repaired.subj[u] \in Subjects BY <2>3, DocumentIs
      <4>2. PICK s : s = [repaired.subj[u] EXCEPT !.out[r] = "open"] OBVIOUS
      <4>3. /\ s.on = repaired.subj[u].on /\ s.rev = repaired.subj[u].rev
            /\ s.proof = repaired.subj[u].proof
        BY <4>1, <4>2 DEF Subjects
      <4>4. cand = [repaired EXCEPT !.subj[u] = s] BY <2>2, <2>4, <3>2, <4>2
      <4> QED BY <2>3, <4>3, <4>4, TouchedIs
    <3> QED BY <3>1, <3>2
  <2>6. tx'.at = "write" /\ tx'.live = live /\ tx'.cand = cand BY <2>2 DEF Idle
  <2>7. Sane(cand) BY <2>3, <2>5, SaneFollows
  <2>8. Fixed => Familiar(cand)
    <3> SUFFICES ASSUME Fixed PROVE Familiar(cand) OBVIOUS
    <3>1. cand.epoch \in Nat /\ repaired.epoch \in Nat /\ disk.epoch \in Nat
      <4>1. tx'.cand \in Documents BY DEF IInv, Types, Transaction
      <4> QED BY <1>1, <2>3, <2>6, <4>1, FilesAre, DocumentIs
    <3>2. Follows(cand, disk) BY <2>3, <2>5, <3>1 DEF Follows
    <3> QED BY <3>2 DEF Familiar, InHand
  <2> QED BY <1>1, <2>6, <2>7, <2>8, PlayBegins
<1> QED BY <1>2, <1>3

\* A fresh change starts at a later epoch.
LEMMA StartFreshIsPlay ==
  ASSUME IInv, IInv', PInv, NEW r \in Requests, StartFresh(r)
  PROVE  PInv'
<1>1. /\ Types /\ Types' /\ Free /\ req[r].at = "queued" /\ Permitted(r)
      /\ UNCHANGED <<live, blocked, publication, disk, boot, snap, turn>>
  BY DEF IInv, StartFresh, files, memory
<1>2. PICK u \in Users : u = Member(r) BY <1>1 DEF IInv, RequestIsDated, Member
<1>3. PICK e : e = Apply(r, Source(r)) OBVIOUS
<1>4. e \in Documents /\ e.epoch > live.epoch /\ Sane(e)
  BY <1>1, <1>3, AppliedIs DEF PInv, EverythingIsSane
<1>5. PICK journal :
         journal = CASE Kind(r) = "off" -> AddWithdrawal(marker, u, Mark(r, e))
                     [] Kind(r) = "on" -> [marker EXCEPT !.on[u] = Mark(r, e)]
                     [] OTHER -> marker
  OBVIOUS
<1>6. PICK cand :
         cand = CASE Kind(r) = "off" -> FoldDenials(e, journal)
                  [] Kind(r) = "on" -> [e EXCEPT !.subj[u].pending = TRUE]
                  [] OTHER -> e
  OBVIOUS
<1>7. tx' = [Idle EXCEPT !.at = IF Kind(r) \in {"on", "off"} THEN "mark" ELSE "write", !.by = r,
                         !.cand = cand, !.live = live, !.base = base, !.journal = journal,
                         !.mark = Mark(r, e)]
  BY <1>2, <1>3, <1>5, <1>6 DEF StartFresh, Prepared
<1>8. tx'.at \in {"mark", "write"} /\ tx'.live = live /\ tx'.cand = cand /\ tx'.journal = journal
  <2>1. PICK at \in {"mark", "write"} : at = IF Kind(r) \in {"on", "off"} THEN "mark" ELSE "write" OBVIOUS
  <2>2. PICK w : w = Mark(r, e) OBVIOUS
  <2>3. tx' = [Idle EXCEPT !.at = at, !.by = r, !.cand = cand, !.live = live, !.base = base,
                           !.journal = journal, !.mark = w]
    BY <1>7, <2>1, <2>2
  <2> QED BY <2>1, <2>3 DEF Idle
<1>9. cand \in Documents /\ journal \in Journals BY <1>1, <1>8 DEF Types, Transaction
<1>10. Follows(cand, e)
  <2>1. CASE Kind(r) = "off"
    <3>1. cand = FoldDenials(e, journal) BY <1>6, <2>1
    <3>2. PICK n \in Nat : Covers(n, journal)
      <4>1. PICK n \in Nat : Covers(n, tx'.journal) BY DEF IInv, TransactionIsSound, Covers
      <4> QED BY <1>8, <4>1
    <3> QED BY <1>1, <1>4, <1>9, <3>1, <3>2, FoldIs
  <2>2. CASE Kind(r) = "on"
    <3>1. e.subj[u] \in Subjects BY <1>4, DocumentIs
    <3>2. PICK s : s = [e.subj[u] EXCEPT !.pending = TRUE] OBVIOUS
    <3>3. s.on = e.subj[u].on /\ s.rev = e.subj[u].rev /\ s.proof = e.subj[u].proof
      BY <3>1, <3>2 DEF Subjects
    <3>4. cand = [e EXCEPT !.subj[u] = s] BY <1>6, <2>2, <3>2
    <3> QED BY <1>4, <3>3, <3>4, TouchedIs
  <2>3. CASE Kind(r) \notin {"on", "off"} BY <1>4, <1>6, <2>3, FollowsItself
  <2> QED BY <2>1, <2>2, <2>3
<1>11. Sane(cand) BY <1>4, <1>10, SaneFollows
<1>12. Familiar(cand)
  <2>1. cand.epoch \in Nat /\ e.epoch \in Nat /\ live.epoch \in Nat BY <1>1, <1>4, <1>9, FilesAre, DocumentIs
  <2> QED BY <1>4, <1>10, <2>1 DEF Familiar, Follows
<1> QED BY <1>1, <1>8, <1>11, <1>12, PlayBegins

\* A withdrawal is put on record only.
LEMMA StartMarkIsPlay ==
  ASSUME IInv, IInv', PInv, NEW r \in Requests, StartMark(r)
  PROVE  PInv'
<1>1. Free /\ UNCHANGED <<live, blocked, publication, disk, boot, snap, turn>>
  BY DEF StartMark, files, memory
<1>2. PICK journal : journal = AddWithdrawal(marker, Member(r), Mark(r, live)) OBVIOUS
<1>3. tx' = [Idle EXCEPT !.at = "mark only", !.by = r, !.journal = journal] BY <1>2 DEF StartMark
<1>4. tx'.at = "mark only" /\ tx'.cand = Document({}) BY <1>3 DEF Idle
<1>5. Sane(tx'.cand) /\ Familiar(tx'.cand) BY <1>4, EmptyDocumentIs DEF Familiar
<1> QED BY <1>1, <1>4, <1>5, PlayBegins

\* A snapshot is taken, written, or fails.
LEMMA SnapshotsRest ==
  ASSUME IInv, IInv', PInv, TakeSnapshot \/ WriteSnapshot \/ SnapshotFails
  PROVE  PInv'
<1>1. /\ tx.at = "idle" /\ boot = "up" /\ Types
      /\ UNCHANGED <<live, blocked, publication, boot, tx, turn>>
      /\ \/ snap'.held /\ snap'.doc = live /\ disk' = disk
         \/ snap.held /\ ~snap'.held /\ snap'.doc = Document({}) /\ disk' \in {disk, snap.doc}
  BY DEF TakeSnapshot, WriteSnapshot, SnapshotFails, Free, IInv, SnapshotIsBehind, NoSnapshot, memory, files
<1>2. /\ live.epoch \in Nat /\ \A u \in Users : live.subj[u].rev \in Nat
      /\ snap.held => snap.doc.epoch <= live.epoch
  <2>1. live \in Documents BY <1>1 DEF Types
  <2>2. snap.held => snap.doc \in Documents /\ live.epoch >= snap.doc.epoch
    BY <1>1 DEF Types, IInv, SnapshotIsBehind
  <2> QED BY <2>1, <2>2, DocumentIs, SubjectIs
<1>3. TurnsAreTyped' BY <1>1 DEF PInv, TurnsAreTyped
<1>4. EverythingIsSane'
  <2>1. Sane(live') /\ Sane(disk') /\ Sane(snap'.doc) /\ Sane(tx'.cand)
    BY <1>1, EmptyDocumentIs DEF PInv, EverythingIsSane
  <2> QED BY <2>1 DEF EverythingIsSane, Sane
<1>5. MemoryLeads'
  <2>1. snap.held => \A u \in Users : snap.doc.subj[u].rev <= live.subj[u].rev
    BY DEF PInv, MemoryLeads
  <2>2. ~blocked' => /\ ~publication'.known /\ disk'.epoch <= live'.epoch
                     /\ \A u \in Users : disk'.subj[u].rev <= live'.subj[u].rev
    BY <1>1, <1>2, <2>1 DEF PInv, MemoryLeads, Unwritten
  <2>3. snap'.held => \A u \in Users : snap'.doc.subj[u].rev <= live'.subj[u].rev
    BY <1>1, <1>2
  <2>4. tx'.at = "idle" /\ tx'.cand = Document({})' /\ boot' = "up"
    <3>1. Document({})' = Document({}) BY DEF Document, Subject
    <3> QED BY <1>1, <3>1 DEF PInv, MemoryLeads
  <2> QED BY <2>2, <2>3, <2>4 DEF MemoryLeads
<1>6. ASSUME Fixed PROVE Fixed' /\ \A d : InHand(d)' => Familiar(d)
  <2>1. Fixed' BY <1>1, <1>6 DEF Fixed
  <2>2. ASSUME NEW d, InHand(d)' PROVE Familiar(d)
    <3>1. InHand(d) BY <1>1, <2>2 DEF InHand
    <3>2. Follows(d, d) BY <1>1, <3>1, InHandIs, FollowsItself
    <3> QED BY <3>1, <3>2 DEF Familiar
  <2> QED BY <2>1, <2>2
<1>7. MayCapture' /\ PermitsAreHonest' BY <1>1, <1>6, PermitsRest
<1> QED BY <1>3, <1>4, <1>5, <1>7 DEF PInv

\* A reply is delivered, and its permits go.
LEMMA DeliverStays ==
  ASSUME IInv, IInv', PInv, NEW t \in Turns, Deliver(t)
  PROVE  PInv'
<1>1. /\ turn' = [turn EXCEPT ![t] = Silent]
      /\ UNCHANGED <<live, blocked, publication, disk, boot, snap, tx>>
  BY DEF Deliver, memory, files
<1>2. turn \in [Turns -> [at : {"idle", "held"}, user : Users \cup {Nobody}, stamp : Stamps,
                          fresh : BOOLEAN]]
  BY DEF PInv, TurnsAreTyped
<1>3. /\ Silent \in [at : {"idle", "held"}, user : Users \cup {Nobody}, stamp : Stamps, fresh : BOOLEAN]
      /\ Silent.at # "held"
  BY DEF Silent, Stamps
<1>4. \A s \in Turns : turn'[s] = IF s = t THEN Silent ELSE turn[s] BY <1>1, <1>2
<1>5. TurnsAreTyped' BY <1>1, <1>2, <1>3, <1>4 DEF PInv, TurnsAreTyped, Stamps
<1>6. \A s \in Turns : turn'[s].at = "held" => turn'[s] = turn[s] BY <1>3, <1>4
<1> QED BY <1>1, <1>5, <1>6, PermitsStay

\* A permit is captured.
LEMMA CaptureIsHonest ==
  ASSUME IInv, IInv', PInv, NEW t \in Turns, NEW u \in Users, Capture(t, u)
  PROVE  PInv'
<1>1. PICK p : p = [at |-> "held", user |-> u, stamp |-> Stamp(live, u), fresh |-> TRUE] OBVIOUS
<1>2. /\ turn' = [turn EXCEPT ![t] = p] /\ boot = "up" /\ ~blocked /\ live.subj[u].proof
      /\ UNCHANGED <<live, blocked, publication, disk, boot, snap, tx>>
  BY <1>1 DEF Capture, memory, files
<1>3. live \in Documents /\ live.epoch \in Nat /\ live.subj[u].rev \in Nat
  <2>1. live \in Documents BY DEF IInv, Types
  <2> QED BY <2>1, DocumentIs, SubjectIs
<1>4. turn \in [Turns -> [at : {"idle", "held"}, user : Users \cup {Nobody}, stamp : Stamps,
                          fresh : BOOLEAN]]
  BY DEF PInv, TurnsAreTyped
<1>5. /\ p \in [at : {"idle", "held"}, user : Users \cup {Nobody}, stamp : Stamps, fresh : BOOLEAN]
      /\ p.at = "held" /\ p.user = u /\ p.fresh /\ p.stamp[1] = live.subj[u].rev
      /\ p.stamp[2] = live.epoch
  BY <1>1, <1>3 DEF Stamp, Stamps
<1>6. \A s \in Turns : turn'[s] = IF s = t THEN p ELSE turn[s] BY <1>2, <1>4
<1>7. TurnsAreTyped' BY <1>2, <1>4, <1>5, <1>6 DEF PInv, TurnsAreTyped, Stamps
<1>8. EverythingIsSane'
  <2>1. Sane(live') /\ Sane(disk') /\ Sane(snap'.doc) /\ Sane(tx'.cand) BY <1>2 DEF PInv, EverythingIsSane
  <2> QED BY <2>1 DEF EverythingIsSane, Sane
<1>9. MemoryLeads'
  <2>1. Document({})' = Document({}) BY DEF Document, Subject
  <2> QED BY <1>2, <2>1 DEF PInv, MemoryLeads
<1>10. MayCapture' BY <1>2 DEF PInv, MayCapture, Fixed, InHand, Matches
<1>11. PermitsAreHonest'
  <2> SUFFICES ASSUME NEW s \in Turns, turn'[s].at = "held"
               PROVE  /\ turn'[s].stamp[2] <= live.epoch
                      /\ turn'[s].stamp[2] = live.epoch =>
                           Fixed /\ \A d : InHand(d) =>
                             (Matches(d, turn'[s].user, turn'[s].stamp[1], turn'[s].stamp[2]) =>
                                turn'[s].fresh /\ turn'[s].user \in d.facts)
    BY <1>2 DEF PermitsAreHonest, Fixed, InHand, Honours, Matches
  <2>1. CASE s # t BY <1>6, <2>1 DEF PInv, PermitsAreHonest, Honours
  <2>2. CASE s = t
    <3>1. turn'[s] = p BY <1>6, <2>2
    <3>2. u \in live.facts BY <1>2 DEF PInv, EverythingIsSane, Sane
    <3>3. Fixed /\ \A d : InHand(d) /\ Matches(d, u, live.subj[u].rev, live.epoch) => u \in d.facts
      BY <1>2, <3>2 DEF PInv, MayCapture
    <3> QED BY <1>3, <1>5, <3>1, <3>3
  <2> QED BY <2>1, <2>2
<1> QED BY <1>7, <1>8, <1>9, <1>10, <1>11 DEF PInv

\* The contexts of the members who lost their use or their fact are out of date.
LEMMA OutdateIs ==
  ASSUME TurnsAreTyped, NEW d, Outdate(d)
  PROVE  /\ TurnsAreTyped'
         /\ \A t \in Turns :
              /\ turn'[t].at = turn[t].at /\ turn'[t].user = turn[t].user
              /\ turn'[t].stamp = turn[t].stamp
              /\ ~Lost(d, turn[t].user) => turn'[t] = turn[t]
<1> DEFINE Permit == [at : {"idle", "held"}, user : Users \cup {Nobody}, stamp : Stamps, fresh : BOOLEAN]
<1>1. turn \in [Turns -> Permit] BY DEF TurnsAreTyped
<1>2. \A t \in Turns :
        turn'[t] = IF turn[t].at = "held" /\ Lost(d, turn[t].user)
                     THEN [turn[t] EXCEPT !.fresh = FALSE] ELSE turn[t]
  BY DEF Outdate
<1>3. ASSUME NEW t \in Turns
      PROVE  /\ turn'[t] \in Permit
             /\ turn'[t].at = turn[t].at /\ turn'[t].user = turn[t].user
             /\ turn'[t].stamp = turn[t].stamp
             /\ ~Lost(d, turn[t].user) => turn'[t] = turn[t]
  <2>1. turn[t] \in Permit BY <1>1
  <2>2. CASE turn'[t] = turn[t] BY <2>1, <2>2
  <2>3. CASE turn'[t] # turn[t]
    <3>1. turn'[t] = [turn[t] EXCEPT !.fresh = FALSE] /\ Lost(d, turn[t].user) BY <1>2, <2>3
    <3> QED BY <2>1, <3>1
  <2> QED BY <2>2, <2>3
<1>4. turn' \in [Turns -> Permit]
  <2>1. DOMAIN turn' = Turns /\ turn' = [t \in Turns |-> turn'[t]] BY DEF Outdate
  <2> QED BY <1>3, <2>1
<1>5. TurnsAreTyped' BY <1>3, <1>4 DEF TurnsAreTyped, Stamps
<1> QED BY <1>3, <1>5

\* A withdrawal is admitted: the epoch passes every permit.
LEMMA WithdrawalPasses ==
  ASSUME IInv, IInv', PInv, NEW r \in Requests, AdmitWithdrawal(r)
  PROVE  PInv'
<1>1. PICK u \in Users : u = Member(r) BY DEF AdmitWithdrawal, IInv, RequestIsDated, Member
<1>2. PICK e : e = Fence(live, u) OBVIOUS
<1>3. /\ live' = e /\ blocked' = TRUE /\ Outdate(e) /\ boot = "up"
      /\ UNCHANGED <<publication, disk, boot, tx, snap>>
  BY <1>1, <1>2 DEF AdmitWithdrawal, files
<1>4. live \in Documents /\ live.epoch \in Nat /\ \A v \in Users : live.subj[v].rev \in Nat
  <2>1. live \in Documents BY DEF IInv, Types
  <2> QED BY <2>1, DocumentIs, SubjectIs
<1>5. /\ e \in Documents /\ e.epoch = live.epoch + 1 /\ ~e.subj[u].on /\ e.facts = live.facts
      /\ e.subj[u].rev \in Nat /\ e.subj[u].rev >= live.subj[u].rev
      /\ e.subj[u].proof = live.subj[u].proof
      /\ \A v \in Users \ {u} : e.subj[v] = live.subj[v]
  BY <1>2, <1>4, FenceIs
<1>6. TurnsAreTyped' /\ \A t \in Turns : turn'[t].at = turn[t].at /\ turn'[t].stamp = turn[t].stamp
  BY <1>3, OutdateIs DEF PInv
<1>7. EverythingIsSane'
  <2>1. Sane(e) BY <1>5 DEF PInv, EverythingIsSane, Sane
  <2>2. Sane(live') /\ Sane(disk') /\ Sane(snap'.doc) /\ Sane(tx'.cand)
    BY <1>3, <2>1 DEF PInv, EverythingIsSane
  <2> QED BY <2>2 DEF EverythingIsSane, Sane
<1>8. MemoryLeads'
  <2>1. snap'.held => \A v \in Users : snap'.doc.subj[v].rev <= live'.subj[v].rev
    <3> SUFFICES ASSUME snap.held, NEW v \in Users PROVE snap.doc.subj[v].rev <= e.subj[v].rev
      BY <1>3
    <3>1. snap.doc.subj[v].rev <= live.subj[v].rev BY DEF PInv, MemoryLeads
    <3>2. snap.doc.subj[v].rev \in Nat
      <4>1. snap.doc \in Documents BY DEF IInv, Types
      <4> QED BY <4>1, DocumentIs, SubjectIs
    <3> QED BY <1>4, <1>5, <3>1, <3>2
  <2>2. tx'.at = "finish" => ~publication'.known /\ live'.epoch > tx'.cand.epoch
    <3> SUFFICES ASSUME tx.at = "finish" PROVE ~publication.known /\ e.epoch > tx.cand.epoch
      BY <1>3
    <3>1. tx.cand.epoch \in Nat BY TransactionIs
    <3> QED BY <1>4, <1>5, <3>1 DEF PInv, MemoryLeads
  <2>3. tx'.at = "idle" => tx'.cand = Document({})'
    <3>1. Document({})' = Document({}) BY DEF Document, Subject
    <3> QED BY <1>3, <3>1 DEF PInv, MemoryLeads
  <2> QED BY <1>3, <2>1, <2>2, <2>3 DEF MemoryLeads
<1>9. MayCapture' BY <1>3 DEF MayCapture
<1>10. PermitsAreHonest' BY <1>3, <1>4, <1>5, <1>6, PermitsPass
<1> QED BY <1>6, <1>7, <1>8, <1>9, <1>10 DEF PInv

\* The memory service moves a member's record: what the files allow is older.
LEMMA EditPasses ==
  ASSUME IInv, IInv', PInv, boot = "up", tx.at = "idle", NEW u \in Users,
         UNCHANGED <<blocked, publication, disk, boot, tx, snap>>,
         live'.epoch > live.epoch, Sane(live'),
         \A v \in Users \ {u} : live'.subj[v] = live.subj[v] /\ (v \in live'.facts => v \in live.facts),
         live'.subj[u].rev >= live.subj[u].rev,
         live'.subj[u].rev = 0 \/ live'.subj[u].rev > live.subj[u].rev,
         TurnsAreTyped',
         \A t \in Turns : turn'[t].at = "held" => turn[t].at = "held" /\ turn'[t].stamp = turn[t].stamp
  PROVE  PInv'
<1>1. /\ live.epoch \in Nat /\ disk.epoch \in Nat /\ live'.epoch \in Nat
      /\ \A v \in Users : /\ live.subj[v].rev \in Nat /\ disk.subj[v].rev \in Nat
                          /\ snap.doc.subj[v].rev \in Nat /\ live'.subj[v].rev \in Nat
  <2>1. live \in Documents /\ disk \in Documents /\ snap.doc \in Documents /\ live' \in Documents
    BY DEF IInv, Types
  <2> QED BY <2>1, DocumentIs, SubjectIs
<1>2. \A v \in Users : live'.subj[v].rev >= live.subj[v].rev BY <1>1
<1>3. EverythingIsSane'
  <2>1. Sane(disk') /\ Sane(snap'.doc) /\ Sane(tx'.cand) BY DEF PInv, EverythingIsSane
  <2> QED BY <2>1 DEF EverythingIsSane, Sane
<1>4. MemoryLeads'
  <2>1. ~blocked => /\ ~publication.known /\ disk.epoch <= live.epoch
                    /\ \A v \in Users : disk.subj[v].rev <= live.subj[v].rev
    BY DEF PInv, MemoryLeads, Unwritten
  <2>2. ~blocked' => /\ ~publication'.known /\ disk'.epoch <= live'.epoch
                     /\ \A v \in Users : disk'.subj[v].rev <= live'.subj[v].rev
    BY <1>1, <1>2, <2>1
  <2>3. snap'.held => \A v \in Users : snap'.doc.subj[v].rev <= live'.subj[v].rev
    BY <1>1, <1>2 DEF PInv, MemoryLeads
  <2>4. tx'.at = "idle" /\ tx'.cand = Document({})' /\ boot' = "up"
    <3>1. Document({})' = Document({}) BY DEF Document, Subject
    <3> QED BY <3>1 DEF PInv, MemoryLeads
  <2> QED BY <2>2, <2>3, <2>4 DEF MemoryLeads
<1>5. MayCapture'
  <2> SUFFICES ASSUME ~blocked
               PROVE  /\ Fixed'
                      /\ \A v \in Users : \A d :
                           /\ d = live' \/ d = disk \/ d = tx.cand \/ (snap.held /\ d = snap.doc)
                           /\ Matches(d, v, live'.subj[v].rev, live'.epoch) /\ v \in live'.facts
                           => v \in d.facts
    BY DEF MayCapture, InHand, Matches
  <2>1. /\ ~publication.known /\ disk.epoch <= live.epoch
        /\ \A v \in Users : disk.subj[v].rev <= live.subj[v].rev
    BY DEF PInv, MemoryLeads, Unwritten
  <2>2. Fixed' BY <2>1 DEF Fixed, InPlay
  <2>3. ASSUME NEW v \in Users, NEW d, d = disk \/ (snap.held /\ d = snap.doc),
               Matches(d, v, live'.subj[v].rev, live'.epoch), v \in live'.facts
        PROVE  v \in d.facts
    <3>1. d.epoch <= live.epoch /\ d.subj[v].rev <= live.subj[v].rev /\ d.subj[v].rev \in Nat
      BY <1>1, <2>1, <2>3 DEF PInv, MemoryLeads, IInv, SnapshotIsBehind
    <3>2. d.subj[v].on /\ d.subj[v].rev >= live'.subj[v].rev /\ d.subj[v].rev > 0
      <4>1. Sane(d) BY <2>3 DEF PInv, EverythingIsSane
      <4> QED BY <2>3, <4>1 DEF Matches, Sane
    <3>3. CASE v = u BY <1>1, <3>1, <3>2, <3>3
    <3>4. CASE v # u
      <4>1. live'.subj[v] = live.subj[v] /\ v \in live.facts BY <2>3, <3>4
      <4>2. Matches(d, v, live.subj[v].rev, live.epoch) BY <3>1, <3>2, <4>1 DEF Matches
      <4>3. InHand(d) BY <2>3 DEF InHand
      <4> QED BY <4>1, <4>2, <4>3 DEF PInv, MayCapture
    <3> QED BY <3>3, <3>4
  <2>4. ASSUME NEW v \in Users, Matches(tx.cand, v, live'.subj[v].rev, live'.epoch) PROVE FALSE
    <3>1. tx.cand = Document({}) BY DEF PInv, MemoryLeads
    <3> QED BY <2>4, <3>1, EmptyDocumentIs DEF Matches
  <2> QED BY <2>2, <2>3, <2>4
<1>6. PermitsAreHonest' BY PermitsPass
<1> QED BY <1>3, <1>4, <1>5, <1>6 DEF PInv

\* The memory service stores or drops a fact.
LEMMA FactsPass ==
  ASSUME IInv, IInv', PInv, NEW u \in Users, Learn(u) \/ Unlearn(u)
  PROVE  PInv'
<1>1. /\ live \in Documents /\ live.epoch \in Nat /\ Sane(live)
      /\ \A v \in Users : live.subj[v].rev \in Nat
  <2>1. live \in Documents /\ Sane(live) BY DEF IInv, Types, PInv, EverythingIsSane
  <2> QED BY <2>1, DocumentIs, SubjectIs
<1>2. PICK d : d = Invalidated(live, u) OBVIOUS
<1>3. /\ d \in Documents /\ d.epoch = live.epoch + 1 /\ d.facts = live.facts
      /\ \A v \in Users : /\ d.subj[v].on = live.subj[v].on /\ d.subj[v].proof = live.subj[v].proof
                          /\ d.subj[v].rev \in Nat /\ d.subj[v].rev >= live.subj[v].rev
      /\ \A v \in Users \ {u} : d.subj[v] = live.subj[v]
      /\ d.subj[u].rev = 0 \/ d.subj[u].rev > live.subj[u].rev
  BY <1>1, <1>2, InvalidatedIs
<1>4. d.subj \in [Users -> Subjects] /\ d.epoch \in Nat /\ d.facts \in SUBSET Users BY <1>3, DocumentIs
<1>5. PICK f, T, k : d = [facts |-> f, subj |-> T, epoch |-> k] BY <1>3, DocumentIs
<1>6. \A v \in Users : live.subj[v].on => d.subj[v].rev > 0
  BY <1>1, <1>3 DEF Sane
<1>7. CASE Learn(u)
  <2>1. PICK g \in SUBSET Users : g = f \cup {u} BY <1>4, <1>5
  <2>2. live' = [d EXCEPT !.facts = @ \cup {u}] BY <1>2, <1>7 DEF Learn
  <2>3. live' = [facts |-> g, subj |-> T, epoch |-> k] BY <1>5, <2>1, <2>2
  <2>4. /\ live'.subj = d.subj /\ live'.epoch = d.epoch /\ live'.facts = live.facts \cup {u}
    BY <1>3, <1>5, <2>1, <2>3
  <2>5. Sane(live') BY <1>1, <1>3, <1>6, <2>4 DEF Sane
  <2>6. /\ boot = "up" /\ tx.at = "idle" /\ UNCHANGED <<blocked, publication, disk, boot, tx, snap, turn>>
    BY <1>7 DEF Learn, files
  <2>7. TurnsAreTyped' BY <2>6 DEF PInv, TurnsAreTyped
  <2>8. live'.epoch > live.epoch BY <1>1, <1>3, <2>4
  <2> QED BY <1>3, <2>4, <2>5, <2>6, <2>7, <2>8, EditPasses
<1>8. CASE Unlearn(u)
  <2>1. PICK g \in SUBSET Users : g = f \ {u} BY <1>4, <1>5
  <2>2. T \in [Users -> Subjects] /\ T[u] \in Subjects BY <1>4, <1>5
  <2>3. PICK s : s = [T[u] EXCEPT !.proof = FALSE] OBVIOUS
  <2>4. s \in Subjects /\ s.on = T[u].on /\ s.rev = T[u].rev /\ ~s.proof
    <3>1. PICK t \in Subjects : t = T[u] BY <2>2
    <3>2. s = [t EXCEPT !.proof = FALSE] BY <2>3, <3>1
    <3> QED BY <3>1, <3>2 DEF Subjects
  <2>5. PICK S \in [Users -> Subjects] : S = [T EXCEPT ![u] = s] BY <2>2, <2>4
  <2>6. PICK forgot : forgot = [d EXCEPT !.facts = @ \ {u}, !.subj[u].proof = FALSE] OBVIOUS
  <2>7. forgot = [facts |-> g, subj |-> S, epoch |-> k] BY <1>5, <2>1, <2>3, <2>5, <2>6
  <2>8. /\ forgot \in Documents /\ forgot.subj = S /\ forgot.epoch = d.epoch
        /\ forgot.facts = live.facts \ {u}
    BY <1>3, <1>4, <1>5, <2>1, <2>7 DEF Documents
  <2>9. \A v \in Users : S[v] = IF v = u THEN s ELSE T[v] BY <2>2, <2>5
  <2>10. /\ \A v \in Users \ {u} : forgot.subj[v] = live.subj[v]
         /\ forgot.subj[u].on = live.subj[u].on /\ ~forgot.subj[u].proof
         /\ forgot.subj[u].rev = d.subj[u].rev
    BY <1>3, <1>5, <2>4, <2>8, <2>9
  <2>11. PICK e : e = live' OBVIOUS
  <2>12. e \in {forgot, Invalidated(forgot, u)} BY <1>2, <1>8, <2>6, <2>11 DEF Unlearn
  <2>13. /\ e.facts = live.facts \ {u} /\ e.epoch > live.epoch
         /\ \A v \in Users \ {u} : e.subj[v] = live.subj[v]
         /\ e.subj[u].on = live.subj[u].on /\ ~e.subj[u].proof
         /\ e.subj[u].rev >= d.subj[u].rev /\ e.subj[u].rev \in Nat
         /\ e.subj[u].rev = 0 \/ e.subj[u].rev > live.subj[u].rev
    <3>1. CASE e = forgot BY <1>1, <1>3, <2>8, <2>10, <3>1
    <3>2. CASE e = Invalidated(forgot, u)
      <4>1. /\ e.epoch = forgot.epoch + 1 /\ e.facts = forgot.facts
            /\ e.subj[u].on = forgot.subj[u].on /\ e.subj[u].proof = forgot.subj[u].proof
            /\ e.subj[u].rev \in Nat /\ e.subj[u].rev >= forgot.subj[u].rev
            /\ \A v \in Users \ {u} : e.subj[v] = forgot.subj[v]
            /\ e.subj[u].rev = 0 \/ e.subj[u].rev > forgot.subj[u].rev
        BY <2>8, <3>2, InvalidatedIs
      <4> QED BY <1>1, <1>3, <2>8, <2>10, <4>1
    <3> QED BY <2>12, <3>1, <3>2
  <2>14. Sane(e)
    <3>1. ASSUME NEW v \in Users PROVE (e.subj[v].on => e.subj[v].rev > 0) /\ (e.subj[v].proof => v \in e.facts)
      <4>1. CASE v = u BY <1>3, <1>6, <2>13, <4>1
      <4>2. CASE v # u BY <1>1, <2>13, <4>2 DEF Sane
      <4> QED BY <4>1, <4>2
    <3> QED BY <3>1 DEF Sane
  <2>15. /\ boot = "up" /\ tx.at = "idle" /\ UNCHANGED <<blocked, publication, disk, boot, tx, snap>>
         /\ Outdate(e)
    BY <1>8, <2>11 DEF Unlearn, files
  <2>16. TurnsAreTyped' /\ \A t \in Turns : turn'[t].at = turn[t].at /\ turn'[t].stamp = turn[t].stamp
    BY <2>15, OutdateIs DEF PInv
  <2>17. e.subj[u].rev >= live.subj[u].rev BY <1>1, <1>3, <2>13
  <2>18. Sane(live') BY <2>11, <2>14
  <2> QED BY <2>11, <2>13, <2>15, <2>16, <2>17, <2>18, EditPasses
<1> QED BY <1>7, <1>8

\* One document is all there is: nothing else can become memory.
LEMMA OneDocument ==
  ASSUME \A d : InHand(d)' => d = live' \/ \A u \in Users : ~d.subj[u].on,
         ~publication'.known, tx'.at \notin InPlay
  PROVE  MayCapture'
<1>1. Fixed' BY DEF Fixed
<1> QED BY <1>1 DEF MayCapture, Matches

\* A candidate becomes memory.
LEMMA InstallIsHonest ==
  ASSUME IInv, IInv', PInv, Install
  PROVE  PInv'
<1>1. /\ tx.at = "install" /\ UNCHANGED <<disk, boot, snap>>
  BY DEF Install, files
<1>2. /\ Types /\ tx.at # "idle" /\ tx.at \in Publishing /\ tx.at \in Written /\ tx.at \in InPlay
      /\ tx.cand \in Documents /\ tx.cand.epoch \in Nat /\ boot = "up" /\ ~snap.held
  <2>1. tx.at # "idle" BY <1>1
  <2> QED BY <1>1, <2>1, TransactionIs DEF IInv, Publishing, Written, InPlay
<1>3. CASE ~Unmoved
  <2>1. Fails /\ UNCHANGED <<live, publication, turn>> BY <1>3 DEF Install
  <2> QED BY <1>1, <1>2, <2>1, PlayFails
<1>4. CASE Unmoved
  <2>1. PICK c : c = tx.cand OBVIOUS
  <2>2. /\ live' = c /\ publication' = NoPublication /\ Outdate(c) /\ c.epoch >= live.epoch
        /\ disk = c /\ c \in Documents /\ c.epoch \in Nat /\ Sane(c)
    BY <1>2, <1>4, <2>1 DEF Install, Unmoved, IInv, TransactionIsSound, PInv, EverythingIsSane
  <2>3. live.epoch \in Nat /\ \A u \in Users : c.subj[u].rev \in Nat
    BY <1>2, <2>2, FilesAre, DocumentIs, SubjectIs
  <2>4. \/ tx' = Idle
        \/ tx'.at = "finish" /\ tx'.cand = c
    <3>1. CASE tx.replay BY <1>4, <3>1 DEF Install, Settles
    <3>2. CASE ~tx.replay
      <4>1. Goto("finish") BY <1>4, <3>2 DEF Install
      <4>2. "finish" \in {"deny"} \cup Publishing BY DEF Publishing
      <4> QED BY <1>2, <2>1, <4>1, <4>2, GotoIs
    <3> QED BY <3>1, <3>2
  <2>5. /\ tx'.at \in {"idle", "finish"} /\ tx'.cand \in {c, Document({})}
        /\ tx'.at = "idle" => tx'.cand = Document({})
    BY <2>4, EmptyDocumentIs
  <2>6. publication'.known = FALSE BY <2>2 DEF NoPublication
  <2>7. \A d : InHand(d)' => d = c \/ d = Document({}) BY <1>1, <1>2, <2>2, <2>5 DEF InHand
  <2>8. TurnsAreTyped' BY <2>2, OutdateIs DEF PInv
  <2>9. EverythingIsSane'
    <3>1. Sane(live') /\ Sane(disk') /\ Sane(snap'.doc) /\ Sane(tx'.cand)
      BY <1>1, <2>2, <2>5, EmptyDocumentIs DEF PInv, EverythingIsSane
    <3> QED BY <3>1 DEF EverythingIsSane, Sane
  <2>10. MemoryLeads'
    <3>1. Document({})' = Document({}) BY DEF Document, Subject
    <3>2. disk' = live' /\ live'.epoch <= live'.epoch
          /\ \A u \in Users : live'.subj[u].rev <= live'.subj[u].rev
      BY <1>1, <2>2, <2>3
    <3>3. tx'.at = "finish" => live' = tx'.cand BY <2>2, <2>4, EmptyDocumentIs
    <3> QED BY <1>1, <1>2, <2>5, <2>6, <3>1, <3>2, <3>3 DEF MemoryLeads
  <2>11. MayCapture'
    <3>1. tx'.at \notin InPlay BY <2>5 DEF InPlay
    <3> QED BY <2>2, <2>6, <2>7, <3>1, EmptyDocumentIs, OneDocument
  <2>12. PermitsAreHonest'
    <3>1. \A t \in Turns : /\ turn'[t].at = turn[t].at /\ turn'[t].user = turn[t].user
                           /\ turn'[t].stamp = turn[t].stamp
                           /\ ~Lost(c, turn[t].user) => turn'[t] = turn[t]
      BY <2>2, OutdateIs DEF PInv
    <3>2. CASE c.epoch > live.epoch BY <2>2, <3>1, <3>2, PermitsPass
    <3>3. CASE c.epoch = live.epoch
      <4>1. Fixed' BY <2>5, <2>6 DEF Fixed, InPlay
      <4> SUFFICES ASSUME NEW t \in Turns, turn[t].at = "held"
                   PROVE  /\ turn[t].stamp[2] <= c.epoch
                          /\ turn[t].stamp[2] = c.epoch =>
                               \A d : d = c \/ d = Document({}) =>
                                 (Matches(d, turn[t].user, turn[t].stamp[1], turn[t].stamp[2]) =>
                                    turn'[t].fresh /\ turn[t].user \in d.facts)
        BY <2>2, <2>7, <3>1, <4>1 DEF PermitsAreHonest, Honours, Matches
      <4>2. turn[t].stamp[2] <= c.epoch BY <3>3 DEF PInv, PermitsAreHonest
      <4>3. ASSUME turn[t].stamp[2] = c.epoch, Matches(c, turn[t].user, turn[t].stamp[1], turn[t].stamp[2])
            PROVE  turn'[t].fresh /\ turn[t].user \in c.facts
        <5>1. InHand(c) BY <2>1 DEF InHand
        <5>2. Honours(c, t) BY <3>3, <4>3, <5>1 DEF PInv, PermitsAreHonest
        <5>3. turn[t].fresh /\ turn[t].user \in c.facts BY <4>3, <5>2 DEF Honours
        <5>4. ~Lost(c, turn[t].user) BY <4>3, <5>3 DEF Lost, Matches
        <5> QED BY <3>1, <5>3, <5>4
      <4>4. ~Matches(Document({}), turn[t].user, turn[t].stamp[1], turn[t].stamp[2])
        <5>1. turn[t].user \in Users BY PermitIs DEF PInv
        <5> QED BY <5>1, EmptyDocumentIs DEF Matches
      <4> QED BY <4>2, <4>3, <4>4
    <3> QED BY <2>2, <2>3, <3>2, <3>3
  <2> QED BY <2>8, <2>9, <2>10, <2>11, <2>12 DEF PInv
<1> QED BY <1>3, <1>4

\* The transaction ends; where the barrier opens, memory is what is on disk.
LEMMA FinishIsHonest ==
  ASSUME IInv, IInv', PInv, Finish
  PROVE  PInv'
<1>1. /\ tx.at = "finish" /\ tx' = Idle
      /\ blocked' = (blocked /\ ~(IsEmpty(tx.journal) /\ NoDenials /\ live.epoch = tx.cand.epoch))
      /\ UNCHANGED <<live, publication, disk, boot, snap, turn>>
  BY DEF Finish, Settles, files
<1>2. /\ Types /\ tx.at # "idle" /\ tx.cand \in Documents /\ tx.cand.epoch \in Nat
      /\ boot = "up" /\ ~snap.held /\ disk = tx.cand
  <2>1. tx.at # "idle" /\ tx.at \in Written BY <1>1 DEF Written
  <2> QED BY <2>1, TransactionIs DEF IInv, TransactionIsSound
<1>3. live.epoch \in Nat /\ \A u \in Users : live.subj[u].rev \in Nat
  <2>1. live \in Documents BY <1>2 DEF Types
  <2> QED BY <2>1, DocumentIs, SubjectIs
<1>4. ~publication.known /\ (~blocked' => live = disk)
  <2>1. ~publication.known /\ (live = tx.cand \/ (blocked /\ live.epoch > tx.cand.epoch))
    BY <1>1 DEF PInv, MemoryLeads
  <2>2. ~blocked' => ~blocked \/ live.epoch = tx.cand.epoch BY <1>1
  <2> QED BY <1>2, <1>3, <2>1, <2>2
<1>5. tx'.at = "idle" /\ tx'.cand = Document({}) BY <1>1, EmptyDocumentIs
<1>6. TurnsAreTyped' BY <1>1 DEF PInv, TurnsAreTyped
<1>7. EverythingIsSane'
  <2>1. Sane(live') /\ Sane(disk') /\ Sane(snap'.doc) /\ Sane(tx'.cand)
    BY <1>1, <1>5, EmptyDocumentIs DEF PInv, EverythingIsSane
  <2> QED BY <2>1 DEF EverythingIsSane, Sane
<1>8. MemoryLeads'
  <2>1. Document({})' = Document({}) BY DEF Document, Subject
  <2>2. live.epoch <= live.epoch /\ \A u \in Users : live.subj[u].rev <= live.subj[u].rev BY <1>3
  <2>3. ~blocked' => /\ ~publication'.known /\ disk'.epoch <= live'.epoch
                     /\ \A u \in Users : disk'.subj[u].rev <= live'.subj[u].rev
    BY <1>1, <1>4, <2>2
  <2> QED BY <1>1, <1>2, <1>5, <2>1, <2>3 DEF MemoryLeads
<1>9. \A d : InHand(d)' => d = live \/ d = disk \/ d = Document({})
  BY <1>1, <1>2, <1>5 DEF InHand
<1>10. Fixed' BY <1>1, <1>4, <1>5 DEF Fixed, InPlay
<1>11. MayCapture'
  <2>1. CASE blocked' BY <2>1 DEF MayCapture
  <2>2. CASE ~blocked'
    <3>1. \A d : InHand(d)' => d = live' \/ \A u \in Users : ~d.subj[u].on
      BY <1>1, <1>4, <1>9, <2>2, EmptyDocumentIs
    <3>2. ~publication'.known /\ tx'.at \notin InPlay BY <1>1, <1>4, <1>5 DEF InPlay
    <3> QED BY <3>1, <3>2, OneDocument
  <2> QED BY <2>1, <2>2
<1>12. PermitsAreHonest'
  <2> SUFFICES ASSUME NEW t \in Turns, turn[t].at = "held"
               PROVE  /\ turn[t].stamp[2] <= live.epoch
                      /\ turn[t].stamp[2] = live.epoch =>
                           \A d : d = live \/ d = disk \/ d = Document({}) => Honours(d, t)
    BY <1>1, <1>9, <1>10 DEF PermitsAreHonest, Honours, Matches
  <2>1. turn[t].user \in Users BY PermitIs DEF PInv
  <2>2. Honours(Document({}), t) BY <2>1, EmptyDocumentIs DEF Honours, Matches
  <2>3. InHand(live) /\ InHand(disk) BY DEF InHand
  <2> QED BY <2>2, <2>3 DEF PInv, PermitsAreHonest
<1> QED BY <1>6, <1>7, <1>8, <1>11, <1>12 DEF PInv

\* The process dies, and every permit with it.
LEMMA CrashIsHonest ==
  ASSUME IInv, IInv', PInv, Crash
  PROVE  PInv'
<1>1. /\ live' = disk /\ blocked' = TRUE /\ publication' = NoPublication /\ tx' = Idle
      /\ snap' = NoSnapshot /\ turn' = [t \in Turns |-> Silent] /\ disk' = disk
  BY DEF Crash, files
<1>2. /\ Silent \in [at : {"idle", "held"}, user : Users \cup {Nobody}, stamp : Stamps, fresh : BOOLEAN]
      /\ Silent.at # "held"
  BY DEF Silent, Stamps
<1>3. TurnsAreTyped' /\ \A t \in Turns : turn'[t].at # "held"
  BY <1>1, <1>2 DEF TurnsAreTyped, Stamps
<1>4. /\ tx'.at = "idle" /\ tx'.cand = Document({}) /\ ~snap'.held /\ snap'.doc = Document({})
      /\ ~publication'.known
  BY <1>1, EmptyDocumentIs DEF NoPublication
<1>5. EverythingIsSane'
  <2>1. Sane(live') /\ Sane(disk') /\ Sane(snap'.doc) /\ Sane(tx'.cand)
    BY <1>1, <1>4, EmptyDocumentIs DEF PInv, EverythingIsSane
  <2> QED BY <2>1 DEF EverythingIsSane, Sane
<1>6. MemoryLeads'
  <2>1. Document({})' = Document({}) BY DEF Document, Subject
  <2> QED BY <1>1, <1>3, <1>4, <2>1 DEF MemoryLeads
<1>7. MayCapture' BY <1>1 DEF MayCapture
<1>8. PermitsAreHonest' BY <1>3 DEF PermitsAreHonest
<1> QED BY <1>3, <1>5, <1>6, <1>7, <1>8 DEF PInv

\* What a restart serves is what it wrote, and it serves it before any reply.
LEMMA RecoverIsHonest ==
  ASSUME IInv, IInv', PInv, Recover
  PROVE  PInv'
<1>1. /\ boot \in {"write", "clear"} /\ UNCHANGED <<publication, tx, snap, turn>>
  BY DEF Recover, RecoverDocument, RecoverJournal, RecoveryFails, memory
<1>2. /\ Types /\ disk \in Documents /\ live \in Documents /\ marker \in Journals
      /\ tx = Idle /\ ~snap.held /\ blocked
      /\ ~publication.known /\ \A t \in Turns : turn[t].at # "held"
  BY <1>1 DEF IInv, Types, RecoveryIsFirst, PInv, MemoryLeads
<1>3. PICK repaired : repaired = Recovered(disk, marker) OBVIOUS
<1>4. PICK n \in Nat : Covers(n, marker) BY DEF IInv, WithdrawalsAreKept
<1>5. Sane(repaired)
  <2>1. Follows(repaired, disk) BY <1>2, <1>3, <1>4, RecoveredIs
  <2> QED BY <2>1, SaneFollows DEF PInv, EverythingIsSane
<1>6. /\ disk' \in {disk, repaired} /\ live' \in {live, disk'} /\ (~blocked' => live' = disk')
  BY <1>1, <1>2, <1>3 DEF Recover, RecoverDocument, RecoverJournal, RecoveryFails, Serve, memory
<1>7. TurnsAreTyped' BY <1>1 DEF PInv, TurnsAreTyped
<1>8. EverythingIsSane'
  <2>1. Sane(live') /\ Sane(disk') /\ Sane(snap'.doc) /\ Sane(tx'.cand)
    BY <1>1, <1>5, <1>6 DEF PInv, EverythingIsSane
  <2> QED BY <2>1 DEF EverythingIsSane, Sane
<1>9. tx'.at = "idle" /\ tx'.cand = Document({}) /\ ~snap'.held BY <1>1, <1>2, EmptyDocumentIs
<1>10. MemoryLeads'
  <2>1. Document({})' = Document({}) BY DEF Document, Subject
  <2>2. live' \in Documents BY DEF IInv, Types
  <2>3. live'.epoch <= live'.epoch /\ \A u \in Users : live'.subj[u].rev <= live'.subj[u].rev
    BY <2>2, DocumentIs, SubjectIs
  <2>4. ~blocked' => /\ ~publication'.known /\ disk'.epoch <= live'.epoch
                     /\ \A u \in Users : disk'.subj[u].rev <= live'.subj[u].rev
    BY <1>1, <1>2, <1>6, <2>3
  <2> QED BY <1>1, <1>2, <1>9, <2>1, <2>4 DEF MemoryLeads
<1>11. MayCapture'
  <2>1. CASE blocked' BY <2>1 DEF MayCapture
  <2>2. CASE ~blocked'
    <3>1. \A d : InHand(d)' => d = live' \/ \A u \in Users : ~d.subj[u].on
      BY <1>6, <1>9, <2>2, EmptyDocumentIs DEF InHand
    <3>2. ~publication'.known /\ tx'.at \notin InPlay BY <1>1, <1>2, <1>9 DEF InPlay
    <3> QED BY <3>1, <3>2, OneDocument
  <2> QED BY <2>1, <2>2
<1>12. PermitsAreHonest' BY <1>1, <1>2 DEF PermitsAreHonest
<1> QED BY <1>7, <1>8, <1>10, <1>11, <1>12 DEF PInv

\* At first there is one document and no permit.
LEMMA InitIsHonest == Init => PInv
<1> SUFFICES ASSUME Init PROVE PInv OBVIOUS
<1>1. PICK S \in SUBSET Users : live = Document(S) BY DEF Init
<1>2. /\ disk = live /\ publication = NoPublication /\ boot = "up" /\ tx = Idle /\ snap = NoSnapshot
      /\ turn = [t \in Turns |-> Silent]
  BY DEF Init
<1>3. live \in Documents /\ Sane(live) BY <1>1, FirstIs
<1>4. /\ Silent \in [at : {"idle", "held"}, user : Users \cup {Nobody}, stamp : Stamps, fresh : BOOLEAN]
      /\ Silent.at # "held"
  BY DEF Silent, Stamps
<1>5. TurnsAreTyped /\ \A t \in Turns : turn[t].at # "held" BY <1>2, <1>4 DEF TurnsAreTyped
<1>6. /\ tx.at = "idle" /\ tx.cand = Document({}) /\ ~snap.held /\ snap.doc = Document({})
      /\ ~publication.known
  BY <1>2, EmptyDocumentIs DEF NoPublication
<1>7. EverythingIsSane BY <1>2, <1>3, <1>6, EmptyDocumentIs DEF EverythingIsSane
<1>8. MemoryLeads
  <2>1. live.epoch <= live.epoch /\ \A u \in Users : live.subj[u].rev <= live.subj[u].rev
    BY <1>3, DocumentIs, SubjectIs
  <2> QED BY <1>2, <1>6, <2>1 DEF MemoryLeads
<1>9. MayCapture
  <2>1. Fixed BY <1>6 DEF Fixed, InPlay
  <2>2. \A d : InHand(d) => d = live \/ \A u \in Users : ~d.subj[u].on
    BY <1>2, <1>6, EmptyDocumentIs DEF InHand
  <2> QED BY <2>1, <2>2 DEF MayCapture, Matches
<1>10. PermitsAreHonest BY <1>5 DEF PermitsAreHonest
<1> QED BY <1>5, <1>7, <1>8, <1>9, <1>10 DEF PInv

\* Every step keeps what is said of permits.
LEMMA PermitsKeep == IInv /\ IInv' /\ PInv /\ [Next]_vars => PInv'
<1> SUFFICES ASSUME IInv, IInv', PInv, [Next]_vars PROVE PInv' OBVIOUS
<1>1. ASSUME NEW r \in Requests, Start(r) PROVE PInv'
  <2>1. CASE StartReplay(r) BY <2>1, StartReplayIsPlay
  <2>2. CASE StartFresh(r) BY <2>2, StartFreshIsPlay
  <2>3. CASE StartMark(r) BY <2>3, StartMarkIsPlay
  <2>4. CASE RefuseFresh(r) BY <2>4, AnswersStay
  <2> QED BY <1>1, <2>1, <2>2, <2>3, <2>4 DEF Start
<1>2. ASSUME NEW r \in Requests,
             \/ \E u \in Users, k \in Kinds : Ask(r, u, k)
             \/ AdmitKnown(r) \/ AdmitOther(r) \/ Retry(r)
      PROVE  PInv'
  BY <1>2, AnswersStay
<1>3. ASSUME NEW r \in Requests, AdmitWithdrawal(r) PROVE PInv' BY <1>3, WithdrawalPasses
<1>4. CASE Step
  <2>1. CASE PublishMark \/ PublishMarkOnly \/ MarkFails \/ Deny \/ DenyFails BY <2>1, MarkingIsPlay
  <2>2. CASE WriteCandidate BY <2>2, WritingIsPlay
  <2>3. CASE WriteFails \/ ProjectFails \/ RetireFails BY <2>3, FailureIsPlay
  <2>4. CASE Project BY <2>4, ProjectIsPlay
  <2>5. CASE Check \/ Retire BY <2>5, CheckIsPlay
  <2>6. CASE Install BY <2>6, InstallIsHonest
  <2>7. CASE Finish BY <2>7, FinishIsHonest
  <2> QED BY <1>4, <2>1, <2>2, <2>3, <2>4, <2>5, <2>6, <2>7 DEF Step
<1>5. ASSUME NEW u \in Users, Learn(u) \/ Unlearn(u) PROVE PInv' BY <1>5, FactsPass
<1>6. CASE TakeSnapshot \/ WriteSnapshot \/ SnapshotFails BY <1>6, SnapshotsRest
<1>7. ASSUME NEW t \in Turns, Deliver(t) PROVE PInv' BY <1>7, DeliverStays
<1>8. ASSUME NEW t \in Turns, NEW u \in Users, Capture(t, u) PROVE PInv' BY <1>8, CaptureIsHonest
<1>9. CASE Crash BY <1>9, CrashIsHonest
<1>10. CASE Recover BY <1>10, RecoverIsHonest
<1>11. CASE UNCHANGED vars BY <1>11, AnswersStay
<1> QED BY <1>1, <1>2, <1>3, <1>4, <1>5, <1>6, <1>7, <1>8, <1>9, <1>10, <1>11 DEF Next

\* PermitsEnd: permits captured with a context do not outlive it.  Once the member
\* has withdrawn or forgotten the fact they never validate again, through whatever
\* becomes memory later (MemoryUsePermitSet::validate).
THEOREM PermitsHold == Spec => []PermitsEnd
<1>1. Init => PInv BY InitIsHonest
<1>2. IInv /\ IInv' /\ PInv /\ [Next]_vars => PInv' BY PermitsKeep
<1>3. ASSUME IInv, PInv PROVE PermitsEnd
  <2> SUFFICES ASSUME NEW t \in Turns, Valid(t) PROVE turn[t].fresh BY DEF PermitsEnd
  <2>1. /\ turn[t].at = "held" /\ live.subj[turn[t].user].on
        /\ Stamp(live, turn[t].user) = turn[t].stamp
    BY DEF Valid, Authorizes
  <2>2. /\ turn[t].user \in Users /\ turn[t].stamp[1] = live.subj[turn[t].user].rev
        /\ turn[t].stamp[2] = live.epoch
    BY <1>3, <2>1, PermitIs DEF PInv, Stamp
  <2>3. InHand(live) /\ Honours(live, t)
    BY <1>3, <2>1, <2>2 DEF PInv, PermitsAreHonest, InHand
  <2>4. live.epoch \in Nat /\ live.subj[turn[t].user].rev \in Nat
    <3>1. Types BY <1>3 DEF IInv
    <3> QED BY <2>2, <2>3, <3>1, InHandIs
  <2> QED BY <2>1, <2>2, <2>3, <2>4 DEF Honours, Matches
<1>4. IInv /\ PInv => PermitsEnd BY <1>3
<1> QED BY <1>1, <1>2, <1>4, MemoryIsSound, PTL DEF Spec

-----------------------------------------------------------------------------
(* What becomes of a document, field by field                              *)

\* fold_denials of one entry: the use is closed, and an activation that the entry
\* denies is not known any more.
LEMMA FoldEntryDoes ==
  ASSUME Types, NEW s \in Subjects, NEW w \in Marks
  PROVE  LET e == FoldEntry(s, w)
         IN  /\ w = NoMark => e = s
             /\ w # NoMark =>
                  /\ ~e.on /\ ~e.pending
                  /\ \A r \in Requests :
                       e.out[r] = IF r = w.by /\ req[r].kind = "on" THEN "none" ELSE s.out[r]
<1>1. CASE w = NoMark BY <1>1 DEF FoldEntry
<1>2. CASE w # NoMark
  <2> DEFINE rev == Larger(s.rev, w.rev) + (IF s.on \/ s.pending THEN 1 ELSE 0)
             out == [r \in Requests |-> IF r = w.by /\ req[r].kind = "on" THEN "none" ELSE s.out[r]]
  <2>1. FoldEntry(s, w) = [s EXCEPT !.on = FALSE, !.pending = FALSE, !.rev = rev, !.out = out]
    BY <1>2 DEF FoldEntry
  <2>2. \A r \in Requests : out[r] = IF r = w.by /\ req[r].kind = "on" THEN "none" ELSE s.out[r] OBVIOUS
  <2> HIDE DEF rev, out
  <2>3. PICK a, p, o, n, b : s = [rev |-> a, on |-> b, pending |-> n, proof |-> p, out |-> o] BY SubjectIs
  <2>4. FoldEntry(s, w) = [rev |-> rev, on |-> FALSE, pending |-> FALSE, proof |-> p, out |-> out]
    BY <2>1, <2>3
  <2> QED BY <1>2, <2>2, <2>4
<1> QED BY <1>1, <1>2

\* fold_denials
LEMMA FoldDoes ==
  ASSUME Types, NEW d \in Documents, NEW m \in Journals
  PROVE  LET e == FoldDenials(d, m)
         IN  /\ Folds(e, d, m, req)
             /\ \A u \in Users : ~Marked(m, u) => e.subj[u] = d.subj[u]
             /\ \A u \in Users : Marked(m, u) => ~e.subj[u].pending
<1> DEFINE e == FoldDenials(d, m)
           Once(u) == FoldEntry(d.subj[u], m.off[u])
           Twice(u) == FoldEntry(Once(u), m.on[u])
<1>1. \A u \in Users : d.subj[u] \in Subjects /\ m.off[u] \in Marks /\ m.on[u] \in Marks
  BY DocumentIs, JournalIs
<1>2. e.facts = d.facts /\ \A u \in Users : e.subj[u] = Twice(u)
  <2>1. PICK k : k = CHOOSE n \in {d.epoch} \cup {w.epoch : w \in Entries(m)} :
                       \A w \in Entries(m) : n >= w.epoch /\ n >= d.epoch
    OBVIOUS
  <2>2. PICK S : S = [u \in Users |-> Twice(u)] OBVIOUS
  <2>3. e = [d EXCEPT !.subj = S, !.epoch = k] BY <2>1, <2>2 DEF FoldDenials
  <2>4. PICK f, T, n : d = [facts |-> f, subj |-> T, epoch |-> n] BY DocumentIs
  <2>5. e = [facts |-> f, subj |-> S, epoch |-> k] BY <2>3, <2>4
  <2>6. \A u \in Users : S[u] = Twice(u) BY <2>2
  <2> HIDE DEF e, Twice
  <2> QED BY <2>4, <2>5, <2>6
<1> HIDE DEF e
<1>3. ASSUME NEW u \in Users
      PROVE  /\ Once(u) \in Subjects
             /\ m.off[u] = NoMark => Once(u) = d.subj[u]
             /\ m.off[u] # NoMark =>
                  /\ ~Once(u).on /\ ~Once(u).pending
                  /\ \A r \in Requests :
                       Once(u).out[r] = IF r = m.off[u].by /\ req[r].kind = "on" THEN "none" ELSE d.subj[u].out[r]
  BY <1>1, FoldEntryIs, FoldEntryDoes
<1> HIDE DEF Once
<1>4. ASSUME NEW u \in Users
      PROVE  /\ m.on[u] = NoMark => Twice(u) = Once(u)
             /\ m.on[u] # NoMark =>
                  /\ ~Twice(u).on /\ ~Twice(u).pending
                  /\ \A r \in Requests :
                       Twice(u).out[r] = IF r = m.on[u].by /\ req[r].kind = "on" THEN "none" ELSE Once(u).out[r]
  BY <1>1, <1>3, FoldEntryDoes
<1> HIDE DEF Twice
<1>5. ASSUME NEW u \in Users, ~Marked(m, u) PROVE e.subj[u] = d.subj[u]
  BY <1>2, <1>3, <1>4, <1>5 DEF Marked
<1>6. ASSUME NEW u \in Users, Marked(m, u) PROVE ~e.subj[u].on /\ ~e.subj[u].pending
  BY <1>2, <1>3, <1>4, <1>6 DEF Marked
<1>7. ASSUME NEW u \in Users, NEW r \in Requests
      PROVE  /\ e.subj[u].out[r] # "none" => d.subj[u].out[r] # "none"
             /\ d.subj[u].out[r] # "none" =>
                  \/ e.subj[u].out[r] # "none"
                  \/ req[r].kind = "on" /\ (m.off[u].by = r \/ m.on[u].by = r)
             /\ req[r].kind = "on" /\ Marked(m, u) /\ Names(m, u, r) => e.subj[u].out[r] = "none"
  <2>1. e.subj[u] = Twice(u) BY <1>2
  <2>2. CASE m.on[u] = NoMark /\ m.off[u] = NoMark BY <1>3, <1>4, <2>1, <2>2 DEF Marked
  <2>3. CASE m.on[u] = NoMark /\ m.off[u] # NoMark BY <1>3, <1>4, <2>1, <2>3 DEF Marked, Names, By
  <2>4. CASE m.on[u] # NoMark /\ m.off[u] = NoMark BY <1>3, <1>4, <2>1, <2>4 DEF Marked, Names, By
  <2>5. CASE m.on[u] # NoMark /\ m.off[u] # NoMark BY <1>3, <1>4, <2>1, <2>5 DEF Marked, Names, By
  <2> QED BY <2>2, <2>3, <2>4, <2>5
<1>8. Folds(e, d, m, req)
  <2>1. ASSUME NEW u \in Users
        PROVE  /\ ~Marked(m, u) => e.subj[u].on = d.subj[u].on
               /\ e.subj[u].pending => d.subj[u].pending /\ ~Marked(m, u)
    BY <1>5, <1>6
  <2> QED BY <1>2, <1>6, <1>7, <2>1 DEF Folds
<1> QED BY <1>5, <1>6, <1>8 DEF e

\* complete_qualified_outcomes
LEMMA CompleteDoes ==
  ASSUME NEW d \in Documents
  PROVE  LET e == CompleteOutcomes(d)
         IN  /\ e.facts = d.facts
             /\ \A u \in Users :
                  /\ e.subj[u].on = d.subj[u].on /\ e.subj[u].pending = d.subj[u].pending
                  /\ \A r \in Requests : e.subj[u].out[r] = "none" <=> d.subj[u].out[r] = "none"
<1> DEFINE e == CompleteOutcomes(d)
<1>1. d.subj \in [Users -> Subjects] BY DocumentIs
<1>2. PICK S : S = [u \in Users |-> Completed(d.subj[u])] OBVIOUS
<1>3. PICK f, T, k : d = [facts |-> f, subj |-> T, epoch |-> k] BY DocumentIs
<1>4. e = [d EXCEPT !.subj = S] BY <1>2 DEF CompleteOutcomes
<1>5. e.facts = d.facts /\ \A u \in Users : e.subj[u] = Completed(d.subj[u])
  <2>1. e = [facts |-> f, subj |-> S, epoch |-> k] BY <1>3, <1>4
  <2> HIDE DEF e
  <2> QED BY <1>2, <1>3, <2>1
<1> HIDE DEF e
<1>6. ASSUME NEW s \in Subjects
      PROVE  /\ Completed(s).on = s.on /\ Completed(s).pending = s.pending
             /\ \A r \in Requests : Completed(s).out[r] = "none" <=> s.out[r] = "none"
  <2>1. PICK out : out = [r \in Requests |-> IF s.out[r] = "none" THEN "none" ELSE "done"] OBVIOUS
  <2>2. Completed(s) = [s EXCEPT !.out = out] BY <2>1 DEF Completed
  <2>3. PICK a, b, n, p, o : s = [rev |-> a, on |-> b, pending |-> n, proof |-> p, out |-> o] BY SubjectIs
  <2>4. Completed(s) = [rev |-> a, on |-> b, pending |-> n, proof |-> p, out |-> out] BY <2>2, <2>3
  <2>5. \A r \in Requests : out[r] = "none" <=> s.out[r] = "none" BY <2>1
  <2> QED BY <2>3, <2>4, <2>5
<1> QED BY <1>1, <1>5, <1>6 DEF e

\* recover_owned, when every choice that is under way is in the journal
LEMMA RecoveredDoes ==
  ASSUME Types, NEW d \in Documents, NEW m \in Journals, NEW n \in Nat, Covers(n, m),
         \A u \in Users : d.subj[u].pending => Marked(m, u)
  PROVE  LET e == Recovered(d, m)
         IN  Folds(e, d, m, req) /\ \A u \in Users : ~e.subj[u].pending
<1>1. PICK folded : folded = FoldDenials(d, m) OBVIOUS
<1>2. /\ folded \in Documents /\ Folds(folded, d, m, req)
      /\ \A u \in Users : ~folded.subj[u].pending
  <2>1. folded \in Documents BY <1>1, FoldIs
  <2>2. /\ Folds(folded, d, m, req)
        /\ \A u \in Users : ~Marked(m, u) => folded.subj[u] = d.subj[u]
        /\ \A u \in Users : Marked(m, u) => ~folded.subj[u].pending
    BY <1>1, FoldDoes
  <2>3. \A u \in Users : d.subj[u].pending \in BOOLEAN BY DocumentIs, SubjectIs
  <2> QED BY <2>1, <2>2, <2>3
<1>3. PICK unresolved : unresolved = {u \in Users : folded.subj[u].pending} OBVIOUS
<1>4. PICK S, k : /\ S = [u \in Users |-> IF u \in unresolved THEN Closed(folded.subj[u]) ELSE folded.subj[u]]
                  /\ k = IF unresolved = {} THEN folded.epoch ELSE folded.epoch + 1
  OBVIOUS
<1>5. Recovered(d, m) = CompleteOutcomes(folded)
  <2>1. PICK resolved : resolved = [folded EXCEPT !.subj = S, !.epoch = k] OBVIOUS
  <2>2. Recovered(d, m) = CompleteOutcomes(resolved) BY <1>1, <1>3, <1>4, <2>1 DEF Recovered
  <2>3. PICK f, T, n0 : folded = [facts |-> f, subj |-> T, epoch |-> n0] BY <1>2, DocumentIs
  <2>4. T \in [Users -> Subjects] BY <1>2, <2>3, DocumentIs
  <2>5. unresolved = {} BY <1>2, <1>3
  <2>6. S = T /\ k = n0 BY <1>4, <2>3, <2>4, <2>5
  <2>7. resolved = [facts |-> f, subj |-> S, epoch |-> k] BY <2>1, <2>3
  <2>8. resolved = folded BY <2>3, <2>6, <2>7
  <2> QED BY <2>2, <2>8
<1>6. PICK e : e = Recovered(d, m) OBVIOUS
<1>7. /\ e.facts = folded.facts
      /\ \A u \in Users :
           /\ e.subj[u].on = folded.subj[u].on /\ e.subj[u].pending = folded.subj[u].pending
           /\ \A r \in Requests : e.subj[u].out[r] = "none" <=> folded.subj[u].out[r] = "none"
  <2>1. e = CompleteOutcomes(folded) BY <1>5, <1>6
  <2> QED BY <1>2, <2>1, CompleteDoes
<1>8. Folds(e, d, m, req)
  <2>1. e.facts = d.facts BY <1>2, <1>7 DEF Folds
  <2>2. ASSUME NEW u \in Users
        PROVE  /\ ~Marked(m, u) => e.subj[u].on = d.subj[u].on
               /\ Marked(m, u) => ~e.subj[u].on
               /\ e.subj[u].pending => d.subj[u].pending /\ ~Marked(m, u)
    BY <1>2, <1>7 DEF Folds
  <2>3. ASSUME NEW u \in Users, NEW r \in Requests
        PROVE  /\ e.subj[u].out[r] # "none" => d.subj[u].out[r] # "none"
               /\ d.subj[u].out[r] # "none" =>
                    \/ e.subj[u].out[r] # "none"
                    \/ req[r].kind = "on" /\ (m.off[u].by = r \/ m.on[u].by = r)
               /\ req[r].kind = "on" /\ Marked(m, u) /\ Names(m, u, r) => e.subj[u].out[r] = "none"
    BY <1>2, <1>7 DEF Folds
  <2> QED BY <2>1, <2>2, <2>3 DEF Folds
<1> QED BY <1>2, <1>6, <1>7, <1>8

\* UninstalledPublication::rebase
LEMMA RebaseDoes ==
  ASSUME NEW l \in Documents, NEW before \in Documents, NEW d \in Documents
  PROVE  LET e == Rebase(l, before, d)
         IN  \A u \in Users :
               /\ (u \in e.facts) =
                    (IF (u \in l.facts) = (u \in before.facts) THEN u \in d.facts ELSE u \in l.facts)
               /\ l.subj[u] = before.subj[u] =>
                    /\ e.subj[u].on = d.subj[u].on /\ e.subj[u].pending = d.subj[u].pending
                    /\ e.subj[u].out = d.subj[u].out
               /\ l.subj[u] # before.subj[u] =>
                    /\ e.subj[u].on = (l.subj[u].on /\ d.subj[u].on)
                    /\ e.subj[u].pending => /\ l.subj[u].on /\ d.subj[u].on
                                            /\ l.subj[u].pending \/ d.subj[u].pending
                    /\ \A r \in Requests :
                         e.subj[u].out[r] = (IF l.subj[u].out[r] = before.subj[u].out[r]
                                               THEN d.subj[u].out[r] ELSE l.subj[u].out[r])
<1> DEFINE s(u) == RebasedSubject(l, before, d, u)
           facts == RebasedFacts(l, before, d)
           t(u) == [s(u) EXCEPT !.proof = @ /\ u \in facts]
           epoch == Larger(l.epoch, d.epoch)
<1>1. /\ l.subj \in [Users -> Subjects] /\ before.subj \in [Users -> Subjects]
      /\ d.subj \in [Users -> Subjects]
  BY DocumentIs
<1>2. ASSUME NEW u \in Users
      PROVE  /\ t(u).on = s(u).on /\ t(u).pending = s(u).pending /\ t(u).out = s(u).out
             /\ l.subj[u] = before.subj[u] => s(u) = d.subj[u]
             /\ l.subj[u] # before.subj[u] =>
                  /\ s(u).on = (l.subj[u].on /\ d.subj[u].on)
                  /\ s(u).pending = (l.subj[u].on /\ d.subj[u].on /\ (l.subj[u].pending \/ d.subj[u].pending))
                  /\ \A r \in Requests :
                       s(u).out[r] = (IF l.subj[u].out[r] = before.subj[u].out[r]
                                        THEN d.subj[u].out[r] ELSE l.subj[u].out[r])
  <2>1. PICK mine \in Subjects, old \in Subjects, new \in Subjects :
          mine = l.subj[u] /\ old = before.subj[u] /\ new = d.subj[u]
    BY <1>1
  <2>2. CASE mine = old
    <3>1. s(u) = new BY <2>1, <2>2 DEF RebasedSubject
    <3>2. PICK p : p = (new.proof /\ u \in facts) OBVIOUS
    <3>3. t(u) = [new EXCEPT !.proof = p] BY <3>1, <3>2
    <3> HIDE DEF s, t
    <3>4. PICK a, b, n, q, o : new = [rev |-> a, on |-> b, pending |-> n, proof |-> q, out |-> o] BY SubjectIs
    <3>5. t(u) = [rev |-> a, on |-> b, pending |-> n, proof |-> p, out |-> o] BY <3>3, <3>4
    <3> QED BY <2>1, <2>2, <3>1, <3>4, <3>5
  <2>3. CASE mine # old
    <3> DEFINE out == [r \in Requests |-> Merged(mine.out[r], old.out[r], new.out[r])]
               on == mine.on /\ new.on
               pending == mine.on /\ new.on /\ (mine.pending \/ new.pending)
               proof == Merged(mine.proof, old.proof, new.proof)
               rev == Larger(mine.rev, new.rev)
    <3>1. s(u) = [rev |-> rev, on |-> on, pending |-> pending, proof |-> proof, out |-> out]
      BY <2>1, <2>3 DEF RebasedSubject
    <3>2. \A r \in Requests : out[r] = IF mine.out[r] = old.out[r] THEN new.out[r] ELSE mine.out[r]
      BY DEF Merged
    <3>3. on = (mine.on /\ new.on) /\ pending = (mine.on /\ new.on /\ (mine.pending \/ new.pending)) OBVIOUS
    <3> HIDE DEF out, on, pending, proof, rev
    <3>4. PICK p : p = (proof /\ u \in facts) OBVIOUS
    <3>5. t(u) = [s(u) EXCEPT !.proof = p] BY <3>1, <3>4
    <3> HIDE DEF s, t
    <3>6. t(u) = [rev |-> rev, on |-> on, pending |-> pending, proof |-> p, out |-> out] BY <3>1, <3>5
    <3>7. /\ t(u).on = s(u).on /\ t(u).pending = s(u).pending /\ t(u).out = s(u).out
          /\ s(u).on = on /\ s(u).pending = pending /\ s(u).out = out
      BY <3>1, <3>6
    <3> QED BY <2>1, <2>3, <3>2, <3>3, <3>7
  <2> QED BY <2>2, <2>3
<1>3. Rebase(l, before, d) = [facts |-> facts, subj |-> [u \in Users |-> t(u)], epoch |-> epoch]
  BY DEF Rebase
<1>4. \A u \in Users : (u \in facts) =
        (IF (u \in l.facts) = (u \in before.facts) THEN u \in d.facts ELSE u \in l.facts)
  BY DEF RebasedFacts
<1> HIDE DEF s, t, facts, epoch
<1>5. PICK e : e = Rebase(l, before, d) OBVIOUS
<1>6. e.facts = facts /\ \A u \in Users : e.subj[u] = t(u) BY <1>3, <1>5
<1>7. ASSUME NEW u \in Users, l.subj[u] = before.subj[u]
      PROVE  /\ e.subj[u].on = d.subj[u].on /\ e.subj[u].pending = d.subj[u].pending
             /\ e.subj[u].out = d.subj[u].out
  BY <1>2, <1>6, <1>7
<1>8. ASSUME NEW u \in Users, l.subj[u] # before.subj[u]
      PROVE  /\ e.subj[u].on = (l.subj[u].on /\ d.subj[u].on)
             /\ e.subj[u].pending => /\ l.subj[u].on /\ d.subj[u].on
                                     /\ l.subj[u].pending \/ d.subj[u].pending
             /\ \A r \in Requests :
                  e.subj[u].out[r] = (IF l.subj[u].out[r] = before.subj[u].out[r]
                                        THEN d.subj[u].out[r] ELSE l.subj[u].out[r])
  <2>1. e.subj[u] = t(u) BY <1>6
  <2>2. t(u).on = s(u).on /\ t(u).pending = s(u).pending /\ t(u).out = s(u).out BY <1>2
  <2>3. /\ s(u).on = (l.subj[u].on /\ d.subj[u].on)
        /\ s(u).pending = (l.subj[u].on /\ d.subj[u].on /\ (l.subj[u].pending \/ d.subj[u].pending))
        /\ \A r \in Requests :
             s(u).out[r] = (IF l.subj[u].out[r] = before.subj[u].out[r]
                              THEN d.subj[u].out[r] ELSE l.subj[u].out[r])
    BY <1>2, <1>8
  <2>4. e.subj[u].on = s(u).on /\ e.subj[u].pending = s(u).pending /\ e.subj[u].out = s(u).out
    BY <2>1, <2>2
  <2>5. e.subj[u].pending => /\ l.subj[u].on /\ d.subj[u].on
                             /\ l.subj[u].pending \/ d.subj[u].pending
    BY <2>3, <2>4, Zenon
  <2> QED BY <2>3, <2>4, <2>5
<1> QED BY <1>4, <1>5, <1>6, <1>7, <1>8

\* apply_mutation
LEMMA ApplyDoes ==
  ASSUME Types, NEW r \in Requests, NEW u \in Users, u = Member(r), NEW d \in Documents
  PROVE  LET e == Apply(r, d)
         IN  /\ e.facts = AppliedFacts(r, d)
             /\ \A v \in Users \ {u} : e.subj[v] = d.subj[v]
             /\ e.subj[u].pending = d.subj[u].pending
             /\ Kind(r) \in {"on", "off"} => e.subj[u].on = (Kind(r) = "on")
             /\ Kind(r) \notin {"on", "off"} => e.subj[u].on = d.subj[u].on
             /\ e.subj[u].out[r] = "open"
             /\ \A q \in Requests \ {r} : e.subj[u].out[q] = d.subj[u].out[q]
<1> DEFINE proof == IF Kind(r) \in {"remember", "confirm"} THEN TRUE
                    ELSE IF Kind(r) = "forget" THEN FALSE ELSE d.subj[u].proof
           on == IF Kind(r) \in {"on", "off"} THEN Kind(r) = "on" ELSE d.subj[u].on
           s == [d.subj[u] EXCEPT !.on = on, !.proof = proof, !.rev = @ + 1, !.out[r] = "open"]
           S == [d.subj EXCEPT ![u] = s]
<1>1. d.subj \in [Users -> Subjects] /\ d.subj[u] \in Subjects BY DocumentIs
<1>2. PICK a, b, k, p, o : d.subj[u] = [rev |-> a, on |-> b, pending |-> k, proof |-> p, out |-> o]
  BY <1>1, SubjectIs
<1>3. o \in [Requests -> Outcome] BY <1>1, <1>2, SubjectIs
<1>4. PICK O : O = [o EXCEPT ![r] = "open"] OBVIOUS
<1>5. O[r] = "open" /\ \A q \in Requests \ {r} : O[q] = o[q] BY <1>3, <1>4
<1>6. /\ Kind(r) \in {"on", "off"} => on = (Kind(r) = "on")
      /\ Kind(r) \notin {"on", "off"} => on = d.subj[u].on
  OBVIOUS
<1>7. Apply(r, d) = [facts |-> AppliedFacts(r, d), epoch |-> d.epoch + 1, subj |-> S] BY DEF Apply
<1>8. PICK z : z = a + 1 OBVIOUS
<1>9. s = [d.subj[u] EXCEPT !.on = on, !.proof = proof, !.rev = z, !.out = O] BY <1>2, <1>4, <1>8
<1> HIDE DEF on, proof, s
<1>10. s = [rev |-> z, on |-> on, pending |-> k, proof |-> proof, out |-> O]
  <2>1. PICK t : t = d.subj[u] OBVIOUS
  <2>2. s = [t EXCEPT !.on = on, !.proof = proof, !.rev = z, !.out = O] BY <1>9, <2>1
  <2>3. t = [rev |-> a, on |-> b, pending |-> k, proof |-> p, out |-> o] BY <1>2, <2>1
  <2> QED BY <2>2, <2>3
<1>11. s.on = on /\ s.pending = k /\ s.out = O BY <1>10
<1>12. S[u] = s /\ \A v \in Users \ {u} : S[v] = d.subj[v] BY <1>1
<1> HIDE DEF S
<1>13. PICK e : e = Apply(r, d) OBVIOUS
<1>14. e.facts = AppliedFacts(r, d) /\ e.subj = S BY <1>7, <1>13
<1>15. /\ e.subj[u].pending = d.subj[u].pending /\ e.subj[u].on = on /\ e.subj[u].out = O
       /\ d.subj[u].out = o
  BY <1>2, <1>11, <1>12, <1>14
<1>16. \A v \in Users \ {u} : e.subj[v] = d.subj[v] BY <1>12, <1>14
<1>17. e.subj[u].out[r] = "open" /\ \A q \in Requests \ {r} : e.subj[u].out[q] = d.subj[u].out[q]
  BY <1>5, <1>15
<1>18. /\ Kind(r) \in {"on", "off"} => e.subj[u].on = (Kind(r) = "on")
       /\ Kind(r) \notin {"on", "off"} => e.subj[u].on = d.subj[u].on
  BY <1>6, <1>15
<1> QED BY <1>13, <1>14, <1>15, <1>16, <1>17, <1>18

\* What apply_mutation does to the facts.
LEMMA AppliedFactsAre ==
  ASSUME NEW r \in Requests, NEW d
  PROVE  /\ \A v : v # Member(r) => (v \in AppliedFacts(r, d)) = (v \in d.facts)
         /\ Kind(r) \notin {"remember", "forget"} => AppliedFacts(r, d) = d.facts
         /\ Kind(r) = "remember" => Member(r) \in AppliedFacts(r, d)
         /\ Kind(r) = "forget" => Member(r) \notin AppliedFacts(r, d)
BY DEF AppliedFacts

\* The in-memory fence touches nobody's requests or facts.
LEMMA FenceDoes ==
  ASSUME NEW d \in Documents, NEW u \in Users
  PROVE  LET e == Fence(d, u)
         IN  /\ e.facts = d.facts /\ ~e.subj[u].on /\ ~e.subj[u].pending
             /\ e.subj[u].out = d.subj[u].out
             /\ \A v \in Users \ {u} : e.subj[v] = d.subj[v]
<1> DEFINE s == [d.subj[u] EXCEPT !.on = FALSE, !.pending = FALSE, !.rev = @ + 1]
           e == Fence(d, u)
<1>1. d.subj \in [Users -> Subjects] /\ d.subj[u] \in Subjects BY DocumentIs
<1>2. ~s.on /\ ~s.pending /\ s.out = d.subj[u].out
  <2>1. PICK a, b, k, p, o : d.subj[u] = [rev |-> a, on |-> b, pending |-> k, proof |-> p, out |-> o]
    BY <1>1, SubjectIs
  <2>2. PICK z : z = a + 1 OBVIOUS
  <2>3. s = [d.subj[u] EXCEPT !.on = FALSE, !.pending = FALSE, !.rev = z] BY <2>1, <2>2
  <2> HIDE DEF s
  <2>4. s = [rev |-> z, on |-> FALSE, pending |-> FALSE, proof |-> p, out |-> o]
    <3>1. PICK t : t = d.subj[u] OBVIOUS
    <3>2. s = [t EXCEPT !.on = FALSE, !.pending = FALSE, !.rev = z] BY <2>3, <3>1
    <3>3. t = [rev |-> a, on |-> b, pending |-> k, proof |-> p, out |-> o] BY <2>1, <3>1
    <3> QED BY <3>2, <3>3
  <2> QED BY <2>1, <2>4
<1>3. e = [d EXCEPT !.subj = [d.subj EXCEPT ![u] = s], !.epoch = d.epoch + 1]
  BY DocumentIs, <1>1, SubjectIs DEF Fence
<1> HIDE DEF s, e
<1>4. PICK S, n : S = [d.subj EXCEPT ![u] = s] /\ n = d.epoch + 1 OBVIOUS
<1>5. S[u] = s /\ \A v \in Users \ {u} : S[v] = d.subj[v] BY <1>1, <1>4
<1>6. PICK f, T, k : d = [facts |-> f, subj |-> T, epoch |-> k] BY DocumentIs
<1>7. e = [facts |-> f, subj |-> S, epoch |-> n] BY <1>3, <1>4, <1>6
<1>8. e.facts = d.facts /\ e.subj = S BY <1>6, <1>7
<1> QED BY <1>2, <1>5, <1>8 DEF e

\* An edit of the memory service moves one fact and nobody's choice.
LEMMA EditDoes ==
  ASSUME Types, NEW u \in Users, Learn(u) \/ Unlearn(u)
  PROVE  /\ \A v \in Users : /\ live'.subj[v].on = live.subj[v].on
                             /\ live'.subj[v].pending = live.subj[v].pending
                             /\ live'.subj[v].out = live.subj[v].out
         /\ \A v \in Users \ {u} : /\ (v \in live'.facts) = (v \in live.facts)
                                   /\ live'.subj[v] = live.subj[v]
<1> DEFINE Same(e, d) == /\ \A v \in Users : /\ e.subj[v].on = d.subj[v].on
                                             /\ e.subj[v].pending = d.subj[v].pending
                                             /\ e.subj[v].out = d.subj[v].out
                         /\ \A v \in Users \ {u} : e.subj[v] = d.subj[v]
<1>1. ASSUME NEW d \in Documents PROVE Same(Invalidated(d, u), d) /\ Invalidated(d, u).facts = d.facts
  <2> DEFINE s == [d.subj[u] EXCEPT !.rev = IF @ = 0 THEN 0 ELSE @ + 1]
             e == Invalidated(d, u)
  <2>1. d.subj \in [Users -> Subjects] /\ d.subj[u] \in Subjects BY DocumentIs
  <2>2. s.on = d.subj[u].on /\ s.out = d.subj[u].out /\ s.pending = d.subj[u].pending
    <3>1. PICK n : n = IF d.subj[u].rev = 0 THEN 0 ELSE d.subj[u].rev + 1 OBVIOUS
    <3>2. s = [d.subj[u] EXCEPT !.rev = n] BY <3>1
    <3> HIDE DEF s
    <3>3. PICK a, b, k, p, o : d.subj[u] = [rev |-> a, on |-> b, pending |-> k, proof |-> p, out |-> o]
      BY <2>1, SubjectIs
    <3>4. s = [rev |-> n, on |-> b, pending |-> k, proof |-> p, out |-> o] BY <3>2, <3>3
    <3> QED BY <3>3, <3>4
  <2>3. e = [d EXCEPT !.subj = [d.subj EXCEPT ![u] = s], !.epoch = d.epoch + 1]
    BY DocumentIs, <2>1, SubjectIs DEF Invalidated
  <2> HIDE DEF s, e
  <2>4. PICK S, n : S = [d.subj EXCEPT ![u] = s] /\ n = d.epoch + 1 OBVIOUS
  <2>5. S[u] = s /\ \A v \in Users \ {u} : S[v] = d.subj[v] BY <2>1, <2>4
  <2>6. PICK f, T, k : d = [facts |-> f, subj |-> T, epoch |-> k] BY DocumentIs
  <2>7. e = [facts |-> f, subj |-> S, epoch |-> n] BY <2>3, <2>4, <2>6
  <2>8. e.facts = d.facts /\ e.subj = S BY <2>6, <2>7
  <2>9. Same(e, d) BY <2>2, <2>5, <2>8
  <2> QED BY <2>8, <2>9 DEF e
<1>2. PICK d : d = Invalidated(live, u) OBVIOUS
<1>3. d \in Documents /\ Same(d, live) /\ d.facts = live.facts
  <2>1. live \in Documents BY DEF Types
  <2>2. d \in Documents BY <1>2, <2>1, InvalidatedIs
  <2>3. Same(d, live) /\ d.facts = live.facts BY <1>1, <1>2, <2>1
  <2> QED BY <2>2, <2>3
<1>4. d.subj \in [Users -> Subjects] /\ d.facts \in SUBSET Users /\ d.epoch \in Nat BY <1>3, DocumentIs
<1>5. PICK f, T, k : d = [facts |-> f, subj |-> T, epoch |-> k] BY <1>3, DocumentIs
<1>6. CASE Learn(u)
  <2>1. PICK g : g = f \cup {u} OBVIOUS
  <2>2. live' = [d EXCEPT !.facts = @ \cup {u}] BY <1>2, <1>6 DEF Learn
  <2>3. live' = [facts |-> g, subj |-> T, epoch |-> k] BY <1>5, <2>1, <2>2
  <2>4. live'.subj = d.subj /\ live'.facts = live.facts \cup {u} BY <1>3, <1>5, <2>1, <2>3
  <2> QED BY <1>3, <2>4
<1>7. CASE Unlearn(u)
  <2>1. PICK g \in SUBSET Users : g = f \ {u} BY <1>4, <1>5
  <2>2. PICK s : s = [T[u] EXCEPT !.proof = FALSE] OBVIOUS
  <2>3. T \in [Users -> Subjects] /\ T[u] \in Subjects BY <1>4, <1>5
  <2>4. s \in Subjects /\ s.on = T[u].on /\ s.out = T[u].out /\ s.pending = T[u].pending
    <3>1. PICK t \in Subjects : t = T[u] BY <2>3
    <3>2. s = [t EXCEPT !.proof = FALSE] BY <2>2, <3>1
    <3> QED BY <3>1, <3>2 DEF Subjects
  <2>5. PICK forgot : forgot = [d EXCEPT !.facts = @ \ {u}, !.subj[u].proof = FALSE] OBVIOUS
  <2>6. PICK S \in [Users -> Subjects] : S = [T EXCEPT ![u] = s] BY <2>3, <2>4
  <2>7. forgot = [facts |-> g, subj |-> S, epoch |-> k] BY <1>5, <2>1, <2>2, <2>5, <2>6
  <2>8. forgot \in Documents /\ forgot.subj = S /\ forgot.facts = g
    BY <1>4, <1>5, <2>7 DEF Documents
  <2>9. \A v \in Users : S[v] = IF v = u THEN s ELSE T[v] BY <2>3, <2>6
  <2>10. Same(forgot, d) BY <1>5, <2>4, <2>8, <2>9
  <2>11. live' \in {forgot, Invalidated(forgot, u)} BY <1>2, <1>7, <2>5 DEF Unlearn
  <2>12. Same(live', forgot) /\ live'.facts = g
    <3>1. CASE live' = forgot BY <2>8, <3>1
    <3>2. CASE live' = Invalidated(forgot, u) BY <1>1, <2>8, <3>2
    <3> QED BY <2>11, <3>1, <3>2
  <2>13. Same(live', live) BY <1>3, <2>10, <2>12
  <2>14. \A v \in Users \ {u} : (v \in live'.facts) = (v \in live.facts) BY <1>3, <1>5, <2>1, <2>12
  <2> QED BY <2>13, <2>14
<1> QED BY <1>6, <1>7

-----------------------------------------------------------------------------
(* What documents know, bear and redeem                                    *)

\* Nothing newer has begun: at most, what was the newest change is not it any more.
Fades(new, old) ==
  \A u \in Users, field \in Fields : new[u][field] = old[u][field] \/ new[u][field] = Nobody

\* The laws of recalling.
LEMMA Recalling ==
  ASSUME NEW asked, NEW d, NEW e
  PROVE  /\ Recalls(d, d, asked)
         /\ \A f : Recalls(f, e, asked) /\ Recalls(e, d, asked) => Recalls(f, d, asked)
         /\ (\A u \in Users : e.subj[u].out = d.subj[u].out) => Recalls(e, d, asked) /\ Recalls(d, e, asked)
         /\ (\A u \in Users, r \in Requests : d.subj[u].out[r] = "none") => Recalls(e, d, asked)
BY DEF Recalls

\* What is recalled is recalled after any step.
LEMMA RecallsStay ==
  ASSUME Keeps, NEW d, NEW e, Recalls(e, d, req)
  PROVE  Recalls(e, d, req')
BY DEF Keeps, Recalls

\* A document with a journal folded in recalls itself.
LEMMA FoldsRecall ==
  ASSUME NEW d, NEW e, NEW m, Folds(e, d, m, req), JournalDated(m)
  PROVE  Recalls(e, d, req)
<1> SUFFICES ASSUME NEW u \in Users, NEW q \in Requests, d.subj[u].out[q] # "none", e.subj[u].out[q] = "none"
             PROVE  req[q].kind = "on" /\ req[q].at # "new"
  BY DEF Recalls
<1>1. req[q].kind = "on" /\ (m.off[u].by = q \/ m.on[u].by = q) BY DEF Folds
<1>2. req[q].at # "new" BY <1>1 DEF JournalDated, MarkDated
<1> QED BY <1>1, <1>2

\* ... shows the newest changes that it knows,
LEMMA FoldsBear ==
  ASSUME NEW d, NEW e \in Documents, NEW m, NEW asked, NEW last, Folds(e, d, m, asked),
         Bears(d, last, asked), NamedByNewest(m, last, asked)
  PROVE  Bears(e, last, asked)
<1> SUFFICES ASSUME NEW u \in Users, NEW r \in Requests, e.subj[u].out[r] # "none"
             PROVE  /\ last[u]["choice"] = r => e.subj[u].on = (asked[r].kind = "on")
                    /\ last[u]["fact"] = r => (u \in e.facts) = (asked[r].kind = "remember")
  BY DEF Bears
<1>1. d.subj[u].out[r] # "none" /\ e.facts = d.facts BY DEF Folds
<1>2. ASSUME last[u]["choice"] = r PROVE e.subj[u].on = (asked[r].kind = "on")
  <2>1. d.subj[u].on = (asked[r].kind = "on") BY <1>1, <1>2 DEF Bears
  <2>2. CASE asked[r].kind = "on"
    <3>1. Names(m, u, r) BY <1>2, <2>2 DEF NamedByNewest
    <3>2. ~Marked(m, u) BY <2>2, <3>1 DEF Folds
    <3> QED BY <2>1, <3>2 DEF Folds
  <2>3. CASE asked[r].kind # "on"
    <3>1. d.subj[u].on = FALSE BY <2>1, <2>3
    <3>2. e.subj[u].on \in BOOLEAN BY DocumentIs, SubjectIs
    <3>3. CASE Marked(m, u)
      <4>1. ~e.subj[u].on BY <3>3 DEF Folds
      <4> QED BY <2>3, <3>2, <4>1
    <3>4. CASE ~Marked(m, u) BY <2>3, <3>1, <3>4 DEF Folds
    <3> QED BY <3>3, <3>4
  <2> QED BY <2>2, <2>3
<1>3. ASSUME last[u]["fact"] = r PROVE (u \in e.facts) = (asked[r].kind = "remember")
  BY <1>1, <1>3 DEF Bears
<1> QED BY <1>2, <1>3

\* ... and what members were told, if the journal does not name them.
LEMMA FoldsRedeem ==
  ASSUME NEW d, NEW e, NEW m, NEW asked, NEW told, Folds(e, d, m, asked), Redeems(d, told),
         \A u \in Users : told[u]["choice"] = "on" => ~Marked(m, u)
  PROVE  Redeems(e, told)
<1>1. \A u \in Users : /\ told[u]["choice"] = "on" => e.subj[u].on /\ ~e.subj[u].pending
                       /\ told[u]["choice"] = "off" => ~e.subj[u].on
  <2> TAKE u \in Users
  <2>1. CASE Marked(m, u) BY <2>1 DEF Folds, Redeems
  <2>2. CASE ~Marked(m, u) BY <2>2 DEF Folds, Redeems
  <2> QED BY <2>1, <2>2
<1>2. e.facts = d.facts BY DEF Folds
<1> QED BY <1>1, <1>2 DEF Redeems

\* What shows the newest changes shows them while nothing newer begins.
LEMMA BearsStay ==
  ASSUME Keeps, NewestIsAsked, Fades(latest', latest), NEW d, Bears(d, latest, req)
  PROVE  Bears(d, latest', req')
<1> SUFFICES ASSUME NEW u \in Users, NEW r \in Requests, d.subj[u].out[r] # "none"
             PROVE  /\ latest'[u]["choice"] = r => d.subj[u].on = (req'[r].kind = "on")
                    /\ latest'[u]["fact"] = r => (u \in d.facts) = (req'[r].kind = "remember")
  BY DEF Bears
<1>1. r # Nobody BY PersonalMemoryAssumption
<1>2. /\ latest'[u]["choice"] = r => latest[u]["choice"] = r
      /\ latest'[u]["fact"] = r => latest[u]["fact"] = r
  BY <1>1 DEF Fades, Fields
<1>3. latest[u]["choice"] = r \/ latest[u]["fact"] = r => req'[r].kind = req[r].kind
  BY DEF NewestIsAsked, Keeps
<1> QED BY <1>2, <1>3 DEF Bears

\* The other statements about the newest changes stay likewise.
LEMMA NewestStays ==
  ASSUME Keeps, NewestIsAsked, Fades(latest', latest)
  PROVE  /\ NewestIsAsked'
         /\ \A m : NamedByNewest(m, latest, req) => NamedByNewest(m, latest', req')
         /\ \A l, p : MemoryStands(l, p, latest, req) => MemoryStands(l, p, latest', req')
         /\ \A u \in Users, r \in Requests :
              latest'[u]["choice"] = r /\ req'[r].kind = "on" =>
                latest[u]["choice"] = r /\ req[r].kind = "on"
<1>1. ASSUME NEW u \in Users, NEW r \in Requests
      PROVE  /\ latest'[u]["choice"] = r => latest[u]["choice"] = r
             /\ latest'[u]["fact"] = r => latest[u]["fact"] = r
  <2>1. r # Nobody BY PersonalMemoryAssumption
  <2> QED BY <2>1 DEF Fades, Fields
<1>2. ASSUME NEW u \in Users, NEW r \in Requests, latest[u]["choice"] = r \/ latest[u]["fact"] = r
      PROVE  req'[r].at # "new" /\ req'[r].kind = req[r].kind /\ req'[r].user = req[r].user
  BY <1>2 DEF NewestIsAsked, Keeps
<1>3. NewestIsAsked' BY <1>1, <1>2 DEF NewestIsAsked
<1>4. \A u \in Users, r \in Requests :
        latest'[u]["choice"] = r /\ req'[r].kind = "on" => latest[u]["choice"] = r /\ req[r].kind = "on"
  BY <1>1, <1>2
<1>5. \A m : NamedByNewest(m, latest, req) => NamedByNewest(m, latest', req')
  BY <1>4 DEF NamedByNewest
<1>6. \A l, p : MemoryStands(l, p, latest, req) => MemoryStands(l, p, latest', req')
  BY <1>1, <1>4 DEF MemoryStands
<1> QED BY <1>3, <1>4, <1>5, <1>6

\* What an uninstalled publication is rebased to, after it was found in the file.
LEMMA PublishedIs ==
  ASSUME IInv, AInv, PublicationMatches
  PROVE  LET e == Rebase(live, publication.doc, disk)
         IN  /\ e \in Documents /\ Recalls(e, disk, req) /\ Bears(e, latest, req) /\ Redeems(e, acked)
             /\ \A u \in Users : /\ e.subj[u].pending => disk.subj[u].pending
                                 /\ e.subj[u].on => disk.subj[u].on
<1> DEFINE doc == publication.doc
<1>1. /\ live \in Documents /\ doc \in Documents /\ disk \in Documents
      /\ publication.known /\ publication.id = disk
  BY DEF IInv, Types, PublicationMatches
<1> HIDE DEF doc
<1>2. PICK e : e = Rebase(live, doc, disk) OBVIOUS
<1>3. e \in Documents BY <1>1, <1>2, RebaseIs
<1>4. ASSUME NEW u \in Users
      PROVE  /\ (u \in e.facts) = (IF (u \in live.facts) = (u \in doc.facts) THEN u \in disk.facts ELSE u \in live.facts)
             /\ live.subj[u] = doc.subj[u] =>
                  /\ e.subj[u].on = disk.subj[u].on /\ e.subj[u].pending = disk.subj[u].pending
                  /\ e.subj[u].out = disk.subj[u].out
             /\ live.subj[u] # doc.subj[u] =>
                  /\ e.subj[u].on = (live.subj[u].on /\ disk.subj[u].on)
                  /\ e.subj[u].pending => /\ live.subj[u].on /\ disk.subj[u].on
                                          /\ live.subj[u].pending \/ disk.subj[u].pending
                  /\ \A r \in Requests :
                       e.subj[u].out[r] = (IF live.subj[u].out[r] = doc.subj[u].out[r]
                                             THEN disk.subj[u].out[r] ELSE live.subj[u].out[r])
  BY <1>1, <1>2, RebaseDoes
<1>5. ASSUME NEW u \in Users
      PROVE  /\ live.subj[u].on \in BOOLEAN /\ disk.subj[u].on \in BOOLEAN /\ e.subj[u].on \in BOOLEAN
             /\ live.subj[u].pending \in BOOLEAN /\ disk.subj[u].pending \in BOOLEAN
             /\ e.subj[u].pending \in BOOLEAN
  BY <1>1, <1>3, DocumentIs, SubjectIs
<1>6. Recalls(e, disk, req)
  <2> SUFFICES ASSUME NEW u \in Users, NEW q \in Requests,
                      disk.subj[u].out[q] # "none", e.subj[u].out[q] = "none"
               PROVE  req[q].kind = "on" /\ req[q].at # "new"
    BY DEF Recalls
  <2>1. live.subj[u] # doc.subj[u] /\ live.subj[u].out[q] = "none" /\ doc.subj[u].out[q] # "none"
    BY <1>4
  <2>2. Recalls(live, doc, req) BY DEF AInv, PublicationIsTrue, doc
  <2> QED BY <2>1, <2>2 DEF Recalls
<1>7. ASSUME NEW u \in Users
      PROVE  /\ e.subj[u].pending => disk.subj[u].pending
             /\ e.subj[u].on => disk.subj[u].on
  <2>1. live.subj[u].pending /\ disk.subj[u].on => disk.subj[u].pending BY DEF AInv, StoresAreTrue
  <2>2. CASE live.subj[u] = doc.subj[u] BY <1>4, <2>2
  <2>3. CASE live.subj[u] # doc.subj[u]
    <3>1. e.subj[u].on = (live.subj[u].on /\ disk.subj[u].on) BY <1>4, <2>3
    <3>2. e.subj[u].pending => disk.subj[u].on /\ (live.subj[u].pending \/ disk.subj[u].pending)
      BY <1>4, <2>3
    <3> QED BY <1>5, <2>1, <3>1, <3>2
  <2> QED BY <2>2, <2>3
<1>8. Bears(e, latest, req)
  <2> SUFFICES ASSUME NEW u \in Users, NEW r \in Requests, e.subj[u].out[r] # "none"
               PROVE  /\ latest[u]["choice"] = r => e.subj[u].on = (req[r].kind = "on")
                      /\ latest[u]["fact"] = r => (u \in e.facts) = (req[r].kind = "remember")
    BY DEF Bears
  <2>1. /\ Bears(live, latest, req) /\ Bears(disk, latest, req) /\ Recalls(disk, live, req)
        /\ MemoryStands(live, publication, latest, req) /\ NewestIsAsked
    BY <1>1 DEF AInv, StoresAreTrue, PublicationIsTrue
  <2>2. live.subj[u].out[r] # "none" \/ disk.subj[u].out[r] # "none" BY <1>4
  <2>3. ASSUME latest[u]["choice"] = r PROVE e.subj[u].on = (req[r].kind = "on")
    <3>1. CASE live.subj[u] = doc.subj[u]
      <4>1. disk.subj[u].out[r] # "none" /\ e.subj[u].on = disk.subj[u].on BY <1>4, <3>1
      <4> QED BY <2>1, <2>3, <4>1 DEF Bears
    <3>2. CASE live.subj[u] # doc.subj[u]
      <4>1. req[r].kind # "on"
        BY <1>1, <2>1, <2>2, <2>3, <3>2 DEF MemoryStands, doc
      <4>2. live.subj[u].out[r] # "none" => live.subj[u].on = (req[r].kind = "on") BY <2>1, <2>3 DEF Bears
      <4>3. disk.subj[u].out[r] # "none" => disk.subj[u].on = (req[r].kind = "on") BY <2>1, <2>3 DEF Bears
      <4>4. ~live.subj[u].on \/ ~disk.subj[u].on BY <2>2, <4>1, <4>2, <4>3
      <4>5. e.subj[u].on = (live.subj[u].on /\ disk.subj[u].on) BY <1>4, <3>2
      <4>6. e.subj[u].on = FALSE BY <1>5, <4>4, <4>5
      <4> QED BY <4>1, <4>6
    <3> QED BY <3>1, <3>2
  <2>4. ASSUME latest[u]["fact"] = r PROVE (u \in e.facts) = (req[r].kind = "remember")
    <3>1. req[r].kind # "on" BY <2>1, <2>4 DEF NewestIsAsked
    <3>2. disk.subj[u].out[r] # "none" BY <2>1, <2>2, <3>1 DEF Recalls
    <3>3. (u \in live.facts) = (u \in doc.facts) BY <1>1, <2>1, <2>4, <3>2 DEF MemoryStands, doc
    <3>4. (u \in e.facts) = (u \in disk.facts) BY <1>4, <3>3
    <3>5. (u \in disk.facts) = (req[r].kind = "remember") BY <2>1, <2>4, <3>2 DEF Bears
    <3> QED BY <3>4, <3>5
  <2> QED BY <2>3, <2>4
<1>9. Redeems(e, acked)
  <2> SUFFICES ASSUME NEW u \in Users
               PROVE  /\ acked[u]["choice"] = "on" => e.subj[u].on /\ ~e.subj[u].pending
                      /\ acked[u]["choice"] = "off" => ~e.subj[u].on
                      /\ acked[u]["fact"] = "remember" => u \in e.facts
                      /\ acked[u]["fact"] = "forget" => u \notin e.facts
    BY DEF Redeems
  <2>1. Redeems(live, acked) /\ Redeems(disk, acked) BY DEF AInv, StoresAreTrue
  <2>2. acked[u]["choice"] = "on" => e.subj[u].on
    <3>1. ASSUME acked[u]["choice"] = "on" PROVE live.subj[u].on /\ disk.subj[u].on BY <2>1, <3>1 DEF Redeems
    <3>2. live.subj[u].on /\ disk.subj[u].on => e.subj[u].on BY <1>4
    <3> QED BY <3>1, <3>2
  <2>3. acked[u]["choice"] = "on" => ~e.subj[u].pending BY <1>7, <2>1 DEF Redeems
  <2>4. acked[u]["choice"] = "off" => ~e.subj[u].on BY <1>7, <2>1 DEF Redeems
  <2>5. acked[u]["fact"] = "remember" => u \in e.facts BY <1>4, <2>1 DEF Redeems
  <2>6. acked[u]["fact"] = "forget" => u \notin e.facts BY <1>4, <2>1 DEF Redeems
  <2> QED BY <2>2, <2>3, <2>4, <2>5, <2>6
<1> QED BY <1>2, <1>3, <1>6, <1>7, <1>8, <1>9 DEF doc

-----------------------------------------------------------------------------
(* What every step leaves true                                             *)

\* A request keeps its member, its kind and its stamp in every step.
LEMMA RequestsKeep ==
  ASSUME IInv, [Next]_vars
  PROVE  Keeps
<1>0. Types /\ req \in [Requests -> Requested] BY DEF IInv, Types
<1>1. ASSUME UNCHANGED req PROVE Keeps BY <1>1, NobodyAsks
<1>2. ASSUME NEW r \in Requests,
             Settled(r, "ok") \/ Settled(r, "queued") \/ Settled(r, "running") \/ Settled(r, "refused"),
             req[r].at # "new"
      PROVE  Keeps
  <2>1. /\ \A q \in Requests \ {r} : req'[q] = req[q]
        /\ req'[r].at \in {"ok", "queued", "running", "refused"}
        /\ req'[r].user = req[r].user /\ req'[r].kind = req[r].kind /\ req'[r].stamp = req[r].stamp
    BY <1>0, <1>2, SettledIs
  <2> QED BY <2>1 DEF Keeps
<1>3. ASSUME tx.at # "idle", Settles(TRUE) \/ Settles(FALSE) PROVE Keeps BY <1>3, SettlesIs
<1>4. ASSUME tx.at \in Publishing, Fails PROVE Keeps
  <2>1. tx.at # "idle" BY <1>4 DEF Publishing
  <2>2. CASE Settles(FALSE) BY <1>3, <2>1, <2>2
  <2>3. CASE UNCHANGED req BY <1>1, <2>3
  <2> QED BY <1>4, <2>2, <2>3 DEF Fails
<1>5. ASSUME NEW u, \A q \in Requests : req'[q].at # "new" => req[q].at = "new" \/ req'[q] = Overtaken(q, u),
             \A q \in Requests : req[q].at # "new" => req'[q].at # "new"
      PROVE  Keeps
  <2>1. \A q \in Requests : /\ Overtaken(q, u).user = req[q].user /\ Overtaken(q, u).kind = req[q].kind
                            /\ Overtaken(q, u).stamp = req[q].stamp
    BY <1>0, OvertakenIs
  <2> QED BY <1>5, <2>1 DEF Keeps
<1>6. ASSUME NEW r \in Requests,
             \/ \E u \in Users, k \in Kinds : Ask(r, u, k)
             \/ AdmitKnown(r) \/ AdmitWithdrawal(r) \/ AdmitOther(r) \/ Retry(r) \/ Start(r)
      PROVE  Keeps
  <2>1. CASE \E u \in Users, k \in Kinds : Ask(r, u, k)
    <3>1. req[r].at = "new" /\ \A q \in Requests \ {r} : req'[q] = req[q] BY <1>0, <2>1 DEF Ask
    <3> QED BY <3>1 DEF Keeps
  <2>2. CASE AdmitKnown(r) BY <1>2, <2>2 DEF AdmitKnown
  <2>3. CASE AdmitOther(r) BY <1>2, <2>3 DEF AdmitOther
  <2>4. CASE AdmitWithdrawal(r)
    <3>0. req' = [q \in Requests |->
                   IF q = r THEN [req[q] EXCEPT !.at = "queued",
                                                !.allowed = Stamp(Fence(live, Member(r)), Member(r))]
                   ELSE Overtaken(q, Member(r))]
      BY <2>4, Zenon DEF AdmitWithdrawal
    <3>6. PICK u : u = Member(r) OBVIOUS
    <3>7. PICK w : w = Stamp(Fence(live, Member(r)), Member(r)) OBVIOUS
    <3>1. req' = [q \in Requests |-> IF q = r THEN [req[q] EXCEPT !.at = "queued", !.allowed = w]
                                    ELSE Overtaken(q, u)]
      BY <3>0, <3>6, <3>7, Zenon
    <3>5. \A q \in Requests \ {r} : req'[q] = Overtaken(q, u) BY <3>1, Zenon
    <3>2. \A q \in Requests \ {r} : /\ req'[q].at = req[q].at /\ req'[q].user = req[q].user
                                    /\ req'[q].kind = req[q].kind /\ req'[q].stamp = req[q].stamp
      BY <1>0, <3>5, OvertakenIs
    <3> DEFINE s == [req[r] EXCEPT !.at = "queued", !.allowed = w]
    <3>3. req'[r] = s BY <3>1, Zenon
    <3>4. s.at = "queued" /\ s.user = req[r].user /\ s.kind = req[r].kind /\ s.stamp = req[r].stamp
      BY <1>0 DEF Requested
    <3> HIDE DEF s
    <3> QED BY <3>2, <3>3, <3>4 DEF Keeps
  <2>5. CASE Retry(r)
    <3>1. PICK w : req' = [req EXCEPT ![r].at = "asked", ![r].allowed = w] BY <2>5 DEF Retry
    <3>2. \A q \in Requests \ {r} : req'[q] = req[q] BY <1>0, <3>1
    <3>3. req'[r] = [req[r] EXCEPT !.at = "asked", !.allowed = w] /\ req[r] \in Requested BY <1>0, <3>1
    <3>4. /\ req'[r].at = "asked" /\ req'[r].user = req[r].user /\ req'[r].kind = req[r].kind
          /\ req'[r].stamp = req[r].stamp
      BY <3>3 DEF Requested
    <3> QED BY <3>2, <3>4 DEF Keeps
  <2>6. CASE Start(r)
    <3>1. req[r].at = "queued" BY <2>6 DEF Start, StartReplay, StartFresh, StartMark, RefuseFresh
    <3>2. Settled(r, "running") \/ Settled(r, "refused")
      BY <2>6 DEF Start, StartReplay, StartFresh, StartMark, RefuseFresh, Refused
    <3> QED BY <1>2, <3>1, <3>2
  <2> QED BY <1>6, <2>1, <2>2, <2>3, <2>4, <2>5, <2>6
<1>7. ASSUME Step PROVE Keeps
  <2>1. CASE PublishMark \/ WriteCandidate \/ Project \/ Retire
    BY <1>1, <2>1 DEF PublishMark, WriteCandidate, Project, Retire
  <2>0. \A at : at \in {"mark", "mark only"} => at # "idle" BY Zenon
  <2>2. CASE PublishMarkOnly BY <1>3, <2>0, <2>2, Zenon DEF PublishMarkOnly
  <2>3. CASE MarkFails BY <1>3, <2>0, <2>3, Zenon DEF MarkFails
  <2>4. CASE WriteFails BY <1>4, <2>4 DEF WriteFails, Publishing
  <2>5. CASE ProjectFails BY <1>4, <2>5 DEF ProjectFails, Publishing
  <2>6. CASE Check BY <1>1, <1>4, <2>6 DEF Check, Publishing
  <2>7. CASE RetireFails BY <1>4, <2>7 DEF RetireFails, Publishing
  <2>8. CASE Install BY <1>1, <1>3, <1>4, <2>8 DEF Install, Publishing
  <2>9. CASE Finish BY <1>3, <2>9 DEF Finish
  <2>10. CASE Deny BY <1>3, <2>10 DEF Deny
  <2>11. CASE DenyFails BY <1>3, <2>11 DEF DenyFails
  <2> QED BY <1>7, <2>1, <2>2, <2>3, <2>4, <2>5, <2>6, <2>7, <2>8, <2>9, <2>10, <2>11 DEF Step
<1>8. ASSUME NEW u \in Users, Learn(u) \/ Unlearn(u) PROVE Keeps
  <2>1. req' = [q \in Requests |-> Overtaken(q, u)] BY <1>8 DEF Learn, Unlearn, Overtakes
  <2>2. \A q \in Requests : req'[q].at = req[q].at BY <1>0, <2>1, OvertakenIs
  <2> QED BY <1>5, <2>1, <2>2
<1>9. ASSUME Crash PROVE Keeps
  <2>1. PICK k : k = [r \in Requests |-> IF Known(r) THEN "refused" ELSE "lost"] OBVIOUS
  <2>2. \A r \in Requests : req[r] \in Requested /\ req'[r] \in {req[r], [req[r] EXCEPT !.at = k[r]]} /\ k[r] # "new"
    BY <1>0, <1>9, <2>1 DEF Crash
  <2>3. ASSUME NEW r \in Requests, req[r].at # "new"
        PROVE  /\ req'[r].at # "new" /\ req'[r].user = req[r].user /\ req'[r].kind = req[r].kind
               /\ req'[r].stamp = req[r].stamp
    BY <2>2, <2>3 DEF Requested
  <2> QED BY <2>3 DEF Keeps
<1>10. ASSUME TakeSnapshot \/ WriteSnapshot \/ SnapshotFails PROVE Keeps
  BY <1>1, <1>10 DEF TakeSnapshot, WriteSnapshot, SnapshotFails
<1>11. ASSUME Recover PROVE Keeps
  BY <1>1, <1>11 DEF Recover, RecoverDocument, RecoverJournal, RecoveryFails
<1>12. ASSUME NEW t \in Turns, Deliver(t) \/ \E u \in Users : Capture(t, u) PROVE Keeps
  BY <1>1, <1>12 DEF Deliver, Capture
<1>13. CASE Next
  BY <1>6, <1>7, <1>8, <1>9, <1>10, <1>11, <1>12, <1>13 DEF Next
<1>14. CASE UNCHANGED vars BY <1>1, <1>14 DEF vars
<1> QED BY <1>13, <1>14

\* At most, a promise has ended.
Fewer(new, old) ==
  \A u \in Users, field \in Fields : new[u][field] = old[u][field] \/ new[u][field] = "none"

\* What members were told is still true when they were told less.
LEMMA RedeemsStay ==
  ASSUME NEW new, NEW old, Fewer(new, old), NEW d, Redeems(d, old)
  PROVE  Redeems(d, new)
BY DEF Fewer, Redeems, Fields

\* What is said of memory and the files stays true while they are left alone.
LEMMA StoresRest ==
  ASSUME AInv, Keeps, Fades(latest', latest), Fewer(acked', acked),
         UNCHANGED <<live, base, disk, marker, boot>>
  PROVE  StoresAreTrue'
<1>1. /\ NewestIsAsked /\ Bears(live, latest, req) /\ Bears(disk, latest, req)
      /\ Redeems(live, acked) /\ Redeems(disk, acked)
      /\ Recalls(disk, live, req) /\ Recalls(live, base, req) /\ NamedByNewest(marker, latest, req)
  BY DEF AInv, StoresAreTrue
<1>2. /\ Bears(live, latest', req') /\ Bears(disk, latest', req')
      /\ Redeems(live, acked') /\ Redeems(disk, acked')
      /\ Recalls(disk, live, req') /\ Recalls(live, base, req') /\ NamedByNewest(marker, latest', req')
  BY <1>1, BearsStay, RedeemsStay, RecallsStay, NewestStays
<1>3. ASSUME NEW u \in Users
      PROVE  /\ acked'[u]["choice"] = "on" => ~Marked(marker, u)
             /\ disk.subj[u].pending => marker.on[u] # NoMark
             /\ live.subj[u].pending /\ disk.subj[u].on => disk.subj[u].pending
             /\ live.subj[u].pending => base.subj[u].pending
             /\ boot = "clear" => ~disk.subj[u].pending
  <2>1. acked'[u]["choice"] = "on" => acked[u]["choice"] = "on" BY DEF Fewer, Fields
  <2> QED BY <2>1 DEF AInv, StoresAreTrue
<1> QED BY <1>2, <1>3 DEF StoresAreTrue

\* ... and of a publication,
LEMMA PublicationRests ==
  ASSUME AInv, Keeps, Fades(latest', latest), UNCHANGED <<live, disk, publication, boot>>
  PROVE  PublicationIsTrue'
<1>1. NewestIsAsked /\ PublicationIsTrue BY DEF AInv
<1>2. Recalls(live, publication.doc, req') /\ Recalls(disk, publication.id, req')
  BY <1>1, RecallsStay DEF PublicationIsTrue
<1>3. MemoryStands(live, publication, latest, req) => MemoryStands(live, publication, latest', req')
  BY <1>1, NewestStays
<1>4. Dated(publication.id) => Dated(publication.id)' BY DatedStays
<1> QED BY <1>1, <1>2, <1>3, <1>4 DEF PublicationIsTrue

\* The change under way keeps its member and its kind.
LEMMA ChangeIs ==
  ASSUME IInv, Keeps, tx.at # "idle", tx'.by = tx.by
  PROVE  /\ tx.by \in Requests /\ Member(tx.by) \in Users /\ Member(tx.by)' = Member(tx.by)
         /\ Kind(tx.by)' = Kind(tx.by) /\ ChoiceField(tx.by)' = ChoiceField(tx.by)
         /\ ChoiceField(tx.by) \in Fields
         /\ tx'.replay = tx.replay => Activation' = Activation /\ \A u : Activates(u)' = Activates(u)
<1>1. tx.by \in Requests /\ Member(tx.by) \in Users /\ req[tx.by].at = "running" BY TransactionIs
<1>2. req'[tx.by].user = req[tx.by].user /\ req'[tx.by].kind = req[tx.by].kind
  BY <1>1 DEF Keeps
<1>3. Member(tx.by)' = Member(tx.by) /\ Kind(tx.by)' = Kind(tx.by) BY <1>2 DEF Member, Kind
<1>4. ChoiceField(tx.by)' = ChoiceField(tx.by) /\ ChoiceField(tx.by) \in Fields
  BY <1>3 DEF ChoiceField, Fields
<1>5. tx'.replay = tx.replay => Activation' = Activation /\ \A u : Activates(u)' = Activates(u)
  BY <1>3 DEF Activation, Activates
<1> QED BY <1>1, <1>3, <1>4, <1>5

\* ... and of the transaction, if memory forgets nothing,
LEMMA ChangeRests ==
  ASSUME IInv, AInv, Keeps, Fades(latest', latest), Fewer(acked', acked), UNCHANGED tx,
         \A u \in Users : live'.subj[u].out = live.subj[u].out
  PROVE  ChangeIsUnderWay'
<1> SUFFICES ASSUME tx.at # "idle"
             PROVE  (/\ acked[Member(tx.by)][ChoiceField(tx.by)] = "none"
                     /\ ~tx.replay /\ Kind(tx.by) \in {"on", "off"} =>
                          latest[Member(tx.by)]["choice"] \in {Nobody, tx.by}
                     /\ tx.aborted => tx.replay
                     /\ NamedByNewest(tx.journal, latest, req)
                     /\ tx.at \in Marking => \A u \in Users : acked[u]["choice"] = "on" => ~Marked(tx.journal, u)
                     /\ tx.at = "finish" => ~tx.replay /\ live.subj[Member(tx.by)].out[tx.by] # "none")'
  BY DEF ChangeIsUnderWay
<1>1. /\ tx.by \in Requests /\ Member(tx.by) \in Users /\ Member(tx.by)' = Member(tx.by)
      /\ Kind(tx.by)' = Kind(tx.by) /\ ChoiceField(tx.by)' = ChoiceField(tx.by)
      /\ ChoiceField(tx.by) \in Fields
  BY ChangeIs
<1>2. ChangeIsUnderWay /\ NewestIsAsked BY DEF AInv
<1>3. NamedByNewest(tx.journal, latest', req') BY <1>2, NewestStays DEF ChangeIsUnderWay
<1>4. acked'[Member(tx.by)][ChoiceField(tx.by)] = "none" BY <1>1, <1>2 DEF ChangeIsUnderWay, Fewer
<1>5. ~tx.replay /\ Kind(tx.by) \in {"on", "off"} => latest'[Member(tx.by)]["choice"] \in {Nobody, tx.by}
  BY <1>1, <1>2 DEF ChangeIsUnderWay, Fades, Fields
<1>6. ASSUME NEW u \in Users, tx.at \in Marking, acked'[u]["choice"] = "on" PROVE ~Marked(tx.journal, u)
  <2>1. acked[u]["choice"] = "on" BY <1>6 DEF Fewer, Fields
  <2> QED BY <1>2, <1>6, <2>1 DEF ChangeIsUnderWay
<1>7. /\ tx.aborted => tx.replay
      /\ tx.at = "finish" => ~tx.replay /\ live'.subj[Member(tx.by)].out[tx.by] # "none"
  BY <1>1, <1>2 DEF ChangeIsUnderWay
<1> QED BY <1>1, <1>3, <1>4, <1>5, <1>6, <1>7

\* ... of the candidate,
LEMMA CandidateRests ==
  ASSUME IInv, AInv, Keeps, Fades(latest', latest), Fewer(acked', acked), UNCHANGED <<tx, disk>>
  PROVE  CandidateIsTrue'
<1> SUFFICES ASSUME tx.at \in Building
             PROVE  (/\ Bears(tx.cand, latest, req) /\ Redeems(tx.cand, acked) /\ Recalls(tx.cand, disk, req)
                     /\ ~tx.aborted => tx.cand.subj[Member(tx.by)].out[tx.by] # "none"
                     /\ \A u \in Users :
                          tx.cand.subj[u].pending => Activates(u) /\ tx.at \in {"mark", "write", "project"})'
  BY DEF CandidateIsTrue
<1>0. tx.at # "idle" BY DEF Building, Publishing
<1>1. /\ Member(tx.by)' = Member(tx.by) /\ \A u : Activates(u)' = Activates(u) BY <1>0, ChangeIs
<1>2. CandidateIsTrue /\ NewestIsAsked BY DEF AInv
<1>3. Bears(tx.cand, latest, req) /\ Redeems(tx.cand, acked) /\ Recalls(tx.cand, disk, req)
  BY <1>2 DEF CandidateIsTrue
<1>4. Bears(tx.cand, latest', req') /\ Redeems(tx.cand, acked') /\ Recalls(tx.cand, disk, req')
  BY <1>2, <1>3, BearsStay, RedeemsStay, RecallsStay
<1> QED BY <1>1, <1>2, <1>4 DEF CandidateIsTrue

\* ... and of memory until the candidate is installed.
LEMMA AwaitedRests ==
  ASSUME AInv, Keeps, Fades(latest', latest), UNCHANGED tx, live'.facts = live.facts,
         \A u \in Users : /\ live'.subj[u].out = live.subj[u].out
                          /\ live'.subj[u].pending => live.subj[u].pending,
         \A u \in Users, r \in Requests :
           latest'[u]["choice"] = r /\ req'[r].kind = "on" => live'.subj[u] = live.subj[u]
  PROVE  MemoryIsAwaited'
<1> SUFFICES ASSUME tx.at \in InPlay
             PROVE  /\ Recalls(live', tx.live, req') /\ tx.live.facts = live'.facts
                    /\ \A u \in Users : live'.subj[u].pending => ~tx.cand.subj[u].on
                    /\ \A u \in Users, r \in Requests :
                         latest'[u]["choice"] = r /\ req'[r].kind = "on" => tx.live.subj[u] = live'.subj[u]
  BY DEF MemoryIsAwaited
<1>1. NewestIsAsked /\ MemoryIsAwaited BY DEF AInv
<1>2. /\ Recalls(live, tx.live, req) /\ tx.live.facts = live.facts
      /\ \A u \in Users : live.subj[u].pending => ~tx.cand.subj[u].on
      /\ \A u \in Users, r \in Requests :
           latest[u]["choice"] = r /\ req[r].kind = "on" => tx.live.subj[u] = live.subj[u]
  BY <1>1 DEF MemoryIsAwaited
<1>3. Recalls(live', live, req) BY Recalling
<1>4. Recalls(live', tx.live, req') BY <1>2, <1>3, Recalling, RecallsStay
<1>5. \A u \in Users, r \in Requests :
        latest'[u]["choice"] = r /\ req'[r].kind = "on" => latest[u]["choice"] = r /\ req[r].kind = "on"
  BY <1>1, NewestStays
<1> QED BY <1>2, <1>4, <1>5

\* ... and of a snapshot.
LEMMA SnapshotRests ==
  ASSUME AInv, Keeps, Fades(latest', latest), Fewer(acked', acked), UNCHANGED <<snap, base>>,
         \A u \in Users : live'.subj[u].out = live.subj[u].out
  PROVE  SnapshotIsTrue'
<1> SUFFICES ASSUME snap.held
             PROVE  /\ snap.base = base /\ Bears(snap.doc, latest', req') /\ Redeems(snap.doc, acked')
                    /\ Recalls(snap.doc, live', req') /\ Recalls(live', snap.doc, req')
                    /\ Recalls(snap.doc, snap.base, req')
                    /\ \A u \in Users : snap.doc.subj[u].pending => snap.base.subj[u].pending
  BY DEF SnapshotIsTrue
<1>1. NewestIsAsked /\ SnapshotIsTrue BY DEF AInv
<1>2. /\ snap.base = base /\ Bears(snap.doc, latest, req) /\ Redeems(snap.doc, acked)
      /\ Recalls(snap.doc, live, req) /\ Recalls(live, snap.doc, req) /\ Recalls(snap.doc, snap.base, req)
      /\ \A u \in Users : snap.doc.subj[u].pending => snap.base.subj[u].pending
  BY <1>1 DEF SnapshotIsTrue
<1>3. Recalls(live', live, req) /\ Recalls(live, live', req) BY Recalling
<1>4. Recalls(snap.doc, live', req) /\ Recalls(live', snap.doc, req) BY <1>2, <1>3, Recalling
<1> QED BY <1>1, <1>2, <1>4, BearsStay, RedeemsStay, RecallsStay

-----------------------------------------------------------------------------
(* The steps: admission                                                    *)

\* The history that is left alone.
LEMMA HistoryRests ==
  UNCHANGED <<acked, latest>> => Fades(latest', latest) /\ Fewer(acked', acked)
BY DEF Fades, Fewer

\* What ends a promise leaves the history typed and promises less.
LEMMA UnpromisedIs ==
  ASSUME HistoryIsTyped, NEW u \in Users, NEW field \in Fields, acked' = Unpromised(u, field)
  PROVE  /\ acked' \in [Users -> [Fields -> {"none", "on", "off", "remember", "forget"}]]
         /\ Fewer(acked', acked) /\ acked'[u][field] = "none"
<1>1. PICK A : A = [Users -> [Fields -> {"none", "on", "off", "remember", "forget"}]] OBVIOUS
<1>2. PICK told \in [Fields -> {"none", "on", "off", "remember", "forget"}] :
        told = [acked[u] EXCEPT ![field] = "none"]
  BY DEF HistoryIsTyped
<1>3. acked' = [acked EXCEPT ![u] = told] BY <1>2 DEF Unpromised
<1>4. acked' \in [Users -> [Fields -> {"none", "on", "off", "remember", "forget"}]]
  BY <1>3 DEF HistoryIsTyped
<1>5. acked'[u] = told /\ \A v \in Users \ {u} : acked'[v] = acked[v] BY <1>3 DEF HistoryIsTyped
<1>6. told[field] = "none" /\ \A other \in Fields \ {field} : told[other] = acked[u][other]
  BY <1>2 DEF HistoryIsTyped
<1>7. Fewer(acked', acked) BY <1>5, <1>6 DEF Fewer
<1> QED BY <1>4, <1>5, <1>6, <1>7

\* A step that only answers a member changes none of this.
LEMMA AnswersAreTrue ==
  ASSUME IInv, AInv, Keeps,
         UNCHANGED <<live, base, publication, disk, marker, boot, tx, snap, acked, latest>>
  PROVE  AInv'
<1>1. Fades(latest', latest) /\ Fewer(acked', acked) BY HistoryRests
<1>2. HistoryIsTyped' BY DEF AInv, HistoryIsTyped
<1>3. NewestIsAsked' BY <1>1, NewestStays DEF AInv
<1>4. StoresAreTrue' /\ PublicationIsTrue' BY <1>1, StoresRest, PublicationRests
<1>5. ChangeIsUnderWay' /\ CandidateIsTrue' BY <1>1, ChangeRests, CandidateRests
<1>6. MemoryIsAwaited'
  <2>1. \A u \in Users, r \in Requests :
          latest'[u]["choice"] = r /\ req'[r].kind = "on" => live'.subj[u] = live.subj[u]
    OBVIOUS
  <2> QED BY <1>1, <2>1, AwaitedRests
<1>7. SnapshotIsTrue' BY <1>1, SnapshotRests
<1> QED BY <1>2, <1>3, <1>4, <1>5, <1>6, <1>7 DEF AInv

\* The member who withdraws is told nothing and has no newest choice.
LEMMA WithdrawalIsTrue ==
  ASSUME IInv, IInv', AInv, Keeps, NEW r \in Requests, AdmitWithdrawal(r)
  PROVE  AInv'
<1>1. PICK u : u = Member(r) OBVIOUS
<1>2. u \in Users
  <2>1. req[r].at = "asked" BY Zenon DEF AdmitWithdrawal
  <2> QED BY <1>1, <2>1 DEF IInv, RequestIsDated, Member
<1>3. /\ live' = Fence(live, u) /\ acked' = Unpromised(u, "choice")
      /\ latest' = [latest EXCEPT ![u]["choice"] = Nobody]
      /\ UNCHANGED <<base, publication, disk, marker, boot, tx, snap>>
  <2>1. /\ live' = Fence(live, Member(r)) /\ acked' = Unpromised(Member(r), "choice")
        /\ latest' = [latest EXCEPT ![Member(r)]["choice"] = Nobody]
        /\ UNCHANGED <<base, publication, disk, marker, boot, tx, snap>>
    BY Zenon DEF AdmitWithdrawal, files
  <2> QED BY <1>1, <2>1
<1>4. /\ live'.facts = live.facts /\ ~live'.subj[u].on /\ ~live'.subj[u].pending
      /\ live'.subj[u].out = live.subj[u].out
      /\ \A v \in Users \ {u} : live'.subj[v] = live.subj[v]
  <2>1. PICK e : e = Fence(live, u) OBVIOUS
  <2>2. /\ e.facts = live.facts /\ ~e.subj[u].on /\ ~e.subj[u].pending
        /\ e.subj[u].out = live.subj[u].out /\ \A v \in Users \ {u} : e.subj[v] = live.subj[v]
    BY <1>2, <2>1, FenceDoes DEF IInv, Types
  <2>3. live' = e BY <1>3, <2>1
  <2> QED BY <2>2, <2>3
<1>5. \A v \in Users : live'.subj[v].out = live.subj[v].out BY <1>4
<1>6. /\ latest' \in [Users -> [Fields -> Requests \cup {Nobody}]]
      /\ Fades(latest', latest) /\ latest'[u]["choice"] = Nobody
  <2>1. PICK begun \in [Fields -> Requests \cup {Nobody}] : begun = [latest[u] EXCEPT !["choice"] = Nobody]
    BY <1>2 DEF AInv, HistoryIsTyped
  <2>2. latest' = [latest EXCEPT ![u] = begun] BY <1>3, <2>1
  <2>3. latest' \in [Users -> [Fields -> Requests \cup {Nobody}]]
        /\ latest'[u] = begun /\ \A v \in Users \ {u} : latest'[v] = latest[v]
    BY <1>2, <2>2 DEF AInv, HistoryIsTyped
  <2>4. begun["choice"] = Nobody /\ begun["fact"] = latest[u]["fact"]
    BY <1>2, <2>1 DEF AInv, HistoryIsTyped, Fields
  <2> QED BY <2>3, <2>4 DEF Fades, Fields
<1>7. HistoryIsTyped' /\ Fewer(acked', acked) /\ acked'[u]["choice"] = "none"
  <2>1. "choice" \in Fields /\ HistoryIsTyped BY DEF Fields, AInv
  <2> QED BY <1>2, <1>3, <1>6, <2>1, UnpromisedIs DEF HistoryIsTyped
<1>8. NewestIsAsked' BY <1>6, NewestStays DEF AInv
<1>9. ChangeIsUnderWay' BY <1>3, <1>5, <1>6, <1>7, ChangeRests
<1>10. CandidateIsTrue' BY <1>3, <1>6, <1>7, CandidateRests
<1>11. SnapshotIsTrue' BY <1>3, <1>5, <1>6, <1>7, SnapshotRests
<1>12. \A v \in Users, q \in Requests : latest'[v]["choice"] = q => v # u
  <2>1. \A q \in Requests : q # Nobody BY PersonalMemoryAssumption
  <2> QED BY <1>6, <2>1
<1>13. MemoryIsAwaited'
  <2>1. \A v \in Users : live'.subj[v].pending => live.subj[v].pending BY <1>4
  <2> QED BY <1>3, <1>4, <1>5, <1>6, <1>12, <2>1, AwaitedRests
<1>14. NewestIsAsked /\ StoresAreTrue /\ PublicationIsTrue BY DEF AInv
<1>15. PublicationIsTrue'
  <2>1. Recalls(live', live, req) BY <1>5, Recalling
  <2>2. Recalls(live', publication.doc, req) /\ Recalls(disk, publication.id, req)
    BY <1>14, <2>1, Recalling DEF PublicationIsTrue
  <2>3. Recalls(live', publication.doc, req') /\ Recalls(disk, publication.id, req')
    BY <2>2, RecallsStay
  <2>4. ASSUME publication.known PROVE MemoryStands(live', publication, latest', req')
    <3>1. MemoryStands(live, publication, latest', req')
      BY <1>6, <1>14, <2>4, NewestStays DEF PublicationIsTrue
    <3> QED BY <1>4, <1>12, <3>1 DEF MemoryStands
  <2>5. Dated(publication.id) => Dated(publication.id)' BY <1>3, DatedStays
  <2> QED BY <1>3, <1>14, <2>3, <2>4, <2>5 DEF PublicationIsTrue
<1>16. StoresAreTrue'
  <2>1. /\ Bears(live, latest', req') /\ Bears(disk, latest', req')
        /\ Redeems(live, acked') /\ Redeems(disk, acked')
        /\ Recalls(disk, live, req') /\ Recalls(live, base, req') /\ NamedByNewest(marker, latest', req')
    BY <1>6, <1>7, <1>14, BearsStay, RedeemsStay, RecallsStay, NewestStays DEF StoresAreTrue
  <2>2. Bears(live', latest', req') BY <1>4, <1>12, <2>1 DEF Bears
  <2>3. Redeems(live', acked') BY <1>4, <1>7, <2>1 DEF Redeems
  <2>4. Recalls(disk, live', req') /\ Recalls(live', base, req') BY <1>5, <2>1 DEF Recalls
  <2>5. ASSUME NEW v \in Users
        PROVE  /\ acked'[v]["choice"] = "on" => ~Marked(marker, v)
               /\ disk.subj[v].pending => marker.on[v] # NoMark
               /\ live'.subj[v].pending /\ disk.subj[v].on => disk.subj[v].pending
               /\ live'.subj[v].pending => base.subj[v].pending
               /\ boot = "clear" => ~disk.subj[v].pending
    <3>1. acked'[v]["choice"] = "on" => acked[v]["choice"] = "on" BY <1>7 DEF Fewer, Fields
    <3>2. live'.subj[v].pending => live.subj[v].pending BY <1>4
    <3> QED BY <1>14, <3>1, <3>2 DEF StoresAreTrue
  <2> QED BY <1>3, <2>1, <2>2, <2>3, <2>4, <2>5 DEF StoresAreTrue
<1> QED BY <1>7, <1>8, <1>9, <1>10, <1>11, <1>13, <1>15, <1>16 DEF AInv

-----------------------------------------------------------------------------
(* The steps: the memory service and the ordinary writer                   *)

\* What an edit overtakes is promised and newest no more.
LEMMA OvertakingIs ==
  ASSUME HistoryIsTyped, Keeps, NewestIsAsked, NEW u \in Users, Overtakes(u)
  PROVE  /\ HistoryIsTyped' /\ Fades(latest', latest) /\ Fewer(acked', acked)
         /\ acked'[u]["fact"] = "none" /\ latest'[u]["fact"] = Nobody
         /\ \A r \in Requests : latest'[u]["choice"] = r => req'[r].kind # "on"
<1>1. /\ acked' \in [Users -> [Fields -> {"none", "on", "off", "remember", "forget"}]]
      /\ Fewer(acked', acked) /\ acked'[u]["fact"] = "none"
  <2>1. "fact" \in Fields /\ acked' = Unpromised(u, "fact") BY DEF Fields, Overtakes
  <2> QED BY <2>1, UnpromisedIs
<1>2. PICK c : c = IF latest[u]["choice"] \in Requests /\ Kind(latest[u]["choice"]) = "on"
                     THEN Nobody ELSE latest[u]["choice"]
  OBVIOUS
<1>3. PICK begun : begun = [latest[u] EXCEPT !["choice"] = c, !["fact"] = Nobody] OBVIOUS
<1>4. latest[u] \in [Fields -> Requests \cup {Nobody}] /\ c \in Requests \cup {Nobody}
  BY <1>2 DEF HistoryIsTyped, Fields
<1>5. /\ begun \in [Fields -> Requests \cup {Nobody}] /\ begun["fact"] = Nobody /\ begun["choice"] = c
  BY <1>3, <1>4 DEF Fields
<1>6. latest' = [latest EXCEPT ![u] = begun]
  <2>1. latest' = [latest EXCEPT
          ![u]["choice"] = IF @ \in Requests /\ Kind(@) = "on" THEN Nobody ELSE @,
          ![u]["fact"] = Nobody]
    BY Zenon DEF Overtakes
  <2>2. latest' = [latest EXCEPT ![u]["choice"] = c, ![u]["fact"] = Nobody] BY <1>2, <2>1
  <2>3. PICK f : f = [latest[u] EXCEPT !["choice"] = c] OBVIOUS
  <2>4. latest' = [[latest EXCEPT ![u] = f] EXCEPT ![u]["fact"] = Nobody] BY <2>2, <2>3
  <2>5. [latest EXCEPT ![u] = f][u] = f BY DEF HistoryIsTyped
  <2>6. begun = [f EXCEPT !["fact"] = Nobody] BY <1>3, <2>3
  <2> QED BY <2>4, <2>5, <2>6 DEF HistoryIsTyped
<1>7. /\ latest' \in [Users -> [Fields -> Requests \cup {Nobody}]]
      /\ latest'[u] = begun /\ \A v \in Users \ {u} : latest'[v] = latest[v]
  BY <1>5, <1>6 DEF HistoryIsTyped
<1>8. Fades(latest', latest) BY <1>2, <1>5, <1>7 DEF Fades, Fields
<1>9. ASSUME NEW r \in Requests, latest'[u]["choice"] = r PROVE req'[r].kind # "on"
  <2>1. c = r BY <1>5, <1>7, <1>9
  <2>2. r # Nobody BY PersonalMemoryAssumption
  <2>3. latest[u]["choice"] = r /\ req[r].kind # "on" BY <1>2, <2>1, <2>2 DEF Kind
  <2> QED BY <2>3 DEF NewestIsAsked, Keeps
<1> QED BY <1>1, <1>5, <1>7, <1>8, <1>9 DEF HistoryIsTyped

\* MemoryService::remember and forget
LEMMA EditIsTrue ==
  ASSUME IInv, IInv', AInv, Keeps, NEW u \in Users, Learn(u) \/ Unlearn(u)
  PROVE  AInv'
<1>1. /\ tx.at = "idle" /\ Overtakes(u)
      /\ UNCHANGED <<base, publication, disk, marker, boot, tx, snap>>
  BY Zenon DEF Learn, Unlearn, files
<1>2. NewestIsAsked /\ HistoryIsTyped /\ StoresAreTrue /\ PublicationIsTrue BY DEF AInv
<1>3. /\ HistoryIsTyped' /\ Fades(latest', latest) /\ Fewer(acked', acked)
      /\ acked'[u]["fact"] = "none" /\ latest'[u]["fact"] = Nobody
      /\ \A r \in Requests : latest'[u]["choice"] = r => req'[r].kind # "on"
  BY <1>1, <1>2, OvertakingIs
<1>4. /\ \A v \in Users : /\ live'.subj[v].on = live.subj[v].on
                          /\ live'.subj[v].pending = live.subj[v].pending
                          /\ live'.subj[v].out = live.subj[v].out
      /\ \A v \in Users \ {u} : /\ (v \in live'.facts) = (v \in live.facts)
                                /\ live'.subj[v] = live.subj[v]
  BY EditDoes DEF IInv
<1>5. \A r \in Requests : latest'[u]["fact"] # r
  <2>1. \A q \in Requests : q # Nobody BY PersonalMemoryAssumption
  <2> QED BY <1>3, <2>1
<1>6. NewestIsAsked' BY <1>2, <1>3, NewestStays
<1>7. ChangeIsUnderWay' BY <1>1, <1>3, <1>4, ChangeRests
<1>8. CandidateIsTrue' BY <1>1, <1>3, CandidateRests
<1>9. SnapshotIsTrue' BY <1>1, <1>3, <1>4, SnapshotRests
<1>10. MemoryIsAwaited' BY <1>1 DEF MemoryIsAwaited, InPlay
<1>11. PublicationIsTrue'
  <2>1. Recalls(live', live, req) BY <1>4, Recalling
  <2>2. Recalls(live', publication.doc, req) /\ Recalls(disk, publication.id, req)
    BY <1>2, <2>1, Recalling DEF PublicationIsTrue
  <2>3. Recalls(live', publication.doc, req') /\ Recalls(disk, publication.id, req')
    BY <2>2, RecallsStay
  <2>4. ASSUME publication.known PROVE MemoryStands(live', publication, latest', req')
    <3>1. MemoryStands(live, publication, latest', req')
      BY <1>2, <1>3, <2>4, NewestStays DEF PublicationIsTrue
    <3>2. ASSUME NEW v \in Users, NEW r \in Requests
          PROVE  /\ latest'[v]["choice"] = r /\ req'[r].kind = "on"
                     /\ (live'.subj[v].out[r] # "none" \/ publication.id.subj[v].out[r] # "none") =>
                       live'.subj[v] = publication.doc.subj[v]
                 /\ latest'[v]["fact"] = r /\ publication.id.subj[v].out[r] # "none" =>
                      (v \in live'.facts) = (v \in publication.doc.facts)
      <4>1. CASE v = u BY <1>3, <1>5, <4>1
      <4>2. CASE v # u BY <1>4, <3>1, <4>2 DEF MemoryStands
      <4> QED BY <4>1, <4>2
    <3> QED BY <3>2 DEF MemoryStands
  <2>5. Dated(publication.id) => Dated(publication.id)' BY <1>1, DatedStays
  <2> QED BY <1>1, <1>2, <2>3, <2>4, <2>5 DEF PublicationIsTrue
<1>12. StoresAreTrue'
  <2>1. /\ Bears(live, latest', req') /\ Bears(disk, latest', req')
        /\ Redeems(live, acked') /\ Redeems(disk, acked')
        /\ Recalls(disk, live, req') /\ Recalls(live, base, req') /\ NamedByNewest(marker, latest', req')
    BY <1>2, <1>3, BearsStay, RedeemsStay, RecallsStay, NewestStays DEF StoresAreTrue
  <2>2. Bears(live', latest', req') BY <1>4, <1>5, <2>1 DEF Bears
  <2>3. Redeems(live', acked')
    <3>1. ASSUME NEW v \in Users
          PROVE  /\ acked'[v]["choice"] = "on" => live'.subj[v].on /\ ~live'.subj[v].pending
                 /\ acked'[v]["choice"] = "off" => ~live'.subj[v].on
      BY <1>4, <2>1 DEF Redeems
    <3>2. ASSUME NEW v \in Users
          PROVE  /\ acked'[v]["fact"] = "remember" => v \in live'.facts
                 /\ acked'[v]["fact"] = "forget" => v \notin live'.facts
      BY <1>3, <1>4, <2>1 DEF Redeems
    <3> QED BY <3>1, <3>2 DEF Redeems
  <2>4. Recalls(disk, live', req') /\ Recalls(live', base, req') BY <1>4, <2>1 DEF Recalls
  <2>5. ASSUME NEW v \in Users
        PROVE  /\ acked'[v]["choice"] = "on" => ~Marked(marker, v)
               /\ disk.subj[v].pending => marker.on[v] # NoMark
               /\ live'.subj[v].pending /\ disk.subj[v].on => disk.subj[v].pending
               /\ live'.subj[v].pending => base.subj[v].pending
               /\ boot = "clear" => ~disk.subj[v].pending
    <3>1. acked'[v]["choice"] = "on" => acked[v]["choice"] = "on" BY <1>3 DEF Fewer, Fields
    <3>2. live'.subj[v].pending = live.subj[v].pending BY <1>4
    <3> QED BY <1>2, <3>1, <3>2 DEF StoresAreTrue
  <2> QED BY <1>1, <2>1, <2>2, <2>3, <2>4, <2>5 DEF StoresAreTrue
<1> QED BY <1>3, <1>6, <1>7, <1>8, <1>9, <1>10, <1>11, <1>12 DEF AInv

\* Between transactions nothing is said of one.
LEMMA IdleIsTrue ==
  tx.at = "idle" => ChangeIsUnderWay /\ CandidateIsTrue /\ MemoryIsAwaited
BY DEF ChangeIsUnderWay, CandidateIsTrue, MemoryIsAwaited, Building, Publishing, InPlay

\* A choice is pending nowhere while the journal is empty.
LEMMA NothingIsPending ==
  ASSUME IInv, AInv, IsEmpty(marker), NEW u \in Users
  PROVE  /\ ~disk.subj[u].pending
         /\ base = disk => ~live.subj[u].pending /\ ~base.subj[u].pending
<1>1. marker.on[u] = NoMark BY EmptyIs DEF IInv, Types, Marked
<1> QED BY <1>1 DEF AInv, StoresAreTrue

\* A snapshot knows and shows what memory does.
LEMMA TakeSnapshotIsTrue ==
  ASSUME IInv, IInv', AInv, Keeps, TakeSnapshot
  PROVE  AInv'
<1>1. /\ tx.at = "idle" /\ tx'.at = "idle" /\ snap' = [held |-> TRUE, doc |-> live, base |-> base]
      /\ UNCHANGED <<live, base, publication, disk, marker, boot, req, tx, acked, latest>>
  BY DEF TakeSnapshot, Free, memory, files, history
<1>2. Fades(latest', latest) /\ Fewer(acked', acked) BY <1>1, HistoryRests
<1>3. NewestIsAsked' /\ HistoryIsTyped' BY <1>1 DEF AInv, NewestIsAsked, HistoryIsTyped
<1>4. StoresAreTrue' /\ PublicationIsTrue' BY <1>1, <1>2, StoresRest, PublicationRests
<1>5. ChangeIsUnderWay' /\ CandidateIsTrue' /\ MemoryIsAwaited'
  <2>1. (tx.at = "idle")' BY <1>1
  <2> QED BY <2>1, IdleIsTrue, PTL
<1>6. SnapshotIsTrue'
  <2>1. /\ Bears(live, latest, req) /\ Redeems(live, acked) /\ Recalls(live, base, req)
        /\ \A u \in Users : live.subj[u].pending => base.subj[u].pending
    BY DEF AInv, StoresAreTrue
  <2>2. Recalls(live, live, req) BY Recalling
  <2>3. snap'.doc = live /\ snap'.base = base BY <1>1
  <2> QED BY <1>1, <2>1, <2>2, <2>3 DEF SnapshotIsTrue
<1> QED BY <1>3, <1>4, <1>5, <1>6 DEF AInv

\* The ordinary writer puts a document there that descends from the last one.
LEMMA SnapshotWritten ==
  ASSUME IInv, IInv', AInv, Keeps, WriteSnapshot \/ SnapshotFails
  PROVE  AInv'
<1>1. /\ snap.held /\ ~snap'.held
      /\ UNCHANGED <<live, publication, marker, boot, req, tx, acked, latest>>
      /\ \/ UNCHANGED <<disk, base>>
         \/ Writable /\ disk' = snap.doc /\ base' \in {base, snap.doc}
  <2>1. ~NoSnapshot.held BY DEF NoSnapshot
  <2> QED BY <2>1 DEF WriteSnapshot, SnapshotFails, memory, history
<1>2. Fades(latest', latest) /\ Fewer(acked', acked) BY <1>1, HistoryRests
<1>3. NewestIsAsked' /\ HistoryIsTyped' BY <1>1 DEF AInv, NewestIsAsked, HistoryIsTyped
<1>4. tx.at = "idle" /\ boot = "up" /\ snap.doc.epoch >= snap.base.epoch
  BY <1>1 DEF IInv, SnapshotIsBehind
<1>5. ChangeIsUnderWay' /\ CandidateIsTrue' /\ MemoryIsAwaited'
  <2>1. (tx.at = "idle")' BY <1>1, <1>4
  <2> QED BY <2>1, IdleIsTrue, PTL
<1>6. SnapshotIsTrue' BY <1>1 DEF SnapshotIsTrue
<1>7. CASE UNCHANGED <<disk, base>>
  <2>1. StoresAreTrue' /\ PublicationIsTrue' BY <1>1, <1>2, <1>7, StoresRest, PublicationRests
  <2> QED BY <1>3, <1>5, <1>6, <2>1 DEF AInv
<1>8. CASE Writable /\ disk' = snap.doc /\ base' \in {base, snap.doc}
  <2>1. /\ snap.base = base /\ Bears(snap.doc, latest, req) /\ Redeems(snap.doc, acked)
        /\ Recalls(snap.doc, live, req) /\ Recalls(live, snap.doc, req)
        /\ Recalls(snap.doc, snap.base, req)
        /\ \A u \in Users : snap.doc.subj[u].pending => snap.base.subj[u].pending
    BY <1>1 DEF AInv, SnapshotIsTrue
  <2>2. IsEmpty(marker) /\ snap.base = disk /\ base = disk BY <1>8, <2>1 DEF Writable
  <2>3. StoresAreTrue /\ PublicationIsTrue BY DEF AInv
  <2>4. \A u \in Users : ~live.subj[u].pending /\ ~base.subj[u].pending /\ ~snap.doc.subj[u].pending
    BY <2>1, <2>2, NothingIsPending
  <2>5. Recalls(live, base', req) BY <1>8, <2>1, <2>3 DEF StoresAreTrue
  <2>6. StoresAreTrue'
    <3>1. \A u \in Users : acked[u]["choice"] = "on" => ~Marked(marker, u) BY <2>3 DEF StoresAreTrue
    <3>2. /\ Bears(live, latest, req) /\ Redeems(live, acked) /\ NamedByNewest(marker, latest, req)
      BY <2>3 DEF StoresAreTrue
    <3> QED BY <1>1, <1>8, <2>1, <2>4, <2>5, <3>1, <3>2 DEF StoresAreTrue
  <2>7. PublicationIsTrue'
    <3>1. Recalls(snap.doc, publication.id, req) BY <2>1, <2>2, <2>3, Recalling DEF PublicationIsTrue
    <3>2. Dated(publication.id) => Dated(publication.id)' BY <1>1, DatedStays
    <3>3. publication.known => publication.id.epoch <= snap.doc.epoch
      <4>1. publication.id \in Documents /\ disk \in Documents /\ snap.doc \in Documents
        BY DEF IInv, Types
      <4>2. publication.id.epoch \in Nat /\ disk.epoch \in Nat /\ snap.doc.epoch \in Nat
        BY <4>1, DocumentIs
      <4>3. publication.known => publication.id.epoch <= disk.epoch BY <2>3 DEF PublicationIsTrue
      <4> QED BY <1>4, <2>2, <4>2, <4>3
    <3> QED BY <1>1, <1>4, <1>8, <2>3, <3>1, <3>2, <3>3 DEF PublicationIsTrue
  <2> QED BY <1>3, <1>5, <1>6, <2>6, <2>7 DEF AInv
<1> QED BY <1>1, <1>7, <1>8

-----------------------------------------------------------------------------
(* The steps: the process dies and starts again                            *)

\* The first document knows nothing and promises nothing.
LEMMA FirstIsTrue ==
  ASSUME NEW S \in SUBSET Users, NEW d, NEW asked, NEW last
  PROVE  /\ Recalls(d, Document(S), asked) /\ Bears(Document(S), last, asked)
         /\ \A u \in Users : ~Document(S).subj[u].pending
<1>1. \A u \in Users, r \in Requests : Document(S).subj[u].out[r] = "none" BY FirstIs
<1>2. \A u \in Users : ~Document(S).subj[u].pending
  <2>1. \A on \in BOOLEAN : Subject(on).pending = FALSE BY DEF Subject
  <2>2. \A u \in Users : Document(S).subj[u] = Subject(u \in S) /\ (u \in S) \in BOOLEAN BY DEF Document
  <2> QED BY <2>1, <2>2
<1> QED BY <1>1, <1>2 DEF Recalls, Bears

\* An empty journal names nobody.
LEMMA EmptyIsTrue ==
  ASSUME NEW last, NEW asked
  PROVE  NamedByNewest(EmptyMarker, last, asked)
BY DEF NamedByNewest, Names, By, EmptyMarker

\* At first nothing was promised.
LEMMA InitIsTrue == Init => AInv
<1> SUFFICES ASSUME Init PROVE AInv OBVIOUS
<1>1. PICK S \in SUBSET Users : live = Document(S) BY DEF Init
<1>2. /\ disk = live /\ base = live /\ marker = EmptyMarker /\ publication = NoPublication
      /\ boot = "up" /\ tx.at = "idle" /\ ~snap.held
      /\ acked = NothingAcked /\ latest = NothingBegun
  BY DEF Init, Idle, NoSnapshot
<1>3. \A r \in Requests : r # Nobody BY PersonalMemoryAssumption
<1>4. HistoryIsTyped /\ \A u \in Users, field \in Fields :
        acked[u][field] = "none" /\ latest[u][field] = Nobody
  BY <1>2 DEF HistoryIsTyped, NothingAcked, NothingBegun
<1>5. NewestIsAsked BY <1>3, <1>4 DEF NewestIsAsked, Fields
<1>6. /\ Recalls(live, live, req) /\ Bears(live, latest, req) /\ \A u \in Users : ~live.subj[u].pending
  BY <1>1, FirstIsTrue
<1>7. Redeems(live, acked) BY <1>4 DEF Redeems, Fields
<1>8. StoresAreTrue
  <2>1. NamedByNewest(marker, latest, req) BY <1>2, EmptyIsTrue
  <2>2. \A u \in Users : acked[u]["choice"] = "none" BY <1>4 DEF Fields
  <2> QED BY <1>2, <1>6, <1>7, <2>1, <2>2 DEF StoresAreTrue
<1>9. PublicationIsTrue
  <2>1. ~publication.known /\ publication.doc = Document({}) /\ publication.id = Document({})
    BY <1>2 DEF NoPublication
  <2>2. Recalls(live, Document({}), req) BY FirstIsTrue
  <2> QED BY <1>2, <2>1, <2>2 DEF PublicationIsTrue
<1>10. SnapshotIsTrue BY <1>2 DEF SnapshotIsTrue
<1> QED BY <1>2, <1>4, <1>5, <1>8, <1>9, <1>10, IdleIsTrue DEF AInv

\* Only the files are left, and they speak for themselves.
LEMMA CrashIsTrue ==
  ASSUME IInv, IInv', AInv, Keeps, Crash
  PROVE  AInv'
<1>1. /\ boot' = "write" /\ live' = disk /\ base' = disk /\ publication' = NoPublication
      /\ tx'.at = "idle" /\ ~snap'.held /\ UNCHANGED <<disk, marker, acked, latest>>
  BY DEF Crash, files, Idle, NoSnapshot
<1>2. Fades(latest', latest) /\ Fewer(acked', acked) BY <1>1, HistoryRests
<1>3. NewestIsAsked' /\ HistoryIsTyped' BY <1>1, <1>2, NewestStays DEF AInv, HistoryIsTyped
<1>4. ChangeIsUnderWay' /\ CandidateIsTrue' /\ MemoryIsAwaited'
  <2>1. (tx.at = "idle")' BY <1>1
  <2> QED BY <2>1, IdleIsTrue, PTL
<1>5. SnapshotIsTrue' BY <1>1 DEF SnapshotIsTrue
<1>6. StoresAreTrue'
  <2>1. StoresAreTrue /\ NewestIsAsked BY DEF AInv
  <2>2. /\ Bears(disk, latest', req') /\ Redeems(disk, acked') /\ NamedByNewest(marker, latest', req')
    BY <1>2, <2>1, BearsStay, RedeemsStay, NewestStays DEF StoresAreTrue
  <2>3. Recalls(disk, disk, req') BY Recalling
  <2>4. \A u \in Users : /\ acked[u]["choice"] = "on" => ~Marked(marker, u)
                         /\ disk.subj[u].pending => marker.on[u] # NoMark
    BY <2>1 DEF StoresAreTrue
  <2> QED BY <1>1, <2>2, <2>3, <2>4 DEF StoresAreTrue
<1>7. PublicationIsTrue'
  <2>1. publication'.known = FALSE /\ publication'.doc = Document({}) /\ publication'.id = Document({})
    BY <1>1 DEF NoPublication
  <2>2. Recalls(disk, Document({}), req') BY FirstIsTrue
  <2> QED BY <1>1, <2>1, <2>2 DEF PublicationIsTrue
<1> QED BY <1>3, <1>4, <1>5, <1>6, <1>7 DEF AInv

\* What a restart makes of the files.
LEMMA RestartIs ==
  ASSUME IInv, AInv
  PROVE  LET d == Recovered(disk, marker)
         IN  /\ Bears(d, latest, req) /\ Redeems(d, acked) /\ Recalls(d, disk, req)
             /\ \A u \in Users : /\ ~d.subj[u].pending
                                 /\ d.subj[u].on => disk.subj[u].on /\ ~Marked(marker, u)
<1>1. PICK d : d = Recovered(disk, marker) OBVIOUS
<1>2. StoresAreTrue BY DEF AInv
<1>3. PICK n \in Nat : Covers(n, marker) BY DEF IInv, WithdrawalsAreKept
<1>4. Types /\ disk \in Documents /\ marker \in Journals /\ JournalDated(marker)
  BY DEF IInv, Types, EverythingIsDated
<1>5. \A u \in Users : disk.subj[u].pending => Marked(marker, u) BY <1>2 DEF StoresAreTrue, Marked
<1>6. d \in Documents BY <1>1, <1>3, <1>4, RecoveredIs
<1>7. Folds(d, disk, marker, req) /\ \A u \in Users : ~d.subj[u].pending
  BY <1>1, <1>3, <1>4, <1>5, RecoveredDoes
<1>8. Bears(d, latest, req) BY <1>2, <1>6, <1>7, FoldsBear DEF StoresAreTrue
<1>9. Redeems(d, acked) BY <1>2, <1>7, FoldsRedeem DEF StoresAreTrue
<1>10. Recalls(d, disk, req) BY <1>4, <1>7, FoldsRecall
<1>11. \A u \in Users : d.subj[u].on => disk.subj[u].on /\ ~Marked(marker, u) BY <1>7 DEF Folds
<1> QED BY <1>1, <1>7, <1>8, <1>9, <1>10, <1>11

\* recover_owned
LEMMA RecoveryIsTrue ==
  ASSUME IInv, IInv', AInv, Keeps, Recover
  PROVE  AInv'
<1>1. boot # "up" /\ UNCHANGED <<publication, req, tx, snap, acked, latest>>
  BY DEF Recover, RecoverDocument, RecoverJournal, RecoveryFails, memory, history
<1>2. tx = Idle /\ ~snap.held /\ live = base BY <1>1 DEF IInv, RecoveryIsFirst
<1>3. NewestIsAsked' /\ HistoryIsTyped' BY <1>1 DEF AInv, NewestIsAsked, HistoryIsTyped
<1>4. ChangeIsUnderWay' /\ CandidateIsTrue' /\ MemoryIsAwaited'
  <2>1. (tx.at = "idle")' BY <1>1, <1>2 DEF Idle
  <2> QED BY <2>1, IdleIsTrue, PTL
<1>5. SnapshotIsTrue' BY <1>1, <1>2 DEF SnapshotIsTrue
<1>6. StoresAreTrue /\ PublicationIsTrue /\ ~publication.known BY <1>1 DEF AInv, PublicationIsTrue
<1>7. PICK d : d = Recovered(disk, marker) OBVIOUS
<1>8. /\ Bears(d, latest, req) /\ Redeems(d, acked) /\ Recalls(d, disk, req)
      /\ \A u \in Users : /\ ~d.subj[u].pending
                          /\ d.subj[u].on => disk.subj[u].on /\ ~Marked(marker, u)
  BY <1>7, RestartIs
<1>9. /\ disk' \in {disk, d} /\ marker' \in {marker, EmptyMarker}
      /\ marker' # marker => disk' = disk /\ boot = "clear"
      /\ live' \in {live, disk'} /\ base' = live'
      /\ boot' = "clear" => disk' = d
  <2>1. CASE RecoverDocument BY <1>2, <1>7, <2>1 DEF RecoverDocument, Serve
  <2>2. CASE RecoverJournal BY <2>2 DEF RecoverJournal, Serve
  <2>3. CASE RecoveryFails BY <1>2, <1>7, <2>3 DEF RecoveryFails, memory
  <2> QED BY <2>1, <2>2, <2>3 DEF Recover
<1>10. /\ Bears(disk', latest, req) /\ Redeems(disk', acked) /\ Recalls(disk', disk, req)
  BY <1>6, <1>8, <1>9, Recalling DEF StoresAreTrue
<1>11. /\ Bears(live, latest, req) /\ Redeems(live, acked) /\ Recalls(disk, live, req)
  BY <1>6 DEF StoresAreTrue
<1>12. Recalls(disk', live, req) BY <1>10, <1>11, Recalling
<1>13. Recalls(live', live, req) /\ Recalls(disk', live', req) /\ Recalls(live', base', req)
  BY <1>9, <1>12, Recalling
<1>14. NamedByNewest(marker', latest, req)
  BY <1>6, <1>9, EmptyIsTrue DEF StoresAreTrue
<1>15. ASSUME NEW u \in Users
       PROVE  /\ acked[u]["choice"] = "on" => ~Marked(marker', u)
              /\ disk'.subj[u].pending => marker'.on[u] # NoMark
              /\ live'.subj[u].pending /\ disk'.subj[u].on => disk'.subj[u].pending
              /\ live'.subj[u].pending => base'.subj[u].pending
              /\ boot' = "clear" => ~disk'.subj[u].pending
  <2>1. /\ acked[u]["choice"] = "on" => ~Marked(marker, u)
        /\ disk.subj[u].pending => marker.on[u] # NoMark
        /\ live.subj[u].pending /\ disk.subj[u].on => disk.subj[u].pending
        /\ boot = "clear" => ~disk.subj[u].pending
    BY <1>6 DEF StoresAreTrue
  <2>2. ~Marked(EmptyMarker, u) BY EmptyIs
  <2>3. acked[u]["choice"] = "on" => ~Marked(marker', u) BY <1>9, <2>1, <2>2
  <2>4. disk'.subj[u].pending => marker'.on[u] # NoMark
    <3>1. CASE marker' = marker BY <1>8, <1>9, <2>1, <3>1
    <3>2. CASE marker' # marker BY <1>9, <2>1, <3>2
    <3> QED BY <3>1, <3>2
  <2>5. live.subj[u].pending /\ disk'.subj[u].on => disk'.subj[u].pending
    <3>1. CASE disk' = disk BY <2>1, <3>1
    <3>2. CASE disk' = d
      <4>1. d.subj[u].on => disk.subj[u].on /\ marker.on[u] = NoMark BY <1>8 DEF Marked
      <4> QED BY <2>1, <3>2, <4>1
    <3> QED BY <1>9, <3>1, <3>2
  <2>6. live'.subj[u].pending /\ disk'.subj[u].on => disk'.subj[u].pending BY <1>9, <2>5
  <2> QED BY <1>8, <1>9, <2>3, <2>4, <2>6
<1>16. StoresAreTrue'
  <2>1. Bears(live', latest, req) /\ Redeems(live', acked) BY <1>9, <1>10, <1>11
  <2> QED BY <1>1, <1>10, <1>13, <1>14, <1>15, <2>1 DEF StoresAreTrue
<1>17. PublicationIsTrue'
  <2>1. Recalls(live', publication.doc, req) BY <1>6, <1>13, Recalling DEF PublicationIsTrue
  <2>2. Recalls(disk', publication.id, req) BY <1>6, <1>10, Recalling DEF PublicationIsTrue
  <2> QED BY <1>1, <1>6, <2>1, <2>2 DEF PublicationIsTrue
<1> QED BY <1>3, <1>4, <1>5, <1>16, <1>17 DEF AInv

-----------------------------------------------------------------------------
(* The steps: the transaction                                              *)

\* A transaction that ends, or goes on with what it has.
LEMMA PlayIsTrue ==
  ASSUME IInv, AInv, Keeps, tx.at # "idle", UNCHANGED <<live, snap, acked, latest>>,
         \/ tx' = Idle
         \/ /\ tx'.by = tx.by /\ tx'.replay = tx.replay /\ tx'.aborted = tx.aborted
            /\ tx'.live = tx.live /\ tx'.at \notin Marking /\ tx'.at # "finish"
            /\ NamedByNewest(tx'.journal, latest, req)
            /\ tx'.at \in Building =>
                 /\ Bears(tx'.cand, latest, req) /\ Redeems(tx'.cand, acked) /\ Recalls(tx'.cand, disk', req)
                 /\ ~tx.aborted => tx'.cand.subj[Member(tx.by)].out[tx.by] # "none"
                 /\ \A u \in Users :
                      tx'.cand.subj[u].pending => Activates(u) /\ tx'.at \in {"mark", "write", "project"}
            /\ tx'.at \in InPlay =>
                 tx.at \in InPlay /\ \A u \in Users : tx'.cand.subj[u].on => tx.cand.subj[u].on
  PROVE  /\ NewestIsAsked' /\ HistoryIsTyped' /\ SnapshotIsTrue'
         /\ ChangeIsUnderWay' /\ CandidateIsTrue' /\ MemoryIsAwaited'
<1>1. Fades(latest', latest) /\ Fewer(acked', acked) BY HistoryRests
<1>2. NewestIsAsked' /\ HistoryIsTyped' BY <1>1, NewestStays DEF AInv, HistoryIsTyped
<1>3. SnapshotIsTrue' BY TransactionIs DEF SnapshotIsTrue
<1>4. CASE tx' = Idle
  <2>1. (tx.at = "idle")' BY <1>4 DEF Idle
  <2>2. ChangeIsUnderWay' /\ CandidateIsTrue' /\ MemoryIsAwaited' BY <2>1, IdleIsTrue, PTL
  <2> QED BY <1>2, <1>3, <2>2
<1>5. CASE /\ tx'.by = tx.by /\ tx'.replay = tx.replay /\ tx'.aborted = tx.aborted
           /\ tx'.live = tx.live /\ tx'.at \notin Marking /\ tx'.at # "finish"
           /\ NamedByNewest(tx'.journal, latest, req)
           /\ tx'.at \in Building =>
                /\ Bears(tx'.cand, latest, req) /\ Redeems(tx'.cand, acked) /\ Recalls(tx'.cand, disk', req)
                /\ ~tx.aborted => tx'.cand.subj[Member(tx.by)].out[tx.by] # "none"
                /\ \A u \in Users :
                     tx'.cand.subj[u].pending => Activates(u) /\ tx'.at \in {"mark", "write", "project"}
           /\ tx'.at \in InPlay =>
                tx.at \in InPlay /\ \A u \in Users : tx'.cand.subj[u].on => tx.cand.subj[u].on
  <2>1. /\ tx.by \in Requests /\ Member(tx.by) \in Users /\ Member(tx.by)' = Member(tx.by)
        /\ Kind(tx.by)' = Kind(tx.by) /\ ChoiceField(tx.by)' = ChoiceField(tx.by)
        /\ ChoiceField(tx.by) \in Fields /\ \A u : Activates(u)' = Activates(u)
    BY <1>5, ChangeIs
  <2>2. NewestIsAsked /\ ChangeIsUnderWay /\ MemoryIsAwaited BY DEF AInv
  <2>3. ChangeIsUnderWay'
    <3>1. NamedByNewest(tx'.journal, latest', req') BY <1>1, <1>5, <2>2, NewestStays
    <3> QED BY <1>5, <2>1, <2>2, <3>1 DEF ChangeIsUnderWay
  <2>4. CandidateIsTrue'
    <3>1. ASSUME tx'.at \in Building
          PROVE  /\ Bears(tx'.cand, latest', req') /\ Redeems(tx'.cand, acked')
                 /\ Recalls(tx'.cand, disk', req')
      BY <1>1, <1>5, <2>2, <3>1, BearsStay, RedeemsStay, RecallsStay
    <3> QED BY <1>5, <2>1, <3>1 DEF CandidateIsTrue
  <2>5. MemoryIsAwaited'
    <3>1. Recalls(live, tx.live, req) => Recalls(live, tx.live, req') BY RecallsStay
    <3>2. \A u \in Users, r \in Requests :
            latest'[u]["choice"] = r /\ req'[r].kind = "on" => latest[u]["choice"] = r /\ req[r].kind = "on"
      BY <1>1, <2>2, NewestStays
    <3> QED BY <1>5, <2>2, <3>1, <3>2 DEF MemoryIsAwaited
  <2> QED BY <1>2, <1>3, <2>3, <2>4, <2>5
<1> QED BY <1>4, <1>5

\* Goto moves nothing else of the transaction.
LEMMA GoneTo ==
  ASSUME Types, NEW at, Goto(at)
  PROVE  /\ tx'.at = at /\ tx'.by = tx.by /\ tx'.replay = tx.replay /\ tx'.aborted = tx.aborted
         /\ tx'.live = tx.live /\ tx'.cand = tx.cand /\ tx'.journal = tx.journal
<1>1. PICK steps : tx \in [at : steps, by : Requests \cup {Nobody}, cand : Documents, live : Documents,
                          base : Documents, journal : Journals, mark : Marks,
                          replay : BOOLEAN, aborted : BOOLEAN]
  BY Zenon DEF Types, Transaction
<1> QED BY <1>1 DEF Goto

\* The next step of the same candidate.
LEMMA PlayGoesTo ==
  ASSUME IInv, AInv, Keeps, tx.at \in InPlay, tx.at \in Building, UNCHANGED <<live, snap, acked, latest>>,
         NEW at, Goto(at), at \in Publishing \cup {"deny"}, at # "finish", disk' \in {disk, tx.cand},
         \A u \in Users : tx.cand.subj[u].pending => at \in {"write", "project", "deny"}
  PROVE  /\ NewestIsAsked' /\ HistoryIsTyped' /\ SnapshotIsTrue'
         /\ ChangeIsUnderWay' /\ CandidateIsTrue' /\ MemoryIsAwaited'
<1>1. /\ tx'.at = at /\ tx'.by = tx.by /\ tx'.replay = tx.replay /\ tx'.aborted = tx.aborted
      /\ tx'.live = tx.live /\ tx'.cand = tx.cand /\ tx'.journal = tx.journal
  BY GoneTo DEF IInv
<1>2. tx.at # "idle" BY DEF InPlay
<1>3. at \notin Marking BY Zenon DEF Marking, Publishing
<1>4. CandidateIsTrue /\ NamedByNewest(tx.journal, latest, req) BY <1>2 DEF AInv, ChangeIsUnderWay
<1>5. /\ Bears(tx.cand, latest, req) /\ Redeems(tx.cand, acked) /\ Recalls(tx.cand, disk, req)
      /\ ~tx.aborted => tx.cand.subj[Member(tx.by)].out[tx.by] # "none"
      /\ \A u \in Users : tx.cand.subj[u].pending => Activates(u)
  BY <1>2, <1>4 DEF CandidateIsTrue
<1>6. Recalls(tx.cand, disk', req) BY <1>5, Recalling
<1>7. \A u \in Users : tx.cand.subj[u].pending /\ at \in Building => at \in {"mark", "write", "project"}
  BY DEF Building, Publishing
<1> QED BY <1>1, <1>2, <1>3, <1>4, <1>5, <1>6, <1>7, PlayIsTrue

\* A transaction that fails.
LEMMA FailureIsTrue ==
  ASSUME IInv, AInv, Keeps, tx.at \in InPlay, Fails, UNCHANGED <<live, snap, acked, latest>>
  PROVE  /\ NewestIsAsked' /\ HistoryIsTyped' /\ SnapshotIsTrue'
         /\ ChangeIsUnderWay' /\ CandidateIsTrue' /\ MemoryIsAwaited'
<1>1. tx' = Idle \/ Goto("deny") BY DEF Fails, Settles
<1>2. tx.at # "idle" BY DEF InPlay
<1>3. CASE tx' = Idle BY <1>2, <1>3, PlayIsTrue
<1>4. CASE Goto("deny")
  <2>1. /\ tx'.at = "deny" /\ tx'.by = tx.by /\ tx'.replay = tx.replay /\ tx'.aborted = tx.aborted
        /\ tx'.live = tx.live /\ tx'.journal = tx.journal
    BY <1>4, GoneTo DEF IInv
  <2>2. "deny" \notin Marking BY Zenon DEF Marking
  <2>3. "deny" \notin Building /\ "deny" \notin InPlay /\ "deny" # "finish"
    BY DEF Building, Publishing, InPlay
  <2>4. NamedByNewest(tx.journal, latest, req) BY <1>2 DEF AInv, ChangeIsUnderWay
  <2> QED BY <1>2, <2>1, <2>2, <2>3, <2>4, PlayIsTrue
<1> QED BY <1>1, <1>3, <1>4

\* The journal moves and the documents stay.
LEMMA JournalIsTrue ==
  ASSUME AInv, Keeps, UNCHANGED <<live, base, disk, publication, boot, acked, latest>>,
         NamedByNewest(marker', latest, req),
         \A u \in Users : /\ acked[u]["choice"] = "on" => ~Marked(marker', u)
                          /\ disk.subj[u].pending => marker'.on[u] # NoMark
  PROVE  StoresAreTrue' /\ PublicationIsTrue'
<1>1. Fades(latest', latest) /\ Fewer(acked', acked) BY HistoryRests
<1>2. StoresAreTrue /\ NewestIsAsked BY DEF AInv
<1>3. /\ Bears(live, latest', req') /\ Bears(disk, latest', req')
      /\ Redeems(live, acked') /\ Redeems(disk, acked')
      /\ Recalls(disk, live, req') /\ Recalls(live, base, req') /\ NamedByNewest(marker', latest', req')
  BY <1>1, <1>2, BearsStay, RedeemsStay, RecallsStay, NewestStays DEF StoresAreTrue
<1>4. StoresAreTrue' BY <1>2, <1>3 DEF StoresAreTrue
<1>5. PublicationIsTrue' BY <1>1, PublicationRests
<1> QED BY <1>4, <1>5

\* The journal of a transaction names nobody who was told the use is allowed.
LEMMA PublishMarkIsTrue ==
  ASSUME IInv, IInv', AInv, Keeps, PublishMark \/ PublishMarkOnly \/ MarkFails
  PROVE  AInv'
<1>1. /\ tx.at \in Marking /\ marker' \in {marker, tx.journal}
      /\ UNCHANGED <<live, base, publication, disk, boot, snap, acked, latest>>
      /\ tx' = Idle \/ (tx.at = "mark" /\ Goto("write"))
  BY Zenon DEF PublishMark, PublishMarkOnly, MarkFails, Marking, Journal, Settles, memory
<1>2. tx.at # "idle" BY <1>1, Zenon DEF Marking
<1>3. /\ NewestIsAsked' /\ HistoryIsTyped' /\ SnapshotIsTrue'
      /\ ChangeIsUnderWay' /\ CandidateIsTrue' /\ MemoryIsAwaited'
  <2>1. CASE tx' = Idle BY <1>1, <1>2, <2>1, PlayIsTrue
  <2>2. CASE tx.at = "mark" /\ Goto("write")
    <3>1. tx.at \in InPlay /\ tx.at \in Building BY <2>2, Zenon DEF InPlay, Building
    <3>2. "write" \in Publishing /\ "write" # "finish" BY DEF Publishing
    <3> QED BY <1>1, <2>2, <3>1, <3>2, PlayGoesTo
  <2> QED BY <1>1, <2>1, <2>2
<1>4. StoresAreTrue /\ ChangeIsUnderWay BY DEF AInv
<1>5. Continues(tx.journal, marker) BY <1>1, Zenon DEF IInv, TransactionIsSound, Marking
<1>6. NamedByNewest(marker', latest, req) BY <1>1, <1>2, <1>4 DEF StoresAreTrue, ChangeIsUnderWay
<1>7. ASSUME NEW u \in Users
      PROVE  /\ acked[u]["choice"] = "on" => ~Marked(marker', u)
             /\ disk.subj[u].pending => marker'.on[u] # NoMark
  <2>1. /\ acked[u]["choice"] = "on" => ~Marked(marker, u) /\ ~Marked(tx.journal, u)
        /\ disk.subj[u].pending => marker.on[u] # NoMark
    BY <1>1, <1>2, <1>4 DEF StoresAreTrue, ChangeIsUnderWay
  <2> QED BY <1>1, <1>5, <2>1 DEF Continues
<1>8. StoresAreTrue' /\ PublicationIsTrue' BY <1>1, <1>6, <1>7, JournalIsTrue
<1> QED BY <1>3, <1>8 DEF AInv

\* The candidate is written, or may have been.
LEMMA WritingIsTrue ==
  ASSUME IInv, AInv, Keeps, tx.at \in {"write", "settle"}, disk' \in {disk, tx.cand},
         UNCHANGED <<live, base, marker, boot, acked, latest>>
  PROVE  StoresAreTrue' /\ (UNCHANGED publication => PublicationIsTrue')
<1>1. Fades(latest', latest) /\ Fewer(acked', acked) BY HistoryRests
<1>2. /\ NewestIsAsked /\ StoresAreTrue /\ CandidateIsTrue /\ MemoryIsAwaited /\ PublicationIsTrue
  BY DEF AInv
<1>3. tx.at \in Building /\ tx.at \in InPlay /\ tx.at # "idle" BY DEF Building, Publishing, InPlay
<1>4. /\ Bears(tx.cand, latest, req) /\ Redeems(tx.cand, acked) /\ Recalls(tx.cand, disk, req)
      /\ \A u \in Users : tx.cand.subj[u].pending => Activates(u)
      /\ \A u \in Users : live.subj[u].pending => ~tx.cand.subj[u].on
  BY <1>2, <1>3 DEF CandidateIsTrue, MemoryIsAwaited
<1>5. /\ Bears(live, latest, req) /\ Redeems(live, acked) /\ Recalls(disk, live, req)
      /\ Bears(disk, latest, req) /\ Redeems(disk, acked) /\ Recalls(live, base, req)
      /\ NamedByNewest(marker, latest, req)
  BY <1>2 DEF StoresAreTrue
<1>6. /\ Bears(disk', latest, req) /\ Redeems(disk', acked) /\ Recalls(disk', disk, req)
  BY <1>4, <1>5, Recalling
<1>7. Recalls(disk', live, req) BY <1>5, <1>6, Recalling
<1>8. /\ Bears(live, latest', req') /\ Bears(disk', latest', req')
      /\ Recalls(disk', live, req') /\ Recalls(live, base, req') /\ NamedByNewest(marker, latest', req')
  BY <1>1, <1>2, <1>5, <1>6, <1>7, BearsStay, RecallsStay, NewestStays
<1>9. ASSUME NEW u \in Users, tx.cand.subj[u].pending PROVE marker.on[u] # NoMark
  <2>1. Activates(u) BY <1>4, <1>9
  <2>0. tx.at \in Publishing BY DEF Publishing
  <2>2. marker = tx.journal BY <2>0, Zenon DEF IInv, TransactionIsSound
  <2>3. marker.on[u].by = tx.by
    BY <2>1, <2>2 DEF IInv, ActivationIsSound, Activates
  <2>4. tx.by \in Requests BY <1>3, TransactionIs
  <2> QED BY <2>3, <2>4, MarkIsNot, FilesAre DEF IInv
<1>10. ASSUME NEW u \in Users
       PROVE  /\ acked[u]["choice"] = "on" => ~Marked(marker, u)
              /\ disk'.subj[u].pending => marker.on[u] # NoMark
              /\ live.subj[u].pending /\ disk'.subj[u].on => disk'.subj[u].pending
              /\ live.subj[u].pending => base.subj[u].pending
  BY <1>2, <1>4, <1>9 DEF StoresAreTrue
<1>11. boot' # "clear" BY <1>3, TransactionIs
<1>12. StoresAreTrue' BY <1>5, <1>6, <1>8, <1>10, <1>11 DEF StoresAreTrue
<1>13. ASSUME UNCHANGED publication PROVE PublicationIsTrue'
  <2>1. Recalls(live, publication.doc, req) /\ Recalls(disk', publication.id, req)
    BY <1>2, <1>6, Recalling DEF PublicationIsTrue
  <2>2. Recalls(live, publication.doc, req') /\ Recalls(disk', publication.id, req') BY <2>1, RecallsStay
  <2>3. MemoryStands(live, publication, latest, req) => MemoryStands(live, publication, latest', req')
    BY <1>1, <1>2, NewestStays
  <2>4. Dated(publication.id) => Dated(publication.id)' BY <1>13, DatedStays
  <2>5. publication.known => publication.id.epoch <= disk'.epoch
    <3>1. publication.id \in Documents /\ disk \in Documents /\ tx.cand \in Documents
      BY <1>3, TransactionIs DEF IInv, Types
    <3>2. publication.id.epoch \in Nat /\ disk.epoch \in Nat /\ tx.cand.epoch \in Nat
      BY <3>1, DocumentIs
    <3>3. tx.cand.epoch >= disk.epoch BY Zenon DEF IInv, TransactionIsSound, Publishing
    <3>4. publication.known => publication.id.epoch <= disk.epoch BY <1>2 DEF PublicationIsTrue
    <3> QED BY <3>2, <3>3, <3>4
  <2> QED BY <1>2, <1>13, <2>2, <2>3, <2>4, <2>5 DEF PublicationIsTrue
<1> QED BY <1>12, <1>13

\* persist_canonical_owned
LEMMA WriteCandidateIsTrue ==
  ASSUME IInv, IInv', AInv, Keeps, WriteCandidate
  PROVE  AInv'
<1>1. PICK at : at = IF tx.at = "write" THEN "project" ELSE IF tx.replay THEN "retire" ELSE "check" OBVIOUS
<1>2. /\ tx.at \in {"write", "settle"} /\ disk' = tx.cand /\ Goto(at)
      /\ publication' = [known |-> TRUE, doc |-> tx.live, base |-> tx.base, id |-> tx.cand]
      /\ UNCHANGED <<live, base, marker, boot, req, snap, acked, latest>>
  BY <1>1 DEF WriteCandidate, history
<1>3. tx.at \in Building /\ tx.at \in InPlay BY <1>2 DEF Building, Publishing, InPlay
<1>4. CandidateIsTrue /\ MemoryIsAwaited BY DEF AInv
<1>5. /\ NewestIsAsked' /\ HistoryIsTyped' /\ SnapshotIsTrue'
      /\ ChangeIsUnderWay' /\ CandidateIsTrue' /\ MemoryIsAwaited'
  <2>1. at \in Publishing \cup {"deny"} /\ at # "finish" BY <1>1 DEF Publishing
  <2>2. \A u \in Users : tx.cand.subj[u].pending => at \in {"write", "project", "deny"}
    BY <1>1, <1>2, <1>3, <1>4 DEF CandidateIsTrue
  <2> QED BY <1>2, <1>3, <2>1, <2>2, PlayGoesTo
<1>6. StoresAreTrue' BY <1>2, WritingIsTrue
<1>7. PublicationIsTrue'
  <2>1. publication'.doc = tx.live /\ publication'.id = tx.cand /\ publication'.known BY <1>2
  <2>2. Recalls(live, tx.live, req) /\ tx.live.facts = live.facts
        /\ \A u \in Users, r \in Requests :
             latest[u]["choice"] = r /\ req[r].kind = "on" => tx.live.subj[u] = live.subj[u]
    BY <1>3, <1>4 DEF MemoryIsAwaited
  <2>3. Recalls(tx.cand, tx.cand, req) BY Recalling
  <2>4. Dated(tx.cand)' /\ boot = "up" /\ tx.cand.epoch \in Nat
    <3>1. tx.at # "idle" BY <1>2
    <3>2. Dated(tx.cand) BY DEF IInv, EverythingIsDated
    <3>3. PICK d : d = tx.cand OBVIOUS
    <3>4. Dated(d) /\ tx'.cand = d BY <1>2, <3>2, <3>3, GoneTo DEF IInv
    <3> QED BY <3>1, <3>4, DatedStays, TransactionIs DEF IInv, EverythingIsDated
  <2>5. MemoryStands(live, publication', latest, req) BY <2>1, <2>2 DEF MemoryStands
  <2>6. Dated(publication.id)'
    <3>1. tx'.cand = tx.cand BY <1>2, GoneTo DEF IInv
    <3>2. (publication.id = tx.cand)' BY <2>1, <3>1
    <3>3. (publication.id = tx.cand /\ Dated(tx.cand) => Dated(publication.id))' OBVIOUS
    <3> QED BY <2>4, <3>2, <3>3
  <2> QED BY <1>2, <2>1, <2>2, <2>3, <2>4, <2>5, <2>6 DEF PublicationIsTrue
<1> QED BY <1>5, <1>6, <1>7 DEF AInv

\* A file operation that fails.
LEMMA StepFailsIsTrue ==
  ASSUME IInv, IInv', AInv, Keeps, WriteFails \/ ProjectFails
  PROVE  AInv'
<1>1. /\ tx.at \in {"write", "project", "settle"} /\ Fails
      /\ UNCHANGED <<live, base, publication, marker, boot, snap, acked, latest>>
      /\ UNCHANGED disk \/ (tx.at \in {"write", "settle"} /\ disk' \in {disk, tx.cand})
  BY DEF WriteFails, ProjectFails, files, history
<1>2. tx.at \in InPlay BY <1>1 DEF InPlay
<1>3. /\ NewestIsAsked' /\ HistoryIsTyped' /\ SnapshotIsTrue'
      /\ ChangeIsUnderWay' /\ CandidateIsTrue' /\ MemoryIsAwaited'
  BY <1>1, <1>2, FailureIsTrue
<1>4. StoresAreTrue' /\ PublicationIsTrue'
  <2>1. CASE UNCHANGED disk
    <3>1. Fades(latest', latest) /\ Fewer(acked', acked) BY <1>1, HistoryRests
    <3> QED BY <1>1, <2>1, <3>1, StoresRest, PublicationRests
  <2>2. CASE tx.at \in {"write", "settle"} /\ disk' \in {disk, tx.cand} BY <1>1, <2>2, WritingIsTrue
  <2> QED BY <1>1, <2>1, <2>2
<1> QED BY <1>3, <1>4 DEF AInv

\* d with an activation of u, before and after it is qualified.
Pending(d, u) == [d EXCEPT !.subj[u].pending = TRUE]
Qualified(d, u) == [d EXCEPT !.subj[u].pending = FALSE]

\* Marking a choice as pending
LEMMA PendingDoes ==
  ASSUME NEW d \in Documents, NEW u \in Users, NEW e, e = Pending(d, u)
  PROVE  /\ e \in Documents /\ e.facts = d.facts /\ e.subj[u].pending
         /\ \A v \in Users : e.subj[v].on = d.subj[v].on /\ e.subj[v].out = d.subj[v].out
         /\ \A v \in Users \ {u} : e.subj[v] = d.subj[v]
<1>1. PICK f, T, n : d = [facts |-> f, subj |-> T, epoch |-> n] BY DocumentIs
<1>2. f \in SUBSET Users /\ T \in [Users -> Subjects] /\ n \in Nat BY <1>1, DocumentIs
<1>3. PICK t \in Subjects : t = T[u] BY <1>2
<1>4. PICK a, o, k, p, z : t = [rev |-> a, on |-> o, pending |-> k, proof |-> p, out |-> z]
  <2>1. t = [rev |-> t.rev, on |-> t.on, pending |-> t.pending, proof |-> t.proof, out |-> t.out]
    BY SubjectIs
  <2> QED BY <2>1
<1>5. PICK s : s = [rev |-> a, on |-> o, pending |-> TRUE, proof |-> p, out |-> z] OBVIOUS
<1>6. s \in Subjects
  <2>1. a \in Nat /\ o \in BOOLEAN /\ p \in BOOLEAN /\ z \in [Requests -> Outcome]
    BY <1>3, <1>4, SubjectIs
  <2> QED BY <1>5, <2>1 DEF Subjects
<1>7. [t EXCEPT !.pending = TRUE] = s
  <2>1. PICK b : b = TRUE OBVIOUS
  <2>2. s = [rev |-> a, on |-> o, pending |-> b, proof |-> p, out |-> z] BY <1>5, <2>1
  <2>3. [t EXCEPT !.pending = b] = s BY <1>4, <2>2
  <2> QED BY <2>1, <2>3
<1>8. PICK S \in [Users -> Subjects] : S = [T EXCEPT ![u] = s] BY <1>2, <1>6
<1>9. e = [facts |-> f, subj |-> S, epoch |-> n]
  <2>1. e = [d EXCEPT !.subj = [d.subj EXCEPT ![u] = [d.subj[u] EXCEPT !.pending = TRUE]]]
    BY <1>1, <1>2 DEF Pending
  <2>2. e = [d EXCEPT !.subj = S] BY <1>1, <1>3, <1>7, <1>8, <2>1
  <2> QED BY <1>1, <2>2
<1>10. e \in Documents /\ e.facts = f /\ e.subj = S BY <1>2, <1>9 DEF Documents
<1>11. s.on = t.on /\ s.out = t.out /\ s.pending BY <1>4, <1>5
<1>12. S[u] = s /\ \A v \in Users \ {u} : S[v] = T[v] BY <1>2, <1>8
<1> QED BY <1>1, <1>3, <1>10, <1>11, <1>12

\* ... and as pending no more
LEMMA QualifiedDoes ==
  ASSUME NEW d \in Documents, NEW u \in Users, NEW e, e = Qualified(d, u)
  PROVE  /\ e \in Documents /\ e.facts = d.facts /\ ~e.subj[u].pending
         /\ \A v \in Users : e.subj[v].on = d.subj[v].on /\ e.subj[v].out = d.subj[v].out
         /\ \A v \in Users \ {u} : e.subj[v] = d.subj[v]
<1>1. PICK f, T, n : d = [facts |-> f, subj |-> T, epoch |-> n] BY DocumentIs
<1>2. f \in SUBSET Users /\ T \in [Users -> Subjects] /\ n \in Nat BY <1>1, DocumentIs
<1>3. PICK t \in Subjects : t = T[u] BY <1>2
<1>4. PICK a, o, k, p, z : t = [rev |-> a, on |-> o, pending |-> k, proof |-> p, out |-> z]
  <2>1. t = [rev |-> t.rev, on |-> t.on, pending |-> t.pending, proof |-> t.proof, out |-> t.out]
    BY SubjectIs
  <2> QED BY <2>1
<1>5. PICK s : s = [rev |-> a, on |-> o, pending |-> FALSE, proof |-> p, out |-> z] OBVIOUS
<1>6. s \in Subjects
  <2>1. a \in Nat /\ o \in BOOLEAN /\ p \in BOOLEAN /\ z \in [Requests -> Outcome]
    BY <1>3, <1>4, SubjectIs
  <2> QED BY <1>5, <2>1 DEF Subjects
<1>7. [t EXCEPT !.pending = FALSE] = s
  <2>1. PICK b : b = FALSE OBVIOUS
  <2>2. s = [rev |-> a, on |-> o, pending |-> b, proof |-> p, out |-> z] BY <1>5, <2>1
  <2>3. [t EXCEPT !.pending = b] = s BY <1>4, <2>2
  <2> QED BY <2>1, <2>3
<1>8. PICK S \in [Users -> Subjects] : S = [T EXCEPT ![u] = s] BY <1>2, <1>6
<1>9. e = [facts |-> f, subj |-> S, epoch |-> n]
  <2>1. e = [d EXCEPT !.subj = [d.subj EXCEPT ![u] = [d.subj[u] EXCEPT !.pending = FALSE]]]
    BY <1>1, <1>2 DEF Qualified
  <2>2. e = [d EXCEPT !.subj = S] BY <1>1, <1>3, <1>7, <1>8, <2>1
  <2> QED BY <1>1, <2>2
<1>10. e \in Documents /\ e.facts = f /\ e.subj = S BY <1>2, <1>9 DEF Documents
<1>11. s.on = t.on /\ s.out = t.out /\ ~s.pending BY <1>4, <1>5
<1>12. S[u] = s /\ \A v \in Users \ {u} : S[v] = T[v] BY <1>2, <1>8
<1> QED BY <1>1, <1>3, <1>10, <1>11, <1>12

\* qualify_personal_projection completes the outcomes, and a choice is not pending any more.
LEMMA ProjectIsTrue ==
  ASSUME IInv, IInv', AInv, Keeps, Project
  PROVE  AInv'
<1>1. PICK u : u = Member(tx.by) OBVIOUS
<1>2. PICK c : c = IF tx.replay THEN tx.cand ELSE [tx.cand EXCEPT !.subj[u].pending = FALSE] OBVIOUS
<1>3. PICK e : e = CompleteOutcomes(c) OBVIOUS
<1>4. /\ tx.at = "project" /\ tx' = [tx EXCEPT !.at = "settle", !.cand = e]
      /\ UNCHANGED <<live, base, publication, disk, marker, boot, req, snap, acked, latest>>
  BY <1>1, <1>2, <1>3 DEF Project, memory, files, history
<1>5. tx.at \in Building /\ tx.at \in InPlay /\ tx.at # "idle" BY <1>4 DEF Building, Publishing, InPlay
<1>6. /\ tx.cand \in Documents /\ u \in Users /\ tx.replay \in BOOLEAN /\ tx.by \in Requests
  BY <1>1, <1>5, TransactionIs
<1>7. /\ tx'.at = "settle" /\ tx'.by = tx.by /\ tx'.replay = tx.replay /\ tx'.aborted = tx.aborted
      /\ tx'.live = tx.live /\ tx'.cand = e /\ tx'.journal = tx.journal
  <2>1. PICK steps : tx \in [at : steps, by : Requests \cup {Nobody}, cand : Documents, live : Documents,
                             base : Documents, journal : Journals, mark : Marks,
                             replay : BOOLEAN, aborted : BOOLEAN]
    BY Zenon DEF IInv, Types, Transaction
  <2> QED BY <1>4, <2>1
<1>8. CandidateIsTrue /\ NamedByNewest(tx.journal, latest, req) BY <1>5 DEF AInv, ChangeIsUnderWay
<1>9. /\ Bears(tx.cand, latest, req) /\ Redeems(tx.cand, acked) /\ Recalls(tx.cand, disk, req)
      /\ ~tx.aborted => tx.cand.subj[u].out[tx.by] # "none"
      /\ \A v \in Users : tx.cand.subj[v].pending => Activates(v)
  BY <1>1, <1>5, <1>8 DEF CandidateIsTrue
<1>10. /\ c \in Documents /\ c.facts = tx.cand.facts
       /\ \A v \in Users : /\ c.subj[v].on = tx.cand.subj[v].on /\ c.subj[v].out = tx.cand.subj[v].out
                           /\ ~c.subj[v].pending
  <2>1. CASE tx.replay
    <3>1. c = tx.cand BY <1>2, <2>1
    <3>2. \A v \in Users : ~tx.cand.subj[v].pending BY <1>9, <2>1 DEF Activates, Activation
    <3> QED BY <1>6, <3>1, <3>2
  <2>2. CASE ~tx.replay
    <3>1. c = [tx.cand EXCEPT !.subj[u].pending = FALSE] BY <1>2, <2>2
    <3>2. PICK d \in Documents : d = tx.cand BY <1>6
    <3>3. /\ c \in Documents /\ c.facts = d.facts /\ ~c.subj[u].pending
          /\ \A v \in Users : c.subj[v].on = d.subj[v].on /\ c.subj[v].out = d.subj[v].out
          /\ \A v \in Users \ {u} : c.subj[v] = d.subj[v]
      <4>1. c = [d EXCEPT !.subj[u].pending = FALSE] BY <3>1, <3>2
      <4>2. c = Qualified(d, u) BY <4>1 DEF Qualified
      <4> QED BY <1>6, <4>2, QualifiedDoes
    <3>4. \A v \in Users : tx.cand.subj[v].pending => v = u BY <1>1, <1>9 DEF Activates
    <3> QED BY <3>2, <3>3, <3>4
  <2> QED BY <1>6, <2>1, <2>2
<1>11. /\ e.facts = tx.cand.facts
       /\ \A v \in Users : /\ e.subj[v].on = tx.cand.subj[v].on /\ ~e.subj[v].pending
                           /\ \A r \in Requests : e.subj[v].out[r] = "none" <=> tx.cand.subj[v].out[r] = "none"
  BY <1>3, <1>10, CompleteDoes
<1>12. Bears(e, latest, req) BY <1>9, <1>11 DEF Bears
<1>13. Redeems(e, acked) BY <1>9, <1>11 DEF Redeems
<1>14. Recalls(e, disk, req) BY <1>9, <1>11 DEF Recalls
<1>15. "settle" \notin Marking /\ "settle" # "finish" BY Zenon DEF Marking
<1>16. /\ NewestIsAsked' /\ HistoryIsTyped' /\ SnapshotIsTrue'
       /\ ChangeIsUnderWay' /\ CandidateIsTrue' /\ MemoryIsAwaited'
  <2>1. tx'.at \in Building =>
          /\ Bears(tx'.cand, latest, req) /\ Redeems(tx'.cand, acked) /\ Recalls(tx'.cand, disk', req)
          /\ ~tx.aborted => tx'.cand.subj[Member(tx.by)].out[tx.by] # "none"
          /\ \A v \in Users :
               tx'.cand.subj[v].pending => Activates(v) /\ tx'.at \in {"mark", "write", "project"}
    BY <1>1, <1>4, <1>6, <1>7, <1>9, <1>11, <1>12, <1>13, <1>14
  <2>2. \A v \in Users : tx'.cand.subj[v].on => tx.cand.subj[v].on BY <1>7, <1>11
  <2>3. NamedByNewest(tx'.journal, latest, req) BY <1>7, <1>8
  <2>4. tx'.at \notin Marking /\ tx'.at # "finish" BY <1>7, <1>15
  <2>5. /\ tx'.by = tx.by /\ tx'.replay = tx.replay /\ tx'.aborted = tx.aborted
        /\ tx'.live = tx.live /\ UNCHANGED <<live, snap, acked, latest>>
    BY <1>4, <1>7
  <2> HIDE DEF AInv
  <2> QED BY <1>5, <2>1, <2>2, <2>3, <2>4, <2>5, PlayIsTrue
<1>17. StoresAreTrue' /\ PublicationIsTrue'
  <2>1. Fades(latest', latest) /\ Fewer(acked', acked) BY <1>4, HistoryRests
  <2> QED BY <1>4, <2>1, StoresRest, PublicationRests
<1> QED BY <1>16, <1>17 DEF AInv

\* Was the member's choice changed meanwhile?
LEMMA CheckIsTrue ==
  ASSUME IInv, IInv', AInv, Keeps, Check
  PROVE  AInv'
<1>1. /\ tx.at = "check"
      /\ Fails \/ Goto("retire") \/ Goto("install")
      /\ UNCHANGED <<live, base, publication, disk, marker, boot, snap, acked, latest>>
  BY DEF Check, files, history
<1>2. tx.at \in InPlay /\ tx.at \in Building BY <1>1 DEF InPlay, Building, Publishing
<1>3. \A u \in Users : ~tx.cand.subj[u].pending BY <1>1, <1>2 DEF AInv, CandidateIsTrue
<1>4. /\ NewestIsAsked' /\ HistoryIsTyped' /\ SnapshotIsTrue'
      /\ ChangeIsUnderWay' /\ CandidateIsTrue' /\ MemoryIsAwaited'
  <2>1. CASE Fails BY <1>1, <1>2, <2>1, FailureIsTrue
  <2>2. ASSUME NEW at \in {"retire", "install"}, Goto(at)
        PROVE  /\ NewestIsAsked' /\ HistoryIsTyped' /\ SnapshotIsTrue'
               /\ ChangeIsUnderWay' /\ CandidateIsTrue' /\ MemoryIsAwaited'
    <3>1. at \in Publishing \cup {"deny"} /\ at # "finish" BY DEF Publishing
    <3> QED BY <1>1, <1>2, <1>3, <2>2, <3>1, PlayGoesTo
  <2> QED BY <1>1, <2>1, <2>2
<1>5. StoresAreTrue' /\ PublicationIsTrue'
  <2>1. Fades(latest', latest) /\ Fewer(acked', acked) BY <1>1, HistoryRests
  <2> QED BY <1>1, <2>1, StoresRest, PublicationRests
<1> QED BY <1>4, <1>5 DEF AInv

\* What is left of the journal names nobody else, and nothing that it names is pending.
LEMMA RetirementIs ==
  ASSUME IInv, AInv, tx.at = "retire", NEW m, m = marker \/ m = Retired
  PROVE  /\ NamedByNewest(m, latest, req)
         /\ \A u \in Users : /\ acked[u]["choice"] = "on" => ~Marked(m, u)
                             /\ ~disk.subj[u].pending
<1>1. tx.at \in Publishing /\ tx.at \in Written /\ tx.at \in Building /\ tx.at # "idle"
  BY DEF Publishing, Written, Building
<1>2. marker = tx.journal /\ disk = tx.cand BY <1>1, Zenon DEF IInv, TransactionIsSound
<1>3. \A u \in Users : /\ m.off[u] = marker.off[u] \/ m.off[u] = NoMark
                       /\ m.on[u] = marker.on[u] \/ m.on[u] = NoMark
  BY <1>2, RetiredIs
<1>4. /\ NamedByNewest(marker, latest, req)
      /\ \A u \in Users : acked[u]["choice"] = "on" => ~Marked(marker, u)
  BY DEF AInv, StoresAreTrue
<1>5. NamedByNewest(m, latest, req) BY <1>3, <1>4 DEF NamedByNewest, Names, By
<1>6. \A u \in Users : acked[u]["choice"] = "on" => ~Marked(m, u) BY <1>3, <1>4 DEF Marked
<1>7. \A u \in Users : ~tx.cand.subj[u].pending BY <1>1 DEF AInv, CandidateIsTrue
<1> QED BY <1>2, <1>5, <1>6, <1>7

\* The journal is emptied of what the document shows.
LEMMA RetireIsTrue ==
  ASSUME IInv, IInv', AInv, Keeps, Retire
  PROVE  AInv'
<1>1. /\ tx.at = "retire" /\ marker' = Retired
      /\ UNCHANGED <<live, base, publication, disk, boot, snap, acked, latest>>
      /\ tx' = [tx EXCEPT !.at = "install", !.journal = Retired]
  BY DEF Retire, Retires, memory
<1>2. /\ NamedByNewest(Retired, latest, req)
      /\ \A u \in Users : acked[u]["choice"] = "on" => ~Marked(Retired, u)
      /\ \A u \in Users : ~disk.subj[u].pending
  BY <1>1, RetirementIs
<1>3. StoresAreTrue' /\ PublicationIsTrue' BY <1>1, <1>2, JournalIsTrue
<1>4. /\ tx'.at = "install" /\ tx'.by = tx.by /\ tx'.replay = tx.replay /\ tx'.aborted = tx.aborted
      /\ tx'.live = tx.live /\ tx'.cand = tx.cand /\ tx'.journal = Retired
  <2>1. PICK steps : tx \in [at : steps, by : Requests \cup {Nobody}, cand : Documents, live : Documents,
                             base : Documents, journal : Journals, mark : Marks,
                             replay : BOOLEAN, aborted : BOOLEAN]
    BY Zenon DEF IInv, Types, Transaction
  <2> QED BY <1>1, <2>1
<1>5. tx.at \in Building /\ tx.at \in InPlay /\ tx.at # "idle" BY <1>1 DEF Building, Publishing, InPlay
<1>6. /\ Bears(tx.cand, latest, req) /\ Redeems(tx.cand, acked) /\ Recalls(tx.cand, disk, req)
      /\ ~tx.aborted => tx.cand.subj[Member(tx.by)].out[tx.by] # "none"
      /\ \A u \in Users : ~tx.cand.subj[u].pending
  BY <1>1, <1>5 DEF AInv, CandidateIsTrue
<1>7. "install" \notin Marking /\ "install" # "finish" BY Zenon DEF Marking
<1>8. /\ NewestIsAsked' /\ HistoryIsTyped' /\ SnapshotIsTrue'
      /\ ChangeIsUnderWay' /\ CandidateIsTrue' /\ MemoryIsAwaited'
  <2>1. tx'.at \in Building =>
          /\ Bears(tx'.cand, latest, req) /\ Redeems(tx'.cand, acked) /\ Recalls(tx'.cand, disk', req)
          /\ ~tx.aborted => tx'.cand.subj[Member(tx.by)].out[tx.by] # "none"
          /\ \A u \in Users :
               tx'.cand.subj[u].pending => Activates(u) /\ tx'.at \in {"mark", "write", "project"}
    BY <1>1, <1>4, <1>6
  <2>2. \A u \in Users : tx'.cand.subj[u].on => tx.cand.subj[u].on BY <1>4
  <2>3. NamedByNewest(tx'.journal, latest, req) BY <1>2, <1>4
  <2>4. tx'.at \notin Marking /\ tx'.at # "finish" BY <1>4, <1>7
  <2>5. /\ tx'.by = tx.by /\ tx'.replay = tx.replay /\ tx'.aborted = tx.aborted
        /\ tx'.live = tx.live /\ UNCHANGED <<live, snap, acked, latest>>
    BY <1>1, <1>4
  <2> HIDE DEF AInv
  <2> QED BY <1>5, <2>1, <2>2, <2>3, <2>4, <2>5, PlayIsTrue
<1> QED BY <1>3, <1>8 DEF AInv

\* ... or the file operation fails, before or after.
LEMMA RetireFailsIsTrue ==
  ASSUME IInv, IInv', AInv, Keeps, RetireFails
  PROVE  AInv'
<1>1. /\ tx.at = "retire" /\ Fails /\ (marker' = marker \/ marker' = Retired)
      /\ UNCHANGED <<live, base, publication, disk, boot, snap, acked, latest>>
  BY DEF RetireFails, Retires
<1>2. PICK m : m = marker' OBVIOUS
<1>3. /\ NamedByNewest(m, latest, req)
      /\ \A u \in Users : acked[u]["choice"] = "on" => ~Marked(m, u)
      /\ \A u \in Users : ~disk.subj[u].pending
  BY <1>1, <1>2, RetirementIs
<1>4. StoresAreTrue' /\ PublicationIsTrue' BY <1>1, <1>2, <1>3, JournalIsTrue
<1>5. tx.at \in InPlay BY <1>1 DEF InPlay
<1>6. /\ NewestIsAsked' /\ HistoryIsTyped' /\ SnapshotIsTrue'
      /\ ChangeIsUnderWay' /\ CandidateIsTrue' /\ MemoryIsAwaited'
  BY <1>1, <1>5, FailureIsTrue
<1> QED BY <1>4, <1>6 DEF AInv

\* A change of choice that failed leaves a withdrawal in the journal.
LEMMA DenyIsTrue ==
  ASSUME IInv, IInv', AInv, Keeps, Deny \/ DenyFails
  PROVE  AInv'
<1>1. /\ tx.at = "deny" /\ tx' = Idle /\ (marker' = marker \/ marker' = Denied)
      /\ UNCHANGED <<live, base, publication, disk, boot, snap, acked, latest>>
  BY DEF Deny, DenyFails, Settles, Journal, memory
<1>2. tx.at # "idle" BY <1>1
<1>3. /\ NewestIsAsked' /\ HistoryIsTyped' /\ SnapshotIsTrue'
      /\ ChangeIsUnderWay' /\ CandidateIsTrue' /\ MemoryIsAwaited'
  BY <1>1, <1>2, PlayIsTrue
<1>4. PICK r, u : r = tx.by /\ u = Member(tx.by) OBVIOUS
<1>5. /\ r \in Requests /\ u \in Users /\ tx.mark \in Marks /\ marker \in Journals
  BY <1>2, <1>4, TransactionIs DEF IInv, Types
<1>6. Kind(r) \in {"on", "off"} /\ ~tx.replay /\ tx.mark.by = r
  <2>1. tx.at \notin Publishing BY <1>1 DEF Publishing
  <2>2. Kind(r) \in {"on", "off"} BY <1>1, <1>4, Zenon DEF IInv, TransactionIsSound
  <2>3. ~tx.replay BY <2>1, Zenon DEF IInv, TransactionIsSound
  <2>4. tx.at \in {"mark", "deny"} \cup Publishing BY <1>1
  <2> QED BY <1>4, <2>2, <2>3, <2>4, Zenon DEF IInv, TransactionIsSound
<1>7. /\ Denied.on = marker.on /\ Denied.off[u].by = r
      /\ \A v \in Users \ {u} : Denied.off[v] = marker.off[v]
  <2>1. Denied = AddWithdrawal(marker, u, tx.mark) BY <1>4 DEF Denied
  <2> QED BY <1>5, <1>6, <2>1, AddIs
<1>8. acked[u]["choice"] = "none" /\ latest[u]["choice"] \in {Nobody, r}
  <2>1. ChoiceField(tx.by) = "choice" BY <1>4, <1>6 DEF ChoiceField
  <2> QED BY <1>2, <1>4, <1>6, <2>1 DEF AInv, ChangeIsUnderWay
<1>9. /\ NamedByNewest(marker, latest, req)
      /\ \A v \in Users : /\ acked[v]["choice"] = "on" => ~Marked(marker, v)
                          /\ disk.subj[v].pending => marker.on[v] # NoMark
  BY DEF AInv, StoresAreTrue
<1>10. NamedByNewest(Denied, latest, req)
  <2> SUFFICES ASSUME NEW v \in Users, NEW q \in Requests, latest[v]["choice"] = q, req[q].kind = "on"
               PROVE  Names(Denied, v, q)
    BY DEF NamedByNewest
  <2>1. Names(marker, v, q) BY <1>9 DEF NamedByNewest
  <2>2. CASE v = u
    <3>1. q = r BY <1>8, <2>2, PersonalMemoryAssumption
    <3> QED BY <1>7, <2>1, <2>2, <3>1 DEF Names, By
  <2>3. CASE v # u BY <1>7, <2>1, <2>3 DEF Names
  <2> QED BY <2>2, <2>3
<1>11. \A v \in Users : /\ acked[v]["choice"] = "on" => ~Marked(Denied, v)
                        /\ disk.subj[v].pending => Denied.on[v] # NoMark
  BY <1>7, <1>8, <1>9 DEF Marked
<1>12. PICK m : m = marker' OBVIOUS
<1>13. /\ NamedByNewest(m, latest, req)
       /\ \A v \in Users : /\ acked[v]["choice"] = "on" => ~Marked(m, v)
                           /\ disk.subj[v].pending => m.on[v] # NoMark
  BY <1>1, <1>9, <1>10, <1>11, <1>12
<1>14. StoresAreTrue' /\ PublicationIsTrue' BY <1>1, <1>12, <1>13, JournalIsTrue
<1> QED BY <1>3, <1>14 DEF AInv

-----------------------------------------------------------------------------
(* The steps: the change is confirmed                                      *)

\* Promise moves one entry, to what the request asks.
LEMMA PromiseIs ==
  ASSUME HistoryIsTyped, NewestIsAsked, NEW r \in Requests, NEW u \in Users, u = Member(r),
         NEW field \in Fields, field = ChoiceField(r), Promise(r)
  PROVE  /\ acked' \in [Users -> [Fields -> {"none", "on", "off", "remember", "forget"}]]
         /\ \A v \in Users, f \in Fields : v # u \/ f # field => acked'[v][f] = acked[v][f]
         /\ latest[u][field] # r => acked' = acked
         /\ latest[u][field] = r => acked'[u][field] = Kind(r)
<1>1. CASE latest[u][field] # r BY <1>1 DEF Promise, HistoryIsTyped
<1>2. CASE latest[u][field] = r
  <2>1. Kind(r) \in {"on", "off", "remember", "forget"}
    BY <1>2 DEF NewestIsAsked, Kind, ChoiceField, Fields
  <2>2. PICK g : g = [acked[u] EXCEPT ![field] = Kind(r)] OBVIOUS
  <2>3. acked[u] \in [Fields -> {"none", "on", "off", "remember", "forget"}] BY DEF HistoryIsTyped
  <2>4. /\ g \in [Fields -> {"none", "on", "off", "remember", "forget"}] /\ g[field] = Kind(r)
        /\ \A f \in Fields : f # field => g[f] = acked[u][f]
    BY <2>1, <2>2, <2>3
  <2>5. acked' = [acked EXCEPT ![u] = g] BY <1>2, <2>2 DEF Promise
  <2>6. /\ acked' \in [Users -> [Fields -> {"none", "on", "off", "remember", "forget"}]]
        /\ acked'[u] = g /\ \A v \in Users \ {u} : acked'[v] = acked[v]
    BY <2>4, <2>5 DEF HistoryIsTyped
  <2> QED BY <1>2, <2>4, <2>6
<1> QED BY <1>1, <1>2

\* A document that knows the change keeps the promise.
LEMMA PromiseHolds ==
  ASSUME HistoryIsTyped, NewestIsAsked, NEW r \in Requests, NEW u \in Users, u = Member(r), Promise(r),
         NEW d, Bears(d, latest, req), Redeems(d, acked),
         d.subj[u].out[r] # "none", ~d.subj[u].pending
  PROVE  Redeems(d, acked')
<1>1. PICK field \in Fields : field = ChoiceField(r) BY DEF ChoiceField, Fields
<1>2. /\ \A v \in Users, f \in Fields : v # u \/ f # field => acked'[v][f] = acked[v][f]
      /\ latest[u][field] # r => acked' = acked
      /\ latest[u][field] = r => acked'[u][field] = Kind(r)
  BY <1>1, PromiseIs
<1>3. CASE latest[u][field] # r BY <1>2, <1>3
<1>4. CASE latest[u][field] = r
  <2>1. /\ field = "choice" => Kind(r) \in {"on", "off"} /\ d.subj[u].on = (Kind(r) = "on")
        /\ field = "fact" => Kind(r) \in {"remember", "forget"} /\ (u \in d.facts) = (Kind(r) = "remember")
    BY <1>4 DEF NewestIsAsked, Bears, Kind
  <2>2. "choice" \in Fields /\ "fact" \in Fields /\ field \in {"choice", "fact"} BY DEF Fields
  <2>3. ASSUME NEW v \in Users
        PROVE  /\ acked'[v]["choice"] = "on" => d.subj[v].on /\ ~d.subj[v].pending
               /\ acked'[v]["choice"] = "off" => ~d.subj[v].on
    <3>1. CASE v = u /\ field = "choice"
      <4>1. acked'[v]["choice"] = Kind(r) BY <1>2, <1>4, <3>1
      <4>2. Kind(r) = "on" => d.subj[u].on BY <2>1, <3>1
      <4>3. Kind(r) = "off" => ~d.subj[u].on BY <2>1, <3>1
      <4> QED BY <3>1, <4>1, <4>2, <4>3
    <3>2. CASE ~(v = u /\ field = "choice")
      <4>1. acked'[v]["choice"] = acked[v]["choice"] BY <1>2, <2>2, <3>2
      <4> QED BY <4>1 DEF Redeems
    <3> QED BY <3>1, <3>2
  <2>4. ASSUME NEW v \in Users
        PROVE  /\ acked'[v]["fact"] = "remember" => v \in d.facts
               /\ acked'[v]["fact"] = "forget" => v \notin d.facts
    <3>1. CASE v = u /\ field = "fact"
      <4>1. acked'[v]["fact"] = Kind(r) BY <1>2, <1>4, <3>1
      <4>2. Kind(r) = "remember" => u \in d.facts BY <2>1, <3>1
      <4>3. Kind(r) = "forget" => u \notin d.facts BY <2>1, <3>1
      <4> QED BY <3>1, <4>1, <4>2, <4>3
    <3>2. CASE ~(v = u /\ field = "fact")
      <4>1. acked'[v]["fact"] = acked[v]["fact"] BY <1>2, <2>2, <3>2
      <4> QED BY <4>1 DEF Redeems
    <3> QED BY <3>1, <3>2
  <2> QED BY <2>3, <2>4 DEF Redeems
<1> QED BY <1>3, <1>4

\* The candidate, when it has been written for good.
LEMMA WrittenIs ==
  ASSUME IInv, AInv, tx.at \in {"install", "finish"}
  PROVE  /\ disk = tx.cand /\ marker = tx.journal /\ tx.by \in Requests /\ Member(tx.by) \in Users
         /\ tx.at = "finish" => base = tx.cand
         /\ Bears(tx.cand, latest, req) /\ Redeems(tx.cand, acked) /\ NamedByNewest(marker, latest, req)
         /\ ~tx.aborted => tx.cand.subj[Member(tx.by)].out[tx.by] # "none"
         /\ tx.aborted => tx.replay
         /\ \A u \in Users : ~tx.cand.subj[u].pending /\ (Marked(marker, u) => ~tx.cand.subj[u].on)
<1>1. /\ tx.at \in Publishing /\ tx.at \in Written /\ tx.at \in Building /\ tx.at # "idle"
      /\ tx.at \in {"mark"} \cup Publishing
  BY DEF Publishing, Written, Building
<1>2. /\ marker = tx.journal /\ disk = tx.cand /\ (tx.at = "finish" => base = tx.cand)
  BY <1>1, Zenon DEF IInv, TransactionIsSound
<1>3. \A u \in Users : Marked(tx.journal, u) => ~tx.cand.subj[u].on
  <2>1. \A u \in Users : Marked(tx.journal, u) =>
            ~tx.cand.subj[u].on \/ (Activates(u) /\ tx.at \notin {"install", "finish"})
    BY <1>1, Zenon DEF IInv, TransactionIsSound
  <2> QED BY <2>1
<1>4. CandidateIsTrue /\ ChangeIsUnderWay /\ StoresAreTrue BY DEF AInv
<1>5. \A u \in Users : ~tx.cand.subj[u].pending BY <1>1, <1>4 DEF CandidateIsTrue
<1> QED BY <1>1, <1>2, <1>3, <1>4, <1>5, TransactionIs DEF CandidateIsTrue, ChangeIsUnderWay, StoresAreTrue

\* install_personal_candidate
LEMMA InstallIsTrue ==
  ASSUME IInv, IInv', AInv, Keeps, Install
  PROVE  AInv'
<1>1. tx.at = "install" /\ UNCHANGED <<disk, marker, boot, snap, latest>> BY DEF Install, files
<1>2. tx.at \in InPlay /\ tx.at \in Building /\ tx.at # "idle" BY <1>1 DEF InPlay, Building, Publishing
<1>3. HistoryIsTyped /\ NewestIsAsked BY DEF AInv
<1>4. CASE ~Unmoved
  <2>1. Fails /\ UNCHANGED <<live, base, publication, acked>> BY <1>4 DEF Install
  <2>2. /\ NewestIsAsked' /\ HistoryIsTyped' /\ SnapshotIsTrue'
        /\ ChangeIsUnderWay' /\ CandidateIsTrue' /\ MemoryIsAwaited'
    BY <1>1, <1>2, <2>1, FailureIsTrue
  <2>3. Fades(latest', latest) /\ Fewer(acked', acked) BY <1>1, <2>1, HistoryRests
  <2>4. StoresAreTrue' /\ PublicationIsTrue' BY <1>1, <2>1, <2>3, StoresRest, PublicationRests
  <2> QED BY <2>2, <2>4 DEF AInv
<1>5. CASE Unmoved
  <2>1. /\ live' = tx.cand /\ base' = tx.cand /\ publication' = NoPublication
        /\ IF tx.replay THEN /\ tx' = Idle
                             /\ IF tx.aborted THEN UNCHANGED acked ELSE Promise(tx.by)
           ELSE Goto("finish") /\ UNCHANGED acked
    BY <1>5 DEF Install, Settles
  <2>2. PICK d, r, u : d = tx.cand /\ r = tx.by /\ u = Member(tx.by) OBVIOUS
  <2>3. /\ disk = d /\ marker = tx.journal /\ r \in Requests /\ u \in Users /\ u = Member(r)
        /\ Bears(d, latest, req) /\ Redeems(d, acked) /\ NamedByNewest(marker, latest, req)
        /\ ~tx.aborted => d.subj[u].out[r] # "none"
        /\ tx.aborted => tx.replay
        /\ \A v \in Users : ~d.subj[v].pending /\ (Marked(marker, v) => ~d.subj[v].on)
    BY <1>1, <2>2, WrittenIs
  <2>4. Redeems(d, acked') /\ HistoryIsTyped'
    <3>1. CASE Promise(r) /\ ~tx.aborted
      <4>1. PICK field \in Fields : field = ChoiceField(r) BY DEF ChoiceField, Fields
      <4>2. acked' \in [Users -> [Fields -> {"none", "on", "off", "remember", "forget"}]]
        BY <1>3, <2>3, <3>1, <4>1, PromiseIs
      <4>3. Redeems(d, acked') BY <1>3, <2>3, <3>1, PromiseHolds
      <4> QED BY <1>1, <1>3, <4>2, <4>3 DEF HistoryIsTyped
    <3>2. CASE UNCHANGED acked BY <1>1, <1>3, <2>3, <3>2 DEF HistoryIsTyped
    <3> QED BY <2>1, <2>2, <3>1, <3>2
  <2>5. Fades(latest', latest) BY <1>1 DEF Fades
  <2>6. NewestIsAsked' BY <1>3, <2>5, NewestStays
  <2>7. Bears(d, latest', req') /\ NamedByNewest(marker, latest', req')
    BY <1>3, <2>3, <2>5, BearsStay, NewestStays
  <2>8. StoresAreTrue'
    <3>1. \A v \in Users : acked'[v]["choice"] = "on" => ~Marked(marker, v)
      BY <2>3, <2>4 DEF Redeems
    <3>2. Recalls(d, d, req') BY Recalling
    <3>3. live' = d /\ base' = d /\ disk' = d /\ marker' = marker BY <1>1, <2>1, <2>2, <2>3
    <3> QED BY <2>3, <2>4, <2>7, <3>1, <3>2, <3>3 DEF StoresAreTrue
  <2>9. PublicationIsTrue'
    <3>1. publication'.known = FALSE /\ publication'.doc = Document({}) /\ publication'.id = Document({})
      BY <2>1 DEF NoPublication
    <3>2. Recalls(live', Document({}), req') /\ Recalls(disk', Document({}), req') BY FirstIsTrue
    <3> QED BY <3>1, <3>2 DEF PublicationIsTrue
  <2>10. SnapshotIsTrue' BY <1>1, <1>2, TransactionIs DEF SnapshotIsTrue
  <2>11. CASE tx.replay
    <3>1. (tx.at = "idle")' BY <2>1, <2>11 DEF Idle
    <3>2. ChangeIsUnderWay' /\ CandidateIsTrue' /\ MemoryIsAwaited' BY <3>1, IdleIsTrue, PTL
    <3> QED BY <2>4, <2>6, <2>8, <2>9, <2>10, <3>2 DEF AInv
  <2>12. CASE ~tx.replay
    <3>1. /\ tx'.at = "finish" /\ tx'.by = r /\ tx'.replay = tx.replay /\ tx'.aborted = tx.aborted
          /\ tx'.cand = d /\ tx'.journal = tx.journal /\ UNCHANGED acked
      BY <2>1, <2>2, <2>12, GoneTo DEF IInv
    <3>2. /\ Member(tx.by)' = u /\ Kind(tx.by)' = Kind(r) /\ ChoiceField(tx.by)' = ChoiceField(r)
      BY <1>2, <2>2, <3>1, ChangeIs
    <3>3. "finish" \notin Marking BY Zenon DEF Marking
    <3>4. ChangeIsUnderWay'
      <4>1. acked[u][ChoiceField(r)] = "none" BY <1>2, <2>2 DEF AInv, ChangeIsUnderWay
      <4>2. Kind(r) \in {"on", "off"} => latest[u]["choice"] \in {Nobody, r}
        BY <1>2, <2>2, <2>12 DEF AInv, ChangeIsUnderWay
      <4>3. d.subj[u].out[r] # "none" BY <2>3, <2>12
      <4>4. live' = d /\ NamedByNewest(tx.journal, latest', req') BY <2>1, <2>2, <2>3, <2>7
      <4> QED BY <1>1, <2>3, <2>12, <3>1, <3>2, <3>3, <4>1, <4>2, <4>3, <4>4 DEF ChangeIsUnderWay
    <3>5. CandidateIsTrue'
      <4>1. Recalls(d, disk, req') BY <2>3, Recalling
      <4>2. (tx.cand.subj[Member(tx.by)].out[tx.by] # "none")' BY <2>3, <2>12, <3>1, <3>2
      <4> QED BY <1>1, <2>3, <2>4, <2>7, <3>1, <4>1, <4>2 DEF CandidateIsTrue
    <3>6. MemoryIsAwaited' BY <3>1 DEF MemoryIsAwaited, InPlay
    <3> QED BY <2>4, <2>6, <2>8, <2>9, <2>10, <3>4, <3>5, <3>6 DEF AInv
  <2> QED BY <2>11, <2>12
<1> QED BY <1>4, <1>5

\* The member is told.
LEMMA FinishIsTrue ==
  ASSUME IInv, IInv', AInv, Keeps, Finish
  PROVE  AInv'
<1>1. /\ tx.at = "finish" /\ tx' = Idle /\ Promise(tx.by)
      /\ UNCHANGED <<live, base, publication, disk, marker, boot, snap, latest>>
  BY DEF Finish, Settles, files
<1>2. PICK r, u : r = tx.by /\ u = Member(tx.by) OBVIOUS
<1>3. /\ disk = tx.cand /\ base = tx.cand /\ r \in Requests /\ u \in Users /\ u = Member(r)
      /\ ~tx.aborted => disk.subj[u].out[r] # "none"
      /\ tx.aborted => tx.replay
      /\ \A v \in Users : ~disk.subj[v].pending /\ ~base.subj[v].pending
                          /\ (Marked(marker, v) => ~disk.subj[v].on)
  BY <1>1, <1>2, WrittenIs
<1>4. tx.at # "idle" /\ HistoryIsTyped /\ NewestIsAsked /\ StoresAreTrue BY <1>1 DEF AInv
<1>5. ~tx.replay /\ live.subj[u].out[r] # "none" BY <1>1, <1>2 DEF AInv, ChangeIsUnderWay
<1>6. ~live.subj[u].pending /\ ~disk.subj[u].pending /\ disk.subj[u].out[r] # "none"
  BY <1>3, <1>4, <1>5 DEF StoresAreTrue
<1>7. Redeems(live, acked') /\ Redeems(disk, acked')
  BY <1>1, <1>2, <1>3, <1>4, <1>5, <1>6, PromiseHolds DEF StoresAreTrue
<1>8. HistoryIsTyped'
  <2>1. PICK field \in Fields : field = ChoiceField(r) BY DEF ChoiceField, Fields
  <2>2. acked' \in [Users -> [Fields -> {"none", "on", "off", "remember", "forget"}]]
    BY <1>1, <1>2, <1>3, <1>4, <2>1, PromiseIs
  <2> QED BY <1>1, <1>4, <2>2 DEF HistoryIsTyped
<1>9. Fades(latest', latest) BY <1>1 DEF Fades
<1>10. NewestIsAsked' BY <1>4, <1>9, NewestStays
<1>11. StoresAreTrue'
  <2>1. /\ Bears(live, latest', req') /\ Bears(disk, latest', req')
        /\ Recalls(disk, live, req') /\ Recalls(live, base, req') /\ NamedByNewest(marker, latest', req')
    BY <1>4, <1>9, BearsStay, RecallsStay, NewestStays DEF StoresAreTrue
  <2>2. \A v \in Users : acked'[v]["choice"] = "on" => ~Marked(marker, v) BY <1>3, <1>7 DEF Redeems
  <2> QED BY <1>1, <1>4, <1>7, <2>1, <2>2 DEF StoresAreTrue
<1>12. PublicationIsTrue' BY <1>1, <1>9, PublicationRests
<1>13. ChangeIsUnderWay' /\ CandidateIsTrue' /\ MemoryIsAwaited'
  <2>1. (tx.at = "idle")' BY <1>1 DEF Idle
  <2> QED BY <2>1, IdleIsTrue, PTL
<1>14. SnapshotIsTrue' BY <1>1, <1>4, TransactionIs DEF SnapshotIsTrue
<1> QED BY <1>8, <1>10, <1>11, <1>12, <1>13, <1>14 DEF AInv

-----------------------------------------------------------------------------
(* The steps: a change begins                                              *)

\* The change that begins becomes the newest, and nothing else does.
LEMMA NewChangeIs ==
  ASSUME HistoryIsTyped, NewestIsAsked, Keeps, NEW r \in Requests, req[r].at # "new",
         NEW u \in Users, u = Member(r), NEW field \in Fields, field = ChoiceField(r), NewChange(r),
         req[r].kind \in {"on", "off", "remember", "confirm", "forget"}
  PROVE  /\ HistoryIsTyped' /\ NewestIsAsked' /\ Fewer(acked', acked) /\ acked'[u][field] = "none"
         /\ Kind(r) # "confirm" => latest'[u][field] = r
         /\ \A v \in Users, f \in Fields, q \in Requests :
              latest'[v][f] = q => latest[v][f] = q \/ (v = u /\ f = field /\ q = r /\ Kind(r) # "confirm")
<1>1. /\ acked' \in [Users -> [Fields -> {"none", "on", "off", "remember", "forget"}]]
      /\ Fewer(acked', acked) /\ acked'[u][field] = "none"
  <2>1. acked' = Unpromised(u, field) BY DEF NewChange
  <2> QED BY <2>1, UnpromisedIs
<1>2. /\ latest' \in [Users -> [Fields -> Requests \cup {Nobody}]]
      /\ \A v \in Users, f \in Fields : v # u \/ f # field => latest'[v][f] = latest[v][f]
      /\ latest'[u][field] = IF Kind(r) = "confirm" THEN latest[u][field] ELSE r
  <2>1. CASE Kind(r) = "confirm" BY <2>1 DEF NewChange, HistoryIsTyped
  <2>2. CASE Kind(r) # "confirm"
    <3>1. PICK g : g = [latest[u] EXCEPT ![field] = r] OBVIOUS
    <3>2. latest[u] \in [Fields -> Requests \cup {Nobody}] BY DEF HistoryIsTyped
    <3>3. /\ g \in [Fields -> Requests \cup {Nobody}] /\ g[field] = r
          /\ \A f \in Fields : f # field => g[f] = latest[u][f]
      BY <3>1, <3>2
    <3>4. latest' = [latest EXCEPT ![u] = g] BY <2>2, <3>1 DEF NewChange
    <3>5. /\ latest' \in [Users -> [Fields -> Requests \cup {Nobody}]]
          /\ latest'[u] = g /\ \A v \in Users \ {u} : latest'[v] = latest[v]
      BY <3>3, <3>4 DEF HistoryIsTyped
    <3> QED BY <2>2, <3>3, <3>5
  <2> QED BY <2>1, <2>2
<1>3. \A v \in Users, f \in Fields, q \in Requests :
        latest'[v][f] = q => latest[v][f] = q \/ (v = u /\ f = field /\ q = r /\ Kind(r) # "confirm")
  BY <1>2
<1>4. NewestIsAsked'
  <2> SUFFICES ASSUME NEW v \in Users, NEW q \in Requests
               PROVE  /\ latest'[v]["choice"] = q =>
                           req'[q].at # "new" /\ req'[q].user = v /\ req'[q].kind \in {"on", "off"}
                      /\ latest'[v]["fact"] = q =>
                           req'[q].at # "new" /\ req'[q].user = v /\ req'[q].kind \in {"remember", "forget"}
    BY DEF NewestIsAsked
  <2>1. "choice" \in Fields /\ "fact" \in Fields BY DEF Fields
  <2>2. req[q].at # "new" =>
          req'[q].at # "new" /\ req'[q].user = req[q].user /\ req'[q].kind = req[q].kind
    BY DEF Keeps
  <2>3. field = (IF Kind(r) \in {"on", "off"} THEN "choice" ELSE "fact") BY DEF ChoiceField
  <2>4. CASE latest'[v]["choice"] = q
    <3>1. CASE latest[v]["choice"] = q BY <2>2, <2>4, <3>1, <1>3, <2>1, <2>3 DEF NewestIsAsked, Member, Kind
    <3>2. CASE latest[v]["choice"] # q
      <4>1. v = u /\ q = r /\ field = "choice" /\ Kind(r) # "confirm" BY <1>3, <2>1, <2>4, <3>2
      <4>2. Kind(r) \in {"on", "off"} BY <2>3, <4>1
      <4>3. CASE latest'[v]["fact"] = q
        <5>1. latest[v]["fact"] = q BY <1>3, <2>1, <4>1, <4>3
        <5> QED BY <4>1, <4>2, <5>1 DEF NewestIsAsked, Kind
      <4> QED BY <2>2, <4>1, <4>2, <4>3 DEF Member, Kind
    <3> QED BY <3>1, <3>2
  <2>5. CASE latest'[v]["choice"] # q /\ latest'[v]["fact"] = q
    <3>1. CASE latest[v]["fact"] = q BY <2>2, <2>5, <3>1 DEF NewestIsAsked
    <3>2. CASE latest[v]["fact"] # q
      <4>1. v = u /\ q = r /\ field = "fact" /\ Kind(r) # "confirm" BY <1>3, <2>1, <2>5, <3>2
      <4>2. Kind(r) \in {"remember", "forget"} BY <2>3, <4>1 DEF Kind
      <4> QED BY <2>2, <2>5, <4>1, <4>2 DEF Member, Kind
    <3> QED BY <3>1, <3>2
  <2> QED BY <2>4, <2>5
<1> QED BY <1>1, <1>2, <1>3, <1>4 DEF HistoryIsTyped

\* A fresh change is in no document and in no journal.
LEMMA UnknownIs ==
  ASSUME IInv, AInv, NEW r \in Requests, req[r].at = "queued", ~Known(r), Permitted(r) \/ OnlyMarks(r),
         NEW u \in Users, u = Member(r)
  PROVE  /\ disk.subj[u].out[r] = "none" /\ live.subj[u].out[r] = "none"
         /\ publication.known => publication.id.subj[u].out[r] = "none"
<1>1. disk.subj[u].out[r] = "none" BY DEF Known
<1>2. Recalls(disk, live, req) /\ Recalls(disk, publication.id, req)
  BY DEF AInv, StoresAreTrue, PublicationIsTrue
<1>3. CASE Kind(r) # "on" BY <1>1, <1>2, <1>3 DEF Recalls, Kind
<1>4. CASE Kind(r) = "on"
  <2>1. Permitted(r) /\ base = disk BY <1>4 DEF OnlyMarks, Permitted, Behind, Current
  <2>2. live.epoch = req[r].stamp[2]
    <3>1. Stamp(live, u) = req[r].allowed BY <2>1 DEF Permitted
    <3>2. req[r].allowed = req[r].stamp BY <1>4 DEF IInv, RequestIsDated, Kind
    <3>3. Stamp(live, u)[2] = live.epoch BY DEF Stamp
    <3> QED BY <3>1, <3>2, <3>3
  <2>3. Dated(live) BY DEF IInv, EverythingIsDated
  <2>4. live.epoch \in Nat /\ disk.epoch \in Nat /\ base.epoch \in Nat BY FilesAre DEF IInv
  <2>5. live.subj[u].out[r] = "none" BY <1>4, <2>2, <2>3, <2>4 DEF Dated, Past, Kind
  <2>6. ASSUME publication.known PROVE publication.id.subj[u].out[r] = "none"
    <3>1. Dated(publication.id) /\ publication.id.epoch <= disk.epoch
      BY <2>6 DEF AInv, PublicationIsTrue
    <3>2. publication.id.epoch \in Nat BY DocumentIs DEF IInv, Types
    <3>3. live.epoch >= disk.epoch BY <2>1 DEF IInv, MemoryIsFenced
    <3>4. ~(publication.id.epoch > live.epoch) BY <2>4, <3>1, <3>2, <3>3
    <3>5. ~Past(r, publication.id.epoch) BY <1>4, <2>2, <3>4 DEF Past, Kind
    <3> QED BY <3>1, <3>5 DEF Dated
  <2> QED BY <1>1, <2>5, <2>6
<1> QED BY <1>3, <1>4

\* What a document that does not know the change says of the newest changes stays true.
LEMMA BearsNew ==
  ASSUME Keeps, NewestIsAsked, NEW r \in Requests, NEW u \in Users, NEW field \in Fields,
         \A v \in Users, f \in Fields, q \in Requests :
           latest'[v][f] = q => latest[v][f] = q \/ (v = u /\ f = field /\ q = r /\ Kind(r) # "confirm"),
         NEW d, Bears(d, latest, req), d.subj[u].out[r] = "none"
  PROVE  Bears(d, latest', req')
<1> SUFFICES ASSUME NEW v \in Users, NEW q \in Requests, d.subj[v].out[q] # "none"
             PROVE  /\ latest'[v]["choice"] = q => d.subj[v].on = (req'[q].kind = "on")
                    /\ latest'[v]["fact"] = q => (v \in d.facts) = (req'[q].kind = "remember")
  BY DEF Bears
<1>1. /\ latest'[v]["choice"] = q => latest[v]["choice"] = q
      /\ latest'[v]["fact"] = q => latest[v]["fact"] = q
  BY DEF Fields
<1>2. latest[v]["choice"] = q \/ latest[v]["fact"] = q => req'[q].kind = req[q].kind
  BY DEF NewestIsAsked, Keeps
<1> QED BY <1>1, <1>2 DEF Bears

\* Memory and the files do not know the change that begins.
LEMMA NewChangeStands ==
  ASSUME IInv, AInv, Keeps, NEW r \in Requests, req[r].at = "queued", ~Known(r),
         Permitted(r) \/ OnlyMarks(r), NEW u \in Users, u = Member(r), NewChange(r),
         UNCHANGED <<live, base, publication, disk, marker, boot>>
  PROVE  StoresAreTrue' /\ PublicationIsTrue'
<1>1. HistoryIsTyped /\ NewestIsAsked /\ StoresAreTrue /\ PublicationIsTrue BY DEF AInv
<1>2. PICK field \in Fields : field = ChoiceField(r) BY DEF ChoiceField, Fields
<1>3. req[r].kind \in {"on", "off", "remember", "confirm", "forget"} /\ req[r].at # "new"
  BY RequestIs DEF IInv, Requested
<1>4. /\ Fewer(acked', acked)
      /\ \A v \in Users, f \in Fields, q \in Requests :
           latest'[v][f] = q => latest[v][f] = q \/ (v = u /\ f = field /\ q = r /\ Kind(r) # "confirm")
  BY <1>1, <1>2, <1>3, NewChangeIs
<1>5. /\ disk.subj[u].out[r] = "none" /\ live.subj[u].out[r] = "none"
      /\ publication.known => publication.id.subj[u].out[r] = "none"
  BY UnknownIs
<1>6. Bears(live, latest', req') /\ Bears(disk, latest', req')
  BY <1>1, <1>2, <1>4, <1>5, BearsNew DEF StoresAreTrue
<1>7. /\ Redeems(live, acked') /\ Redeems(disk, acked')
      /\ Recalls(disk, live, req') /\ Recalls(live, base, req')
      /\ Recalls(live, publication.doc, req') /\ Recalls(disk, publication.id, req')
  BY <1>1, <1>4, RedeemsStay, RecallsStay DEF StoresAreTrue, PublicationIsTrue
<1>8. ASSUME NEW v \in Users, NEW q \in Requests, latest[v]["choice"] = q \/ latest[v]["fact"] = q
      PROVE  req'[q].kind = req[q].kind
  BY <1>1, <1>8 DEF NewestIsAsked, Keeps
<1>9. "choice" \in Fields /\ "fact" \in Fields BY DEF Fields
<1>10. NamedByNewest(marker, latest', req')
  <2> SUFFICES ASSUME NEW v \in Users, NEW q \in Requests, latest'[v]["choice"] = q, req'[q].kind = "on"
               PROVE  Names(marker, v, q)
    BY DEF NamedByNewest
  <2>1. CASE latest[v]["choice"] = q BY <1>1, <1>8, <2>1 DEF StoresAreTrue, NamedByNewest
  <2>2. CASE latest[v]["choice"] # q
    <3>1. q = r BY <1>4, <1>9, <2>2
    <3>2. Kind(r) = "on" BY <1>3, <3>1 DEF Keeps, Kind
    <3>3. IsEmpty(marker) BY <3>2 DEF Permitted, OnlyMarks
    <3>4. marker.off[v] = NoMark /\ marker.on[v] = NoMark BY <3>3 DEF IsEmpty, Entries
    <3> QED BY <3>4 DEF Names, By
  <2> QED BY <2>1, <2>2
<1>11. ASSUME publication.known PROVE MemoryStands(live, publication, latest', req')
  <2>1. MemoryStands(live, publication, latest, req) BY <1>1, <1>11 DEF PublicationIsTrue
  <2>2. publication.id.subj[u].out[r] = "none" BY <1>5, <1>11
  <2> SUFFICES ASSUME NEW v \in Users, NEW q \in Requests
               PROVE  /\ latest'[v]["choice"] = q /\ req'[q].kind = "on"
                          /\ (live.subj[v].out[q] # "none" \/ publication.id.subj[v].out[q] # "none") =>
                            live.subj[v] = publication.doc.subj[v]
                      /\ latest'[v]["fact"] = q /\ publication.id.subj[v].out[q] # "none" =>
                            (v \in live.facts) = (v \in publication.doc.facts)
    BY DEF MemoryStands
  <2>3. CASE v = u /\ q = r BY <1>5, <2>2, <2>3
  <2>4. CASE ~(v = u /\ q = r)
    <3>1. /\ latest'[v]["choice"] = q => latest[v]["choice"] = q
          /\ latest'[v]["fact"] = q => latest[v]["fact"] = q
      BY <1>4, <1>9, <2>4
    <3> QED BY <1>8, <2>1, <3>1 DEF MemoryStands
  <2> QED BY <2>3, <2>4
<1>12. StoresAreTrue'
  <2>1. \A v \in Users : acked'[v]["choice"] = "on" => acked[v]["choice"] = "on"
    BY <1>4, <1>9 DEF Fewer
  <2> QED BY <1>1, <1>6, <1>7, <1>10, <2>1 DEF StoresAreTrue
<1>13. PublicationIsTrue'
  <2>1. Dated(publication.id) => Dated(publication.id)' BY DatedStays
  <2> QED BY <1>1, <1>7, <1>11, <2>1 DEF PublicationIsTrue
<1> QED BY <1>12, <1>13

\* A withdrawal that only goes on record.
LEMMA StartMarkIsTrue ==
  ASSUME IInv, IInv', AInv, Keeps, NEW r \in Requests, StartMark(r)
  PROVE  AInv'
<1>1. /\ Free /\ req[r].at = "queued" /\ ~Known(r) /\ OnlyMarks(r) /\ NewChange(r) /\ Kind(r) = "off"
      /\ UNCHANGED <<live, base, publication, disk, marker, boot, snap>>
  BY DEF StartMark, OnlyMarks, memory, files
<1>2. PICK u \in Users : u = Member(r) BY <1>1 DEF IInv, RequestIsDated, Member
<1>3. StoresAreTrue' /\ PublicationIsTrue' BY <1>1, <1>2, NewChangeStands
<1>4. PICK k : k = AddWithdrawal(marker, u, Mark(r, live)) OBVIOUS
<1>5. /\ tx'.at \in Marking /\ tx'.by = r /\ tx'.journal = k /\ tx'.aborted = FALSE
      /\ tx'.at # "finish" /\ tx'.at \notin Building /\ tx'.at \notin InPlay
  <2>1. tx' = [Idle EXCEPT !.at = "mark only", !.by = r, !.journal = k] BY <1>2, <1>4, Zenon DEF StartMark
  <2>2. PICK at : at = "mark only" BY Zenon
  <2>3. tx' = [Idle EXCEPT !.at = at, !.by = r, !.journal = k] BY <2>1, <2>2, Zenon
  <2>4. tx'.at = at /\ tx'.by = r /\ tx'.journal = k /\ tx'.aborted = FALSE
    BY <2>3 DEF Idle
  <2>5. at \in Marking /\ at # "finish" BY <2>2, Zenon DEF Marking
  <2>6. at \notin Building /\ at \notin InPlay BY <2>2, Zenon DEF Building, Publishing, InPlay
  <2> QED BY <2>4, <2>5, <2>6
<1>6. /\ k.on = marker.on /\ \A v \in Users \ {u} : k.off[v] = marker.off[v]
  <2>1. live \in Documents /\ marker \in Journals BY DEF IInv, Types
  <2>2. PICK w : w = Mark(r, live) OBVIOUS
  <2>3. w \in Marks /\ w.by = r BY <1>2, <2>1, <2>2, MarkIs
  <2> QED BY <1>4, <2>1, <2>2, <2>3, AddIs
<1>7. HistoryIsTyped /\ NewestIsAsked /\ StoresAreTrue BY DEF AInv
<1>8. ChoiceField(r) = "choice" /\ "choice" \in Fields BY <1>1 DEF ChoiceField, Fields
<1>9. req[r].kind \in {"on", "off", "remember", "confirm", "forget"} /\ req[r].at # "new"
  BY <1>1, RequestIs DEF IInv, Requested
<1>10. /\ HistoryIsTyped' /\ NewestIsAsked' /\ Fewer(acked', acked) /\ acked'[u]["choice"] = "none"
       /\ latest'[u]["choice"] = r
       /\ \A v \in Users, f \in Fields, q \in Requests :
            latest'[v][f] = q => latest[v][f] = q \/ (v = u /\ q = r)
  BY <1>1, <1>2, <1>7, <1>8, <1>9, NewChangeIs
<1>11. ChangeIsUnderWay'
  <2>1. /\ Member(tx.by)' = u /\ ChoiceField(tx.by)' = "choice" /\ Kind(tx.by)' = "off"
    BY <1>1, <1>2, <1>5, <1>9 DEF Keeps, Member, ChoiceField, Kind
  <2>2. NamedByNewest(k, latest', req')
    <3> SUFFICES ASSUME NEW v \in Users, NEW q \in Requests, latest'[v]["choice"] = q, req'[q].kind = "on"
                 PROVE  Names(k, v, q)
      BY DEF NamedByNewest
    <3>1. q # r BY <1>1, <1>9 DEF Keeps, Kind
    <3>2. v # u /\ latest[v]["choice"] = q BY <1>8, <1>10, <3>1
    <3>3. req[q].kind = "on" BY <1>7, <3>2 DEF NewestIsAsked, Keeps
    <3>4. Names(marker, v, q) BY <1>7, <3>2, <3>3 DEF StoresAreTrue, NamedByNewest
    <3> QED BY <1>6, <3>2, <3>4 DEF Names
  <2>3. \A v \in Users : acked'[v]["choice"] = "on" => ~Marked(k, v)
    <3> SUFFICES ASSUME NEW v \in Users, acked'[v]["choice"] = "on" PROVE ~Marked(k, v) OBVIOUS
    <3>1. v # u /\ acked[v]["choice"] = "on" BY <1>8, <1>10 DEF Fewer
    <3>2. ~Marked(marker, v) BY <1>7, <3>1 DEF StoresAreTrue
    <3> QED BY <1>6, <3>1, <3>2 DEF Marked
  <2> QED BY <1>5, <1>10, <2>1, <2>2, <2>3 DEF ChangeIsUnderWay
<1>12. CandidateIsTrue' /\ MemoryIsAwaited' BY <1>5 DEF CandidateIsTrue, MemoryIsAwaited
<1>13. SnapshotIsTrue' BY <1>1 DEF SnapshotIsTrue, Free
<1> QED BY <1>3, <1>10, <1>11, <1>12, <1>13 DEF AInv

\* A replayed withdrawal that no document records is opened.
Opened(d, u, r) == [d EXCEPT !.subj[u].out[r] = "open"]

\* The replay's outcome is all that moves.
LEMMA OpenedDoes ==
  ASSUME NEW d \in Documents, NEW u \in Users, NEW r \in Requests, NEW e, e = Opened(d, u, r)
  PROVE  /\ e.facts = d.facts
         /\ \A v \in Users : e.subj[v].on = d.subj[v].on /\ e.subj[v].pending = d.subj[v].pending
         /\ \A v \in Users \ {u} : e.subj[v] = d.subj[v]
         /\ e.subj[u].out[r] = "open"
         /\ \A q \in Requests \ {r} : e.subj[u].out[q] = d.subj[u].out[q]
<1>1. PICK f, T, n : d = [facts |-> f, subj |-> T, epoch |-> n] BY DocumentIs
<1>2. T \in [Users -> Subjects] BY <1>1, DocumentIs
<1>3. PICK t \in Subjects : t = T[u] BY <1>2
<1>4. PICK a, o, k, p, z : t = [rev |-> a, on |-> o, pending |-> k, proof |-> p, out |-> z]
  <2>1. t = [rev |-> t.rev, on |-> t.on, pending |-> t.pending, proof |-> t.proof, out |-> t.out]
    BY SubjectIs
  <2> QED BY <2>1
<1>5. z \in [Requests -> Outcome] BY <1>4, SubjectIs
<1>6. PICK y : y = [z EXCEPT ![r] = "open"] OBVIOUS
<1>7. y[r] = "open" /\ \A q \in Requests \ {r} : y[q] = z[q] BY <1>5, <1>6
<1>8. PICK s : s = [rev |-> a, on |-> o, pending |-> k, proof |-> p, out |-> y] OBVIOUS
<1>9. PICK S : S = [T EXCEPT ![u] = s] OBVIOUS
<1>10. S[u] = s /\ \A v \in Users \ {u} : S[v] = T[v] BY <1>2, <1>9
<1>11. e = [facts |-> f, subj |-> S, epoch |-> n]
  <2>1. e = [d EXCEPT !.subj = [d.subj EXCEPT ![u] = [d.subj[u] EXCEPT !.out = [d.subj[u].out EXCEPT ![r] = "open"]]]]
    BY <1>1, <1>2, <1>3, <1>4, <1>5 DEF Opened
  <2>2. d.subj = T /\ d.subj[u] = t /\ d.subj[u].out = z
    <3>1. d.subj = T BY <1>1
    <3>2. t.out = z BY <1>4
    <3> QED BY <1>3, <3>1, <3>2
  <2>3. [t EXCEPT !.out = y] = s BY <1>4, <1>8
  <2>4. e = [d EXCEPT !.subj = S] BY <1>6, <1>9, <2>1, <2>2, <2>3
  <2> QED BY <1>1, <2>4
<1>12. e.facts = f /\ e.subj = S BY <1>11
<1>13. s.on = t.on /\ s.pending = t.pending /\ s.out = y /\ t.out = z BY <1>4, <1>8
<1> QED BY <1>1, <1>3, <1>7, <1>10, <1>12, <1>13

\* What a replay starts from.
LEMMA RepairedDoes ==
  ASSUME IInv, AInv, NEW r \in Requests, publication.known => PublicationMatches
  PROVE  LET e == Repaired(r)
         IN  /\ e \in Documents /\ Bears(e, latest, req) /\ Redeems(e, acked) /\ Recalls(e, disk, req)
             /\ \A u \in Users : /\ ~e.subj[u].pending
                                 /\ e.subj[u].on => disk.subj[u].on /\ ~Marked(marker, u)
<1>1. PICK source : source = IF publication.known THEN Rebase(live, publication.doc, disk) ELSE disk
  OBVIOUS
<1>2. PICK e : e = Repaired(r) OBVIOUS
<1>3. e = FoldDenials(source, marker) BY <1>1, <1>2 DEF Repaired
<1>4. StoresAreTrue BY DEF AInv
<1>5. /\ source \in Documents /\ Recalls(source, disk, req) /\ Bears(source, latest, req)
      /\ Redeems(source, acked)
      /\ \A u \in Users : /\ source.subj[u].pending => disk.subj[u].pending
                          /\ source.subj[u].on => disk.subj[u].on
  <2>1. CASE publication.known
    <3>1. PICK z : z = Rebase(live, publication.doc, disk) OBVIOUS
    <3>2. /\ z \in Documents /\ Recalls(z, disk, req) /\ Bears(z, latest, req) /\ Redeems(z, acked)
          /\ \A u \in Users : /\ z.subj[u].pending => disk.subj[u].pending
                              /\ z.subj[u].on => disk.subj[u].on
      BY <2>1, <3>1, PublishedIs
    <3> QED BY <1>1, <2>1, <3>1, <3>2
  <2>2. CASE ~publication.known
    <3>1. source = disk /\ disk \in Documents BY <1>1, <2>2 DEF IInv, Types
    <3>2. Recalls(disk, disk, req) BY Recalling
    <3> QED BY <1>4, <3>1, <3>2 DEF StoresAreTrue
  <2> QED BY <2>1, <2>2
<1>6. Types /\ marker \in Journals /\ JournalDated(marker) BY DEF IInv, Types, EverythingIsDated
<1>7. Folds(e, source, marker, req) BY <1>3, <1>5, <1>6, FoldDoes
<1>8. e \in Documents BY <1>2, RepairedIs
<1>9. Bears(e, latest, req) BY <1>4, <1>5, <1>7, <1>8, FoldsBear DEF StoresAreTrue
<1>10. Redeems(e, acked) BY <1>4, <1>5, <1>7, FoldsRedeem DEF StoresAreTrue
<1>11. Recalls(e, disk, req)
  <2>1. Recalls(e, source, req) BY <1>6, <1>7, FoldsRecall
  <2> QED BY <1>5, <2>1, Recalling
<1>12. ASSUME NEW u \in Users
       PROVE  /\ ~e.subj[u].pending
              /\ e.subj[u].on => disk.subj[u].on /\ ~Marked(marker, u)
  <2>1. e.subj[u].pending => source.subj[u].pending /\ ~Marked(marker, u) BY <1>7 DEF Folds
  <2>2. e.subj[u].on => source.subj[u].on /\ ~Marked(marker, u) BY <1>7 DEF Folds
  <2>3. disk.subj[u].pending => Marked(marker, u) BY <1>4 DEF StoresAreTrue, Marked
  <2> QED BY <1>5, <2>1, <2>2, <2>3
<1> QED BY <1>2, <1>8, <1>9, <1>10, <1>11, <1>12

\* A change is asked again after its answer was lost.
LEMMA StartReplayIsTrue ==
  ASSUME IInv, IInv', AInv, Keeps, NEW r \in Requests, StartReplay(r)
  PROVE  AInv'
<1>1. /\ Free /\ req[r].at = "queued" /\ Known(r)
      /\ UNCHANGED <<live, base, publication, disk, marker, boot, snap, latest>>
  BY DEF StartReplay, files
<1>2. PICK u \in Users : u = Member(r) BY <1>1 DEF IInv, RequestIsDated, Member
<1>3. PICK repaired : repaired = Repaired(r) OBVIOUS
<1>4. CASE ~(Repairable(r) /\ (AbortedOn(r) \/ repaired.subj[u].out[r] # "none" \/ Kind(r) = "off"))
  <2>1. Refused(r) /\ UNCHANGED acked BY <1>2, <1>3, <1>4 DEF StartReplay
  <2> QED BY <1>1, <2>1, AnswersAreTrue DEF Refused
<1>5. CASE Repairable(r) /\ (AbortedOn(r) \/ repaired.subj[u].out[r] # "none" \/ Kind(r) = "off")
  <2>1. PICK field \in Fields : field = ChoiceField(r) BY DEF ChoiceField, Fields
  <2>2. PICK e : e = IF repaired.subj[u].out[r] # "none" \/ AbortedOn(r) THEN repaired
                     ELSE [repaired EXCEPT !.subj[u].out[r] = "open"]
    OBVIOUS
  <2>3. /\ tx' = [Idle EXCEPT !.at = "write", !.by = r, !.live = live, !.base = base,
                              !.journal = marker, !.replay = TRUE, !.aborted = AbortedOn(r), !.cand = e]
        /\ acked' = Unpromised(u, field)
    BY <1>2, <1>3, <1>5, <2>1, <2>2 DEF StartReplay
  <2>4. /\ tx'.at = "write" /\ tx'.by = r /\ tx'.live = live /\ tx'.journal = marker
        /\ tx'.replay = TRUE /\ tx'.aborted = AbortedOn(r) /\ tx'.cand = e
    BY <2>3 DEF Idle
  <2>5. HistoryIsTyped /\ NewestIsAsked /\ StoresAreTrue BY DEF AInv
  <2>6. /\ HistoryIsTyped' /\ Fewer(acked', acked) /\ acked'[u][field] = "none"
        /\ Fades(latest', latest)
    <3>1. /\ acked' \in [Users -> [Fields -> {"none", "on", "off", "remember", "forget"}]]
          /\ Fewer(acked', acked) /\ acked'[u][field] = "none"
      BY <2>3, <2>5, UnpromisedIs
    <3> QED BY <1>1, <2>5, <3>1 DEF HistoryIsTyped, Fades
  <2>7. NewestIsAsked' BY <2>5, <2>6, NewestStays
  <2>8. StoresAreTrue' /\ PublicationIsTrue' BY <1>1, <2>6, StoresRest, PublicationRests
  <2>9. SnapshotIsTrue' BY <1>1 DEF SnapshotIsTrue, Free
  <2>10. req[r].at # "new" /\ Member(tx.by)' = u /\ ChoiceField(tx.by)' = field /\ Kind(tx.by)' = Kind(r)
    BY <1>1, <1>2, <2>1, <2>4 DEF Keeps, Member, ChoiceField, Kind
  <2>11. "write" \notin Marking BY Zenon DEF Marking
  <2>12. ChangeIsUnderWay'
    <3>1. NamedByNewest(marker, latest', req') BY <2>5, <2>6, NewestStays DEF StoresAreTrue
    <3> QED BY <2>4, <2>6, <2>10, <2>11, <3>1 DEF ChangeIsUnderWay
  <2>13. /\ repaired \in Documents /\ Bears(repaired, latest, req) /\ Redeems(repaired, acked)
         /\ Recalls(repaired, disk, req)
         /\ \A v \in Users : /\ ~repaired.subj[v].pending
                             /\ repaired.subj[v].on => disk.subj[v].on /\ ~Marked(marker, v)
    <3>1. publication.known => PublicationMatches BY <1>5 DEF Repairable
    <3> QED BY <1>3, <3>1, RepairedDoes
  <2>14. /\ Bears(e, latest, req) /\ Redeems(e, acked) /\ Recalls(e, disk, req)
         /\ ~AbortedOn(r) => e.subj[u].out[r] # "none"
         /\ \A v \in Users : ~e.subj[v].pending /\ e.subj[v].on = repaired.subj[v].on
    <3>1. CASE repaired.subj[u].out[r] # "none" \/ AbortedOn(r) BY <2>2, <2>13, <3>1
    <3>2. CASE ~(repaired.subj[u].out[r] # "none" \/ AbortedOn(r))
      <4>1. e = Opened(repaired, u, r) BY <2>2, <3>2 DEF Opened
      <4>2. /\ e.facts = repaired.facts
            /\ \A v \in Users : /\ e.subj[v].on = repaired.subj[v].on
                                /\ e.subj[v].pending = repaired.subj[v].pending
            /\ \A v \in Users \ {u} : e.subj[v] = repaired.subj[v]
            /\ e.subj[u].out[r] = "open"
            /\ \A q \in Requests \ {r} : e.subj[u].out[q] = repaired.subj[u].out[q]
        BY <2>13, <4>1, OpenedDoes
      <4>3. Kind(r) = "off" BY <1>5, <3>2
      <4>4. ~e.subj[u].on
        <5>1. disk.subj[u].out[r] = "none" BY <2>13, <3>2, <4>3 DEF Recalls, Kind
        <5>2. marker.off[u].by = r \/ marker.on[u].by = r BY <1>1, <1>2, <5>1 DEF Known
        <5>3. Marked(marker, u) BY <5>2, MarkIsNot, FilesAre DEF Marked, IInv
        <5> QED BY <2>13, <4>2, <5>3
      <4>5. Bears(e, latest, req)
        <5> SUFFICES ASSUME NEW v \in Users, NEW q \in Requests, e.subj[v].out[q] # "none"
                     PROVE  /\ latest[v]["choice"] = q => e.subj[v].on = (req[q].kind = "on")
                            /\ latest[v]["fact"] = q => (v \in e.facts) = (req[q].kind = "remember")
          BY DEF Bears
        <5>1. CASE v = u /\ q = r
          <6>1. latest[v]["fact"] # q BY <2>5, <4>3, <5>1 DEF NewestIsAsked, Kind
          <6>2. req[q].kind # "on" BY <4>3, <5>1 DEF Kind
          <6>3. e.subj[v].on \in BOOLEAN BY <2>13, <4>2, DocumentIs, SubjectIs
          <6> QED BY <4>4, <5>1, <6>1, <6>2, <6>3
        <5>2. CASE ~(v = u /\ q = r)
          <6>1. repaired.subj[v].out[q] # "none" BY <4>2, <5>2
          <6> QED BY <2>13, <4>2, <6>1 DEF Bears
        <5> QED BY <5>1, <5>2
      <4>6. Redeems(e, acked) BY <2>13, <4>2 DEF Redeems
      <4>7. Recalls(e, disk, req)
        <5>1. \A v \in Users, q \in Requests : repaired.subj[v].out[q] # "none" => e.subj[v].out[q] # "none"
          BY <4>2
        <5> QED BY <2>13, <5>1 DEF Recalls
      <4> QED BY <2>13, <4>2, <4>5, <4>6, <4>7
    <3> QED BY <3>1, <3>2
  <2>15. CandidateIsTrue'
    <3>1. /\ Bears(e, latest', req') /\ Redeems(e, acked') /\ Recalls(e, disk, req')
      BY <2>5, <2>6, <2>14, BearsStay, RedeemsStay, RecallsStay
    <3> QED BY <1>1, <2>4, <2>10, <2>14, <3>1 DEF CandidateIsTrue
  <2>16. MemoryIsAwaited'
    <3>1. Recalls(live, live, req') BY Recalling
    <3>2. \A v \in Users : live.subj[v].pending => ~e.subj[v].on
      BY <2>5, <2>13, <2>14 DEF StoresAreTrue, Marked
    <3> QED BY <1>1, <2>4, <3>1, <3>2 DEF MemoryIsAwaited
  <2> QED BY <2>6, <2>7, <2>8, <2>9, <2>12, <2>15, <2>16 DEF AInv
<1> QED BY <1>4, <1>5

\* What a fresh change starts from.
LEMMA FreshSourceIs ==
  ASSUME IInv, AInv, NEW r \in Requests, req[r].at = "queued", ~Known(r), Permitted(r),
         NEW u \in Users, u = Member(r), NEW source, source = Source(r)
  PROVE  /\ source \in Documents /\ Bears(source, latest, req) /\ Redeems(source, acked)
         /\ Recalls(source, disk, req) /\ source.subj[u].out[r] = "none"
         /\ \A v \in Users : /\ source.subj[v].pending => disk.subj[v].pending
                             /\ source.subj[v].on => disk.subj[v].on
<1>1. source \in Documents /\ Below(source, disk) BY SourceIs
<1>2. StoresAreTrue BY DEF AInv
<1>3. live.subj[u].out[r] = "none" /\ disk.subj[u].out[r] = "none" BY UnknownIs
<1>4. CASE Current
  <2>1. source = live /\ base = disk BY <1>4 DEF Source, Current
  <2> QED BY <1>1, <1>2, <1>3, <2>1 DEF StoresAreTrue, Below
<1>5. CASE ~Current
  <2>1. PublicationMatches BY <1>5 DEF Permitted, Behind
  <2>2. source = Rebase(live, publication.doc, disk) BY <1>5 DEF Source
  <2>3. /\ Recalls(source, disk, req) /\ Bears(source, latest, req) /\ Redeems(source, acked)
        /\ \A v \in Users : source.subj[v].pending => disk.subj[v].pending
    BY <2>1, <2>2, PublishedIs
  <2>4. source.subj[u].out[r] = "none"
    <3>1. live \in Documents /\ publication.doc \in Documents /\ disk \in Documents BY DEF IInv, Types
    <3> QED BY <1>3, <2>2, <3>1, RebaseIs
  <2> QED BY <1>1, <2>3, <2>4 DEF Below
<1> QED BY <1>4, <1>5

\* The change applied shows what it asks, and else what it started from.
LEMMA FreshIs ==
  ASSUME IInv, AInv, Keeps, NEW r \in Requests, req[r].at = "queued", ~Known(r), Permitted(r),
         NEW u \in Users, u = Member(r), NewChange(r), NEW source, source = Source(r),
         NEW e, e = Apply(r, source)
  PROVE  /\ Bears(e, latest', req) /\ Redeems(e, acked') /\ Recalls(e, disk, req)
         /\ e.subj[u].out[r] = "open"
         /\ \A v \in Users : /\ e.subj[v].pending => disk.subj[v].pending
                             /\ v # u => (e.subj[v].on => disk.subj[v].on)
<1>1. HistoryIsTyped /\ NewestIsAsked /\ Types BY DEF AInv, IInv
<1>2. PICK field \in Fields : field = ChoiceField(r) BY DEF ChoiceField, Fields
<1>3. req[r].kind \in {"on", "off", "remember", "confirm", "forget"} /\ req[r].at # "new"
  BY RequestIs DEF IInv, Requested
<1>4. /\ Fewer(acked', acked) /\ acked'[u][field] = "none" /\ (Kind(r) # "confirm" => latest'[u][field] = r)
      /\ \A v \in Users, f \in Fields, q \in Requests :
           latest'[v][f] = q => latest[v][f] = q \/ (v = u /\ f = field /\ q = r /\ Kind(r) # "confirm")
  BY <1>1, <1>2, <1>3, NewChangeIs
<1>5. /\ source \in Documents /\ Bears(source, latest, req) /\ Redeems(source, acked)
      /\ Recalls(source, disk, req) /\ source.subj[u].out[r] = "none"
      /\ \A v \in Users : /\ source.subj[v].pending => disk.subj[v].pending
                          /\ source.subj[v].on => disk.subj[v].on
  BY FreshSourceIs
<1>6. /\ e.facts = AppliedFacts(r, source)
      /\ \A v \in Users \ {u} : e.subj[v] = source.subj[v]
      /\ e.subj[u].pending = source.subj[u].pending
      /\ Kind(r) \in {"on", "off"} => e.subj[u].on = (Kind(r) = "on")
      /\ Kind(r) \notin {"on", "off"} => e.subj[u].on = source.subj[u].on
      /\ e.subj[u].out[r] = "open"
      /\ \A q \in Requests \ {r} : e.subj[u].out[q] = source.subj[u].out[q]
  BY <1>1, <1>5, ApplyDoes
<1>7. /\ \A v : v # u => (v \in e.facts) = (v \in source.facts)
      /\ Kind(r) \notin {"remember", "forget"} => e.facts = source.facts
      /\ Kind(r) = "remember" => u \in e.facts
      /\ Kind(r) = "forget" => u \notin e.facts
  BY <1>6, AppliedFactsAre
<1>8. /\ "choice" \in Fields /\ "fact" \in Fields
      /\ Kind(r) \in {"on", "off"} => field = "choice"
      /\ Kind(r) \notin {"on", "off"} => field = "fact"
  BY <1>2 DEF Fields, ChoiceField
<1>9. Bears(e, latest', req)
  <2> SUFFICES ASSUME NEW v \in Users, NEW q \in Requests, e.subj[v].out[q] # "none"
               PROVE  /\ latest'[v]["choice"] = q => e.subj[v].on = (req[q].kind = "on")
                      /\ latest'[v]["fact"] = q => (v \in e.facts) = (req[q].kind = "remember")
    BY DEF Bears
  <2>1. CASE v # u
    <3>1. /\ latest'[v]["choice"] = q => latest[v]["choice"] = q
          /\ latest'[v]["fact"] = q => latest[v]["fact"] = q
      BY <1>4, <1>8, <2>1
    <3> QED BY <1>5, <1>6, <1>7, <2>1, <3>1 DEF Bears
  <2>2. CASE v = u /\ q = r
    <3>1. latest'[u]["choice"] = r => Kind(r) \in {"on", "off"}
      <4>1. latest'[u]["choice"] = r => latest[u]["choice"] = r \/ (field = "choice" /\ Kind(r) # "confirm")
        BY <1>4, <1>8
      <4>2. latest[u]["choice"] = r => Kind(r) \in {"on", "off"} BY <1>1 DEF NewestIsAsked, Kind
      <4> QED BY <1>8, <4>1, <4>2
    <3>2. latest'[u]["fact"] = r => Kind(r) \in {"remember", "forget"}
      <4>1. latest'[u]["fact"] = r => latest[u]["fact"] = r \/ (field = "fact" /\ Kind(r) # "confirm")
        BY <1>4, <1>8
      <4>2. latest[u]["fact"] = r => Kind(r) \in {"remember", "forget"} BY <1>1 DEF NewestIsAsked, Kind
      <4> QED BY <1>3, <1>8, <4>1, <4>2 DEF Kind
    <3>3. latest'[u]["choice"] = r => e.subj[u].on = (req[r].kind = "on") BY <1>6, <3>1 DEF Kind
    <3>4. latest'[u]["fact"] = r => (u \in e.facts) = (req[r].kind = "remember")
      BY <1>7, <3>2 DEF Kind
    <3> QED BY <2>2, <3>3, <3>4
  <2>3. CASE v = u /\ q # r
    <3>1. source.subj[u].out[q] # "none" BY <1>6, <2>3
    <3>2. latest'[u]["choice"] = q => latest[u]["choice"] = q /\ Kind(r) \notin {"on", "off"}
      BY <1>4, <1>8, <2>3
    <3>3. latest'[u]["fact"] = q => latest[u]["fact"] = q /\ Kind(r) \notin {"remember", "forget"}
      BY <1>4, <1>8, <2>3
    <3>4. latest'[u]["choice"] = q => e.subj[u].on = (req[q].kind = "on")
      BY <1>5, <1>6, <3>1, <3>2 DEF Bears
    <3>5. latest'[u]["fact"] = q => (u \in e.facts) = (req[q].kind = "remember")
      BY <1>5, <1>7, <3>1, <3>3 DEF Bears
    <3> QED BY <2>3, <3>4, <3>5
  <2> QED BY <2>1, <2>2, <2>3
<1>10. Redeems(e, acked')
  <2>1. Redeems(source, acked') BY <1>4, <1>5, RedeemsStay
  <2> SUFFICES ASSUME NEW v \in Users
               PROVE  /\ acked'[v]["choice"] = "on" => e.subj[v].on /\ ~e.subj[v].pending
                      /\ acked'[v]["choice"] = "off" => ~e.subj[v].on
                      /\ acked'[v]["fact"] = "remember" => v \in e.facts
                      /\ acked'[v]["fact"] = "forget" => v \notin e.facts
    BY DEF Redeems
  <2>2. CASE v # u BY <1>6, <1>7, <2>1, <2>2 DEF Redeems
  <2>3. CASE v = u /\ field = "choice"
    <3>1. Kind(r) \in {"on", "off"} BY <1>8, <2>3
    <3>2. e.facts = source.facts BY <1>7, <3>1
    <3> QED BY <1>4, <2>1, <2>3, <3>2 DEF Redeems
  <2>4. CASE v = u /\ field = "fact"
    <3>1. Kind(r) \notin {"on", "off"} BY <1>8, <2>4
    <3>2. e.subj[u].on = source.subj[u].on BY <1>6, <3>1
    <3> QED BY <1>4, <1>6, <2>1, <2>4, <3>2 DEF Redeems
  <2> QED BY <1>8, <2>2, <2>3, <2>4 DEF Fields
<1>11. Recalls(e, disk, req)
  <2>1. \A v \in Users, q \in Requests : source.subj[v].out[q] # "none" => e.subj[v].out[q] # "none"
    BY <1>6
  <2> QED BY <1>5, <2>1 DEF Recalls
<1>12. \A v \in Users : /\ e.subj[v].pending => disk.subj[v].pending
                        /\ v # u => (e.subj[v].on => disk.subj[v].on)
  BY <1>5, <1>6
<1> QED BY <1>6, <1>9, <1>10, <1>11, <1>12

\* What a fresh change is about to publish, and the journal that goes first.
LEMMA PreparedIsTrue ==
  ASSUME IInv, AInv, Keeps, NEW r \in Requests, StartFresh(r), NEW u \in Users, u = Member(r)
  PROVE  /\ tx'.by = r /\ tx'.replay = FALSE /\ tx'.aborted = FALSE /\ tx'.live = live
         /\ tx'.at = IF Kind(r) \in {"on", "off"} THEN "mark" ELSE "write"
         /\ Bears(tx'.cand, latest', req) /\ Redeems(tx'.cand, acked') /\ Recalls(tx'.cand, disk, req)
         /\ tx'.cand.subj[u].out[r] # "none"
         /\ NamedByNewest(tx'.journal, latest', req)
         /\ \A v \in Users : /\ acked'[v]["choice"] = "on" => ~Marked(tx'.journal, v)
                             /\ tx'.cand.subj[v].pending => v = u /\ Kind(r) = "on"
                             /\ live.subj[v].pending => ~tx'.cand.subj[v].on
<1>1. /\ Types /\ Free /\ req[r].at = "queued" /\ ~Known(r) /\ Permitted(r) /\ NewChange(r)
      /\ marker \in Journals
  BY DEF StartFresh, IInv, Types
<1>2. HistoryIsTyped /\ NewestIsAsked /\ StoresAreTrue BY DEF AInv
<1>3. PICK source, e : source = Source(r) /\ e = Apply(r, source) OBVIOUS
<1>4. /\ Bears(e, latest', req) /\ Redeems(e, acked') /\ Recalls(e, disk, req)
      /\ e.subj[u].out[r] = "open"
      /\ \A v \in Users : /\ e.subj[v].pending => disk.subj[v].pending
                          /\ v # u => (e.subj[v].on => disk.subj[v].on)
  BY <1>1, <1>3, FreshIs
<1>5. e \in Documents BY <1>1, <1>3, AppliedIs DEF IInv, RequestIsDated
<1>6. PICK w : w = Mark(r, e) OBVIOUS
<1>7. w \in Marks /\ w.by = r /\ w # NoMark BY <1>5, <1>6, MarkIs
<1>8. PICK journal :
        journal = CASE Kind(r) = "off" -> AddWithdrawal(marker, u, w)
                    [] Kind(r) = "on" -> [marker EXCEPT !.on[u] = w]
                    [] OTHER -> marker
  OBVIOUS
<1>9. PICK cand :
        cand = CASE Kind(r) = "off" -> FoldDenials(e, journal)
                 [] Kind(r) = "on" -> [e EXCEPT !.subj[u].pending = TRUE]
                 [] OTHER -> e
  OBVIOUS
<1>10. tx' = [Idle EXCEPT !.at = IF Kind(r) \in {"on", "off"} THEN "mark" ELSE "write", !.by = r,
                          !.cand = cand, !.live = live, !.base = base, !.journal = journal, !.mark = w]
  BY <1>3, <1>6, <1>8, <1>9 DEF StartFresh, Prepared
<1>11. /\ tx'.by = r /\ tx'.replay = FALSE /\ tx'.aborted = FALSE /\ tx'.live = live
       /\ tx'.at = IF Kind(r) \in {"on", "off"} THEN "mark" ELSE "write"
       /\ tx'.cand = cand /\ tx'.journal = journal
  BY <1>10 DEF Idle
<1>12. req[r].kind \in {"on", "off", "remember", "confirm", "forget"} /\ req[r].at # "new"
  BY <1>1, RequestIs DEF IInv, Requested
<1>13. PICK field \in Fields : field = ChoiceField(r) BY DEF ChoiceField, Fields
<1>14. /\ Fewer(acked', acked) /\ acked'[u][field] = "none" /\ (Kind(r) # "confirm" => latest'[u][field] = r)
       /\ \A v \in Users, f \in Fields, q \in Requests :
            latest'[v][f] = q => latest[v][f] = q \/ (v = u /\ f = field /\ q = r /\ Kind(r) # "confirm")
  BY <1>1, <1>2, <1>12, <1>13, NewChangeIs
<1>15. "choice" \in Fields /\ (Kind(r) \in {"on", "off"} => field = "choice")
  BY <1>13 DEF Fields, ChoiceField
<1>16. CASE Kind(r) = "off"
  <2>1. journal = AddWithdrawal(marker, u, w) /\ cand = FoldDenials(e, journal) BY <1>8, <1>9, <1>16
  <2>2. /\ journal \in Journals /\ journal.on = marker.on /\ journal.off[u].by = r
        /\ \A v \in Users \ {u} : journal.off[v] = marker.off[v]
    BY <1>1, <1>7, <2>1, AddIs
  <2>3. Marked(journal, u) BY <2>2, MarkIsNot, JournalIs DEF Marked
  <2>4. JournalDated(journal)
    <3>1. MarkDated(w) BY <1>7, <1>12, <1>16 DEF MarkDated, Past, Kind
    <3> QED BY <1>1, <1>7, <2>1, <3>1, AddIsDated DEF IInv, EverythingIsDated
  <2>5. Folds(cand, e, journal, req) BY <1>1, <1>5, <2>1, <2>2, FoldDoes
  <2>6. cand \in Documents
    <3>1. PICK n \in Nat : Covers(n, marker) BY DEF IInv, WithdrawalsAreKept
    <3>2. w.epoch \in Nat BY <1>7 DEF Marks
    <3>3. PICK l \in Nat : w.epoch <= l /\ n <= l BY <3>2, LargerIs
    <3>4. Covers(l, journal) BY <1>1, <1>7, <2>1, <3>1, <3>3, AddIs
    <3> QED BY <1>1, <1>5, <2>1, <2>2, <3>4, FoldIs
  <2>7. NamedByNewest(journal, latest', req)
    <3> SUFFICES ASSUME NEW v \in Users, NEW q \in Requests, latest'[v]["choice"] = q, req[q].kind = "on"
                 PROVE  Names(journal, v, q)
      BY DEF NamedByNewest
    <3>1. q # r BY <1>16 DEF Kind
    <3>2. v # u /\ latest[v]["choice"] = q BY <1>14, <1>15, <1>16, <3>1
    <3>3. Names(marker, v, q) BY <1>2, <3>2 DEF StoresAreTrue, NamedByNewest
    <3> QED BY <2>2, <3>2, <3>3 DEF Names
  <2>8. ASSUME NEW v \in Users, acked'[v]["choice"] = "on" PROVE ~Marked(journal, v)
    <3>1. v # u /\ acked[v]["choice"] = "on" BY <1>14, <1>15, <1>16, <2>8 DEF Fewer
    <3>2. ~Marked(marker, v) BY <1>2, <3>1 DEF StoresAreTrue
    <3> QED BY <2>2, <3>1, <3>2 DEF Marked
  <2>9. Bears(cand, latest', req) BY <1>4, <2>5, <2>6, <2>7, FoldsBear
  <2>10. Redeems(cand, acked') BY <1>4, <2>5, <2>8, FoldsRedeem
  <2>11. Recalls(cand, disk, req)
    <3>1. Recalls(cand, e, req) BY <2>4, <2>5, FoldsRecall
    <3> QED BY <1>4, <3>1, Recalling
  <2>12. cand.subj[u].out[r] # "none" BY <1>4, <1>16, <2>5 DEF Folds, Kind
  <2>13. ASSUME NEW v \in Users
         PROVE  ~cand.subj[v].pending /\ (live.subj[v].pending => ~cand.subj[v].on)
    <3>1. /\ cand.subj[v].pending => e.subj[v].pending /\ ~Marked(journal, v)
          /\ cand.subj[v].on => e.subj[v].on /\ ~Marked(journal, v)
      BY <2>5 DEF Folds
    <3>2. disk.subj[v].pending => Marked(journal, v) BY <1>2, <2>2 DEF StoresAreTrue, Marked
    <3>3. live.subj[v].pending /\ disk.subj[v].on => disk.subj[v].pending BY <1>2 DEF StoresAreTrue
    <3>4. cand.subj[v].on => disk.subj[v].on BY <1>4, <2>3, <3>1
    <3> QED BY <1>4, <3>1, <3>2, <3>3, <3>4
  <2> QED BY <1>11, <2>7, <2>8, <2>9, <2>10, <2>11, <2>12, <2>13
<1>17. ASSUME Kind(r) # "off"
       PROVE  \A v \in Users : /\ marker.off[v] = NoMark /\ marker.on[v] = NoMark
                               /\ ~disk.subj[v].pending /\ ~live.subj[v].pending
  <2>1. IsEmpty(marker) /\ base = disk BY <1>1, <1>17 DEF Permitted, Behind, Current
  <2>2. \A v \in Users : marker.off[v] = NoMark /\ marker.on[v] = NoMark BY <2>1 DEF IsEmpty, Entries
  <2> QED BY <2>1, <2>2, NothingIsPending
<1>18. CASE Kind(r) = "on"
  <2>1. journal = [marker EXCEPT !.on[u] = w] /\ cand = Pending(e, u) BY <1>8, <1>9, <1>18 DEF Pending
  <2>2. /\ journal.off = marker.off /\ journal.on[u] = w
        /\ \A v \in Users \ {u} : journal.on[v] = marker.on[v]
    <3>1. marker.off \in [Users -> Marks] /\ marker.on \in [Users -> Marks]
          /\ marker = [off |-> marker.off, on |-> marker.on]
      BY <1>1 DEF Journals
    <3>2. PICK on : on = [marker.on EXCEPT ![u] = w] OBVIOUS
    <3>3. journal = [off |-> marker.off, on |-> on] BY <2>1, <3>1, <3>2
    <3>4. on[u] = w /\ \A v \in Users \ {u} : on[v] = marker.on[v] BY <3>1, <3>2
    <3> QED BY <3>3, <3>4
  <2>3. /\ cand.facts = e.facts
        /\ \A v \in Users : cand.subj[v].on = e.subj[v].on /\ cand.subj[v].out = e.subj[v].out
        /\ \A v \in Users \ {u} : cand.subj[v] = e.subj[v]
    BY <1>5, <2>1, PendingDoes
  <2>4. \A v \in Users : v # u => journal.off[v] = NoMark /\ journal.on[v] = NoMark BY <1>17, <1>18, <2>2
  <2>5. journal.off[u] = NoMark /\ journal.on[u].by = r BY <1>7, <1>17, <1>18, <2>2
  <2>6. acked'[u]["choice"] = "none" /\ latest'[u]["choice"] = r BY <1>14, <1>15, <1>18
  <2>7. NamedByNewest(journal, latest', req) BY <2>4, <2>5, <2>6 DEF NamedByNewest, Names, By
  <2>8. \A v \in Users : acked'[v]["choice"] = "on" => ~Marked(journal, v)
    BY <2>4, <2>6 DEF Marked
  <2>9. Bears(cand, latest', req) BY <1>4, <2>3 DEF Bears
  <2>10. Redeems(cand, acked')
    <3> SUFFICES ASSUME NEW v \in Users
                 PROVE  /\ acked'[v]["choice"] = "on" => cand.subj[v].on /\ ~cand.subj[v].pending
                        /\ acked'[v]["choice"] = "off" => ~cand.subj[v].on
                        /\ acked'[v]["fact"] = "remember" => v \in cand.facts
                        /\ acked'[v]["fact"] = "forget" => v \notin cand.facts
      BY DEF Redeems
    <3>1. CASE v = u BY <1>4, <2>3, <2>6, <3>1 DEF Redeems
    <3>2. CASE v # u BY <1>4, <2>3, <3>2 DEF Redeems
    <3> QED BY <3>1, <3>2
  <2>11. Recalls(cand, disk, req) BY <1>4, <2>3 DEF Recalls
  <2>12. cand.subj[u].out[r] # "none" BY <1>4, <2>3
  <2>13. \A v \in Users : /\ cand.subj[v].pending => v = u
                          /\ live.subj[v].pending => ~cand.subj[v].on
    BY <1>4, <1>17, <1>18, <2>3
  <2> QED BY <1>11, <1>18, <2>7, <2>8, <2>9, <2>10, <2>11, <2>12, <2>13
<1>19. CASE Kind(r) \notin {"on", "off"}
  <2>1. journal = marker /\ cand = e BY <1>8, <1>9, <1>19
  <2>2. \A v \in Users : /\ journal.off[v] = NoMark /\ journal.on[v] = NoMark
                         /\ ~cand.subj[v].pending /\ ~live.subj[v].pending
    BY <1>4, <1>17, <1>19, <2>1
  <2>3. NamedByNewest(journal, latest', req) BY <2>2 DEF NamedByNewest, Names, By
  <2>4. \A v \in Users : ~Marked(journal, v) BY <2>2 DEF Marked
  <2>5. cand.subj[u].out[r] # "none" BY <1>4, <2>1
  <2> QED BY <1>4, <1>11, <2>1, <2>2, <2>3, <2>4, <2>5
<1> QED BY <1>16, <1>18, <1>19

\* A fresh change.
LEMMA StartFreshIsTrue ==
  ASSUME IInv, IInv', AInv, Keeps, NEW r \in Requests, StartFresh(r)
  PROVE  AInv'
<1>1. /\ Free /\ req[r].at = "queued" /\ ~Known(r) /\ Permitted(r) /\ NewChange(r)
      /\ UNCHANGED <<live, base, publication, disk, marker, boot, snap>>
  BY DEF StartFresh, memory, files
<1>2. PICK u \in Users : u = Member(r) BY <1>1 DEF IInv, RequestIsDated, Member
<1>3. StoresAreTrue' /\ PublicationIsTrue' BY <1>1, <1>2, NewChangeStands
<1>4. HistoryIsTyped /\ NewestIsAsked BY DEF AInv
<1>5. req[r].kind \in {"on", "off", "remember", "confirm", "forget"} /\ req[r].at # "new"
  BY <1>1, RequestIs DEF IInv, Requested
<1>6. PICK field \in Fields : field = ChoiceField(r) BY DEF ChoiceField, Fields
<1>7. /\ HistoryIsTyped' /\ NewestIsAsked' /\ acked'[u][field] = "none"
      /\ Kind(r) # "confirm" => latest'[u][field] = r
  BY <1>1, <1>2, <1>4, <1>5, <1>6, NewChangeIs
<1>8. PICK c, k : c = tx'.cand /\ k = tx'.journal OBVIOUS
<1>9. /\ tx'.by = r /\ tx'.replay = FALSE /\ tx'.aborted = FALSE /\ tx'.live = live
      /\ tx'.at = IF Kind(r) \in {"on", "off"} THEN "mark" ELSE "write"
      /\ Bears(c, latest', req) /\ Redeems(c, acked') /\ Recalls(c, disk, req)
      /\ c.subj[u].out[r] # "none"
      /\ NamedByNewest(k, latest', req)
      /\ \A v \in Users : /\ acked'[v]["choice"] = "on" => ~Marked(k, v)
                          /\ c.subj[v].pending => v = u /\ Kind(r) = "on"
                          /\ live.subj[v].pending => ~c.subj[v].on
  BY <1>2, <1>8, PreparedIsTrue
<1>10. \A q \in Requests : req'[q].kind = req[q].kind
  <2>1. Settled(r, "running") BY DEF StartFresh
  <2> QED BY <2>1, SettledIs DEF IInv
<1>11. Bears(c, latest', req') /\ NamedByNewest(k, latest', req') BY <1>9, <1>10 DEF Bears, NamedByNewest
<1>12. Recalls(c, disk, req') BY <1>9, RecallsStay
<1>13. Member(tx.by)' = u /\ Kind(tx.by)' = Kind(r) /\ ChoiceField(tx.by)' = field
  BY <1>2, <1>5, <1>6, <1>9 DEF Keeps, Member, Kind, ChoiceField
<1>14. Kind(r) \in {"on", "off"} => field = "choice" BY <1>6 DEF ChoiceField
<1>15. ChangeIsUnderWay'
  <2>1. tx'.at # "finish" BY <1>9
  <2>2. Kind(r) \in {"on", "off"} => latest'[u]["choice"] = r BY <1>7, <1>14
  <2> QED BY <1>7, <1>8, <1>9, <1>11, <1>13, <2>1, <2>2 DEF ChangeIsUnderWay
<1>16. CandidateIsTrue'
  <2>1. \A v \in Users : c.subj[v].pending => Activates(v)' /\ tx'.at \in {"mark", "write", "project"}
    BY <1>9, <1>13 DEF Activates, Activation
  <2> QED BY <1>1, <1>8, <1>9, <1>11, <1>12, <1>13, <2>1 DEF CandidateIsTrue
<1>17. MemoryIsAwaited'
  <2>1. Recalls(live, live, req') BY Recalling
  <2> QED BY <1>1, <1>8, <1>9, <2>1 DEF MemoryIsAwaited
<1>18. SnapshotIsTrue' BY <1>1 DEF SnapshotIsTrue, Free
<1> QED BY <1>3, <1>7, <1>15, <1>16, <1>17, <1>18 DEF AInv

-----------------------------------------------------------------------------

\* What is only asked, answered or shown.
LEMMA OnlyAnswers ==
  ASSUME NEW r \in Requests,
         \/ \E u \in Users, k \in Kinds : Ask(r, u, k)
         \/ AdmitKnown(r) \/ AdmitOther(r) \/ Retry(r) \/ RefuseFresh(r)
  PROVE  UNCHANGED <<live, base, publication, disk, marker, boot, tx, snap, acked, latest>>
<1>1. ASSUME NEW u \in Users, NEW k \in Kinds, Ask(r, u, k)
      PROVE  UNCHANGED <<live, base, publication, disk, marker, boot, tx, snap, acked, latest>>
  BY <1>1 DEF Ask, memory, files, history
<1>2. CASE AdmitKnown(r) BY <1>2 DEF AdmitKnown, memory, files, history
<1>3. CASE AdmitOther(r) BY <1>3 DEF AdmitOther, memory, files, history
<1>4. CASE Retry(r) BY <1>4 DEF Retry, memory, files, history
<1>5. CASE RefuseFresh(r) BY <1>5 DEF RefuseFresh, Refused, memory, files, history
<1> QED BY <1>1, <1>2, <1>3, <1>4, <1>5

\* Every step keeps what confirmed changes rest on.
LEMMA StepIsTrue == IInv /\ IInv' /\ AInv /\ [Next]_vars => AInv'
<1> SUFFICES ASSUME IInv, IInv', AInv, [Next]_vars PROVE AInv' OBVIOUS
<1> Keeps BY RequestsKeep
<1>1. ASSUME NEW r \in Requests, Start(r) PROVE AInv'
  <2>1. CASE StartReplay(r) BY <2>1, StartReplayIsTrue
  <2>2. CASE StartFresh(r) BY <2>2, StartFreshIsTrue
  <2>3. CASE StartMark(r) BY <2>3, StartMarkIsTrue
  <2>4. CASE RefuseFresh(r) BY <2>4, OnlyAnswers, AnswersAreTrue
  <2> QED BY <1>1, <2>1, <2>2, <2>3, <2>4 DEF Start
<1>2. ASSUME NEW r \in Requests,
             \/ \E u \in Users, k \in Kinds : Ask(r, u, k)
             \/ AdmitKnown(r) \/ AdmitOther(r) \/ Retry(r)
      PROVE  AInv'
  BY <1>2, OnlyAnswers, AnswersAreTrue
<1>3. ASSUME NEW r \in Requests, AdmitWithdrawal(r) PROVE AInv' BY <1>3, WithdrawalIsTrue
<1>4. CASE Step
  <2>1. CASE PublishMark \/ PublishMarkOnly \/ MarkFails BY <2>1, PublishMarkIsTrue
  <2>2. CASE WriteCandidate BY <2>2, WriteCandidateIsTrue
  <2>3. CASE WriteFails \/ ProjectFails BY <2>3, StepFailsIsTrue
  <2>4. CASE Project BY <2>4, ProjectIsTrue
  <2>5. CASE Check BY <2>5, CheckIsTrue
  <2>6. CASE Retire BY <2>6, RetireIsTrue
  <2>7. CASE RetireFails BY <2>7, RetireFailsIsTrue
  <2>8. CASE Install BY <2>8, InstallIsTrue
  <2>9. CASE Finish BY <2>9, FinishIsTrue
  <2>10. CASE Deny \/ DenyFails BY <2>10, DenyIsTrue
  <2> QED BY <1>4, <2>1, <2>2, <2>3, <2>4, <2>5, <2>6, <2>7, <2>8, <2>9, <2>10 DEF Step
<1>5. ASSUME NEW u \in Users, Learn(u) \/ Unlearn(u) PROVE AInv' BY <1>5, EditIsTrue
<1>6. CASE TakeSnapshot BY <1>6, TakeSnapshotIsTrue
<1>7. CASE WriteSnapshot \/ SnapshotFails BY <1>7, SnapshotWritten
<1>8. ASSUME NEW t \in Turns, \/ Deliver(t)
                              \/ \E u \in Users : Capture(t, u)
      PROVE  AInv'
  <2>1. UNCHANGED <<live, base, publication, disk, marker, boot, tx, snap, acked, latest>>
    BY <1>8 DEF Deliver, Capture, memory, files, history
  <2> QED BY <2>1, AnswersAreTrue
<1>9. CASE Crash BY <1>9, CrashIsTrue
<1>10. CASE Recover BY <1>10, RecoveryIsTrue
<1>11. CASE UNCHANGED vars
  <2>1. UNCHANGED <<live, base, publication, disk, marker, boot, tx, snap, acked, latest>>
    BY <1>11 DEF vars, memory, files, history
  <2> QED BY <2>1, AnswersAreTrue
<1> QED BY <1>1, <1>2, <1>3, <1>4, <1>5, <1>6, <1>7, <1>8, <1>9, <1>10, <1>11 DEF Next

\* AckedHolds: what a confirmed change promised is what a restart would load, whatever
\* failed or was under way since, until the member's next change (recover_owned over
\* the document and the journal as they are).
THEOREM ConfirmedHolds == Spec => []AckedHolds
<1>1. Init => AInv BY InitIsTrue
<1>2. IInv /\ IInv' /\ AInv /\ [Next]_vars => AInv' BY StepIsTrue
<1>3. ASSUME IInv, AInv PROVE AckedHolds
  <2>1. PICK d : d = Recovered(disk, marker) OBVIOUS
  <2>2. Redeems(d, acked) BY <1>3, <2>1, RestartIs
  <2> QED BY <2>1, <2>2 DEF AckedHolds, Redeems
<1>4. IInv /\ AInv => AckedHolds BY <1>3
<1> QED BY <1>1, <1>2, <1>4, MemoryIsSound, PTL DEF Spec
=============================================================================
