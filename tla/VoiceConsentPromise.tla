------------------------ MODULE VoiceConsentPromise ------------------------
(***************************************************************************)
(* What the consent store promises the rest of the voice subsystem, with   *)
(* no disk, no revisions and no threads: a member's agreement may be relied *)
(* on only while it is the member's latest choice and nothing newer is      *)
(* being written, a withdrawal becomes binding at some moment before its     *)
(* member is told it is saved, and from that moment on a restart may forget *)
(* choices but never brings back the agreement it ended.                    *)
(* VoiceConsentStore implements it; VoiceCall builds on it.                 *)
(***************************************************************************)
EXTENDS Naturals

CONSTANTS
  Users,      \* the members of the one configured voice guild
  MaxEvent    \* bound: Discord event ids are 1..MaxEvent

VARIABLES
  choices,    \* the desired ledger: latest choice of each member
  usable,     \* members whose agreement authorises audio now
  withdrawn   \* per member, the latest event whose withdrawal is binding

vars == <<choices, usable, withdrawn>>

Events == 0..MaxEvent

\* last: event of the latest accepted choice; grant: event of the live receipt, 0 if none
Choice == [last : Events, grant : Events]
Ledger == [Users -> Choice]
NoChoices == [u \in Users |-> [last |-> 0, grant |-> 0]]

Granted(l) == {u \in Users : l[u].grant # 0}

\* A receipt of u in ledger l is newer than every binding withdrawal of u.
Honours(l) == \A u \in Granted(l) : l[u].grant > withdrawn[u]

Init ==
  /\ choices = NoChoices
  /\ usable = {}
  /\ withdrawn = [u \in Users |-> 0]

\* A newer choice of u supersedes the older; nothing is usable until it is saved.
Decide(u, e, agree) ==
  /\ e > choices[u].last
  /\ agree => e > withdrawn[u]   \* Discord ids grow: also after choices were forgotten
  /\ choices' = [choices EXCEPT ![u] = [last |-> e, grant |-> IF agree THEN e ELSE 0]]
  /\ usable' = {}
  /\ UNCHANGED withdrawn

\* The whole desired ledger became durable.
Settle ==
  /\ usable' = Granted(choices)
  /\ UNCHANGED <<choices, withdrawn>>

\* Withdrawals already made become binding.
Bind ==
  /\ withdrawn' \in [Users -> Events]
  /\ \A u \in Users : withdrawn'[u] >= withdrawn[u]
  /\ UNCHANGED <<choices, usable>>
  /\ Honours(choices)'

\* Storage failed: deny everything.
Fail ==
  /\ usable' = {}
  /\ UNCHANGED <<choices, withdrawn>>

\* A restart finds some ledger that honours the binding withdrawals, or none.
Restart ==
  /\ choices' \in {l \in Ledger : Honours(l)}
  /\ usable' \in {{}, Granted(choices')}
  /\ UNCHANGED withdrawn

Next ==
  \/ \E u \in Users, e \in Events, agree \in BOOLEAN : Decide(u, e, agree)
  \/ Settle
  \/ Bind
  \/ Fail
  \/ Restart

Spec == Init /\ [][Next]_vars

-----------------------------------------------------------------------------
\* What the promise means: a usable agreement is its member's live receipt and
\* is newer than every binding withdrawal (Ledger::agrees after any restart).
OnlyLiveAgreements ==
  /\ usable \subseteq Granted(choices)
  /\ Honours(choices)
=============================================================================
