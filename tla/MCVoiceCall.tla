---------------------------- MODULE MCVoiceCall ----------------------------
(* VoiceCall on small instances: how its runs are bounded, and the rooms and *)
(* modes they start from.                                                    *)
EXTENDS VoiceCall, TLC

\* One start while the consents, the leave and the actors of calls move.
ConsentBound ==
  [ kinds |-> {"start", "leave", "withdraw", "agree", "spoken", "poison"},
    events |-> 2, upgrades |-> {}, reports |-> {"thinking"} ]

\* A start by command or by upgrade while the gateway reports what happens in
\* the channel, the mode is switched, or the service drains.
GatewayBound ==
  [ kinds |-> {"start", "mode", "enter", "exit", "leave", "drain", "withdraw", "bot",
               "fail"},
    events |-> 3, upgrades |-> {CHOOSE a \in Attempts : TRUE}, reports |-> {"speaking"} ]

\* One call, everything that can happen to it.
LiveBound ==
  [ kinds |-> {"start", "leave", "withdraw", "agree", "exit", "enter", "bot", "permission",
               "fail", "spoken", "refuse", "drain"},
    events |-> 2, upgrades |-> {}, reports |-> {"thinking"} ]

CallBounds == {ConsentBound, GatewayBound}
LiveBounds == {LiveBound}

\* Everybody has agreed, so the first start can open the gate.
AgreedRoom == Init /\ agreed = Users

\* Somebody waits in the channel and local mode is selected.
LocalRoom == AgreedRoom /\ mode = "local" /\ present # {}

\* As LocalRoom, and a member who is not in the channel may choose too.
ConsentRoom == LocalRoom /\ present # Users

CallRoom == AgreedRoom /\ (events.bound = ConsentBound => ConsentRoom)

CallSpec == CallRoom /\ [][Next]_vars
LiveSpec == LocalRoom /\ [][Next]_vars /\ Fairness

Symmetry == Permutations(Users)
=============================================================================
