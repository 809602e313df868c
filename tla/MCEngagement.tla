---------------------------- MODULE MCEngagement ----------------------------
EXTENDS Engagement, TLC
Plain == [daily_limit |-> 1, offset |-> 0, quiet_start |-> 0, quiet_end |-> 0]
Eastern == [daily_limit |-> 1, offset |-> 1, quiet_start |-> 0, quiet_end |-> 1]
OneTerms == {Plain}
TwoTerms == {Plain, Eastern}
Bound(changes, events, messages, until, pairs) ==
  [changes |-> changes, events |-> events, messages |-> messages, now |-> until, pairs |-> pairs]
Instances == {
  Bound({"edit", "approve", "withdraw", "stop", "resume", "community"}, 4, 0, 1, {Members}),
  Bound({"create", "edit", "approve", "erase"}, 5, 0, 2, {}),
  Bound({"create", "edit", "approve", "erase"}, 5, 0, 2, {Members}),
  Bound({"stop", "snooze", "dismiss", "delete", "community", "erase"}, 2, 1, 4, {}),
  Bound({"configure", "erase"}, 2, 1, 4, {Members}),
  Bound({"delete", "erase"}, 1, 2, 3, {})}
BothMembers == {Members}
Swapped == Permutations(Members)
=============================================================================
