---------------------------- MODULE MCWorkDelivery ----------------------------
(* Instances of WorkDelivery for TLC: days of three hours. *)
EXTENDS WorkDelivery, TLC

Morning == [quiet_start |-> 2, quiet_end |-> 0, briefing_hour |-> 1, daily_limit |-> 2]
\* The briefing hour lies in the quiet hours and is served the next morning.
Evening == [quiet_start |-> 2, quiet_end |-> 1, briefing_hour |-> 2, daily_limit |-> 1]

MorningOnly == {Morning}
EitherTerms == {Morning, Evening}

=============================================================================
