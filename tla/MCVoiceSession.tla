--------------------------- MODULE MCVoiceSession ---------------------------
(* VoiceSession on a small instance. *)
EXTENDS VoiceSession, TLC

Symmetry == Permutations(Users)
=============================================================================
