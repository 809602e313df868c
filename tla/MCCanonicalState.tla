-------------------------- MODULE MCCanonicalState --------------------------
(* CanonicalState for TLC: the instance is in the .cfg, without symmetry,    *)
(* since the run checks liveness too.                                        *)
EXTENDS CanonicalState, TLC
=============================================================================
