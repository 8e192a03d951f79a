----------------------------- MODULE MCLifecycle ----------------------------
(* A few calls of start and setMode, any number of stops.                  *)
EXTENDS Lifecycle, TLC

CONSTANTS s1, s2, m1, r1
=============================================================================
