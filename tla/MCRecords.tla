----------------------------- MODULE MCRecords -----------------------------
(* Three nodes; two of them put, one of these two values that no node      *)
(* accepts, and one of them gets.                                          *)
EXTENDS Records, TLC

CONSTANTS n1, n2, n3, p1, p2, g1

MCNodeOf == (p1 :> n1) @@ (p2 :> n2) @@ (g1 :> n2)

\* 3 is not valid.
MCValuesOf == (p1 :> {2}) @@ (p2 :> {1, 3})
=============================================================================
