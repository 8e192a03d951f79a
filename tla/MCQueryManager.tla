--------------------------- MODULE MCQueryManager --------------------------
(* Two managers, as in the dual DHT, and three runs.                       *)
EXTENDS QueryManager, TLC

CONSTANTS lan, wan, r1, r2, r3, o1, o2

\* r1 and r2 are the two halves of one call of the dual DHT and share its options
\* object; r3 is a later call, with a signal of its caller.
MCManagerOf == (r1 :> lan) @@ (r2 :> wan) @@ (r3 :> lan)
MCOptionsOf == (r1 :> o1) @@ (r2 :> o1) @@ (r3 :> o2)
=============================================================================
