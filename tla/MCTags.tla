------------------------------- MODULE MCTags ------------------------------
(* The tables of the LAN and the WAN DHT, and two peers of which one can   *)
(* be close.                                                               *)
EXTENDS Tags, TLC

CONSTANTS lan, wan, a, b

MCDist == (a :> 1) @@ (b :> 2)
=============================================================================
