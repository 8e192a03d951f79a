--------------------------- MODULE MCRoutingTable --------------------------
(* Three peers that want the same bucket.                                  *)
EXTENDS RoutingTable, TLC

CONSTANTS a, b, c

MCBucketOf == (a :> 1) @@ (b :> 1) @@ (c :> 1)
=============================================================================
