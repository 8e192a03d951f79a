---------------------------- MODULE MCProviders ----------------------------
(* The managers of the LAN and the WAN DHT with one entry to share.        *)
EXTENDS Providers

CONSTANTS lan, wan, c1, p1
=============================================================================
