------------------------------ MODULE DualDHT ------------------------------
(***************************************************************************)
(* The dual DHT: an operation on the LAN and on the WAN DHT side by side,  *)
(* and the verdict its caller gets: events only, an error, or the error of *)
(* one of the two.                                                         *)
(***************************************************************************)
EXTENDS Lookup, Refresh

CONSTANTS Lan   \* the DHT that takes part in every operation

VARIABLE verdict   \* "none" for good if the caller leaves its loop; the generators go on

dualVars == <<lookupVars, verdict>>
vars == <<dualVars, refreshVars>>

Uses(d) == walk[d].stage # "unused"
Over == \A d \in Dhts : walk[d].stage \in {"unused", "ended"}

\* Either the caller has called an operation that looks something up: provide leaves
\* out the WAN DHT in client mode, the others are done by both.  Distances are all that
\* matters of the ids, so ours may be any.
LookupCalled ==
  /\ operation # "refreshRoutingTable"
  /\ \A d \in Dhts : operation # "provide" \/ d = Lan => Uses(d)
  /\ RefreshInit /\ localId = [n \in Bits |-> FALSE]

\* Or it may refresh the routing tables; what becomes of one of them is in Refresh.
RefreshCalled ==
  /\ operation = "refreshRoutingTable"
  /\ \A d \in Dhts : ~Uses(d) /\ table[d] = {}
  /\ known = FALSE
  /\ RefreshInit

DualInit ==
  /\ LookupInit /\ verdict = "none"
  /\ LookupCalled \/ RefreshCalled

\* The end of the loop over the merged events of an operation.
Put == operation = "put" /\ verdict' = "ok"
GetClosestPeers == operation = "getClosestPeers" /\ verdict' = "ok"
FindProviders == operation = "findProviders" /\ verdict' = "ok"

Get ==
  LET queriedPeers == events \cap {"DIALING_PEER", "SENDING_QUERY", "VALUE"} # {}
      foundValue == "VALUE" \in events
  IN /\ operation = "get"
     /\ verdict' = IF ~queriedPeers THEN "no peers"
                   ELSE IF ~foundValue THEN "not found" ELSE "ok"

Mut_Provide ==
  LET success == events \cap {"ADD_PROVIDER response", "FIND_NODE response"} # {}
  IN /\ operation = "provide"
     /\ verdict' = IF success THEN "ok" ELSE "failed"
Provide ==
  LET success == "ADD_PROVIDER response" \in events
  IN /\ operation = "provide"
     /\ verdict' = IF success THEN "ok" ELSE "failed"

FindPeer ==
  LET queriedPeers == events \cap {"SENDING_QUERY", "FINAL_PEER"} # {}
  IN /\ operation = "findPeer"
     /\ verdict' = IF queriedPeers THEN "ok" ELSE "lookup failed"

\* The merge ends when both generators have, and throws when one does.
Ends ==
  /\ verdict = "none" /\ Over
  /\ Put \/ Get \/ Provide \/ FindProviders \/ FindPeer \/ GetClosestPeers
  /\ UNCHANGED lookupVars

Throws ==
  /\ verdict = "none" /\ \E d \in Dhts : walk[d].stage = "threw"
  /\ verdict' = "threw"
  /\ UNCHANGED lookupVars

Serve ==
  /\ operation # "refreshRoutingTable"
  /\ Ends \/ Throws \/ (LookupNext /\ UNCHANGED verdict)
  /\ UNCHANGED refreshVars

RefreshRoutingTable ==
  /\ operation = "refreshRoutingTable"
  /\ RefreshNext /\ UNCHANGED dualVars

DualNext == Serve \/ RefreshRoutingTable

DualSpec == DualInit /\ [][DualNext]_vars /\ RefreshFairness

-----------------------------------------------------------------------------
(* Safety.                                                                 *)

Sent == operation \in {"put", "provide"}

\* However the events of the two DHTs mix, and whichever of them fails: the caller of
\* provide is told of a failure only if no peer has taken the record, and of no
\* failure only if one has; the caller of get learns that there are no peers only if
\* nobody was asked, and that there is no value only if none was found; and findPeer
\* fails only if nobody was asked either (dual-kad-dht.ts:111-226).
VerdictIsTrue ==
  LET took == UNION {walk[d].took : d \in Dhts}
      asked == UNION {walk[d].asked : d \in Dhts}
      found == \E d \in Dhts : walk[d].found
  IN /\ operation = "provide" => /\ verdict = "failed" => took = {}
                                 /\ verdict = "ok" => took # {}
     /\ verdict = "no peers" => asked = {} /\ ~found
     /\ verdict = "not found" => asked # {} /\ ~found
     /\ operation = "get" /\ verdict = "ok" => found
     /\ verdict = "lookup failed" => asked = {} /\ ~found

\* Of the peers that the table and the responses named to put, provide and
\* getClosestPeers, none that is left out of the list is nearer than one in it, and the
\* list is full by then.  It may hold a peer twice, in place of another
\* (peer-distance-list.ts:50-91, peer-routing/index.ts:218-254).
NearestAreKept ==
  \A d \in Dhts :
    LET list == walk[d].list
        out == walk[d].heard \ ToSet(list)
    IN /\ InOrder(list) /\ ToSet(list) \subseteq walk[d].heard
       /\ out # {} => Len(list) = K /\ ~AnyCloser(list, out)

\* Once put or provide is done with a DHT, each peer of the list has been sent the
\* record, whatever became of the messages to the others, and whether or not the
\* caller still listens (content-routing/index.ts:76-119, content-fetching/index.ts:151-189).
AllNearestTold ==
  \A d \in Dhts : Sent /\ walk[d].stage = "ended" => walk[d].told = ToSet(walk[d].list)

\* findProviders yields every provider it learns of before it ends, and none of them
\* twice, however often responses name them (content-routing/index.ts:135-192).
ProvidersYieldedOnce ==
  \A d \in Dhts, x \in Providers :
    walk[d].reports[x] = (IF x \in walk[d].provs THEN 1 ELSE 0)

-----------------------------------------------------------------------------
(* What the comments of the code say, and the code does not do.            *)

\* content-routing/index.ts:125 "Search the dht for up to `K` providers of the given
\* CID": a response may carry the set past K, and then the walk does not even stop.
UpToKProviders == \A d \in Dhts : Cardinality(walk[d].provs) <= K

\* The list of getClosestPeers has room for K peers, and a response that names one
\* twice has it twice (peer-distance-list.ts:51).
ListsEachOnce == \A d \in Dhts : Cardinality(ToSet(walk[d].list)) = Len(walk[d].list)

\* dual-kad-dht.ts:206 "Search for a peer with the given ID": if only one of the DHTs
\* finds the peer, the caller sees it and an error that says it was not found.
FoundMeansNoError ==
  verdict = "ok" /\ operation = "findPeer" /\ (\E d \in Dhts : walk[d].found)
    => \A d \in Dhts : walk[d].found
=============================================================================
