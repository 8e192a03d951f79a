------------------------------- MODULE Lookup ------------------------------
(***************************************************************************)
(* One operation as the LAN and the WAN DHT each carry it out: the         *)
(* generators of PeerRouting, ContentRouting and ContentFetching, which    *)
(* look for local answers, walk, and then deal with what the walk found.   *)
(*                                                                         *)
(* A walk is a run of module Query, here without its jobs and paths: peers *)
(* wait to be asked, each answer adds the nearer ones it names, and the    *)
(* walk ends when none waits, or when it is aborted, at any time and with  *)
(* or without an error.  A request is one step.                            *)
(*                                                                         *)
(* it-merge drains the generators of both DHTs whatever their caller does, *)
(* so the events that have come out are kept as a set of their kinds.      *)
(***************************************************************************)
EXTENDS PeerList

CONSTANTS
  Dhts,       \* the two DHTs
  Self,       \* our own peer id
  Target,     \* the peer that findPeer looks for
  Alpha,      \* ALPHA, the messages of put and provide that are sent at a time
  Tables,     \* the contacts a routing table may hold
  Closer,     \* the lists of closer peers of a response
  Providers   \* who may provide the content id

ASSUME LookupAssumption ==
  /\ Self \in Peers /\ Target \in Peers \ {Self}
  /\ Alpha \in Nat \ {0}
  /\ Tables \subseteq SUBSET (Peers \ {Self}) /\ \A held \in Tables : IsFiniteSet(held)
  /\ Closer \subseteq Seq(Peers)

Operations == {"put", "get", "provide", "findProviders", "findPeer", "getClosestPeers",
               "refreshRoutingTable"}
FindsClosest == {"put", "provide", "getClosestPeers"}

VARIABLES
  operation,  \* what the caller has called
  table,      \* per DHT: its routing table
  known,      \* is Target in the peer store, which both share?  For findPeer only
  walk,       \* per DHT: the state of its generator
  events      \* the kinds of events that have come out

lookupVars == <<operation, table, known, walk, events>>

NumPaths == (K + 1) \div 2    \* disjointPaths

\* routingTable.closestPeers: the contacts in order of distance, cut to K.
ByDistance(set) ==
  CHOOSE s \in [1..Cardinality(set) -> set] :
    \A i, j \in DOMAIN s : i < j => Dist[s[i]] < Dist[s[j]]

ClosestPeers(d) == First(K, ByDistance(table[d]))

Fresh == [
  stage    |-> "local",
  waiting  |-> {},      \* peers to ask
  asked    |-> {},      \* peers asked; with the waiting ones, peersSeen
  list     |-> <<>>,    \* the PeerDistanceList of getClosestPeers
  left     |-> <<>>,    \* its peers that have not been yielded yet
  sending  |-> <<>>,    \* peers that a message of put or provide is being sent to
  provs    |-> {},      \* the set `providers' of findProviders
  found    |-> FALSE,   \* a value, or the peer
  heard    |-> {},      \* history: the peers the list was offered
  told     |-> {},      \* history: peers whose message was sent or has failed
  took     |-> {},      \* history: peers that have answered it
  reports  |-> [x \in Providers |-> 0]]  \* history: how often each was yielded

Becomes(d, w) == walk' = [walk EXCEPT ![d] = w]
Emit(kinds) == events' = events \cup kinds

\* The events of a request, up to the one that ends it.
Request(kind) == {"DIALING_PEER", "SENDING_QUERY", kind}

LookupInit ==
  /\ operation \in Operations
  /\ table \in [Dhts -> Tables]
  /\ known \in {FALSE, operation = "findPeer"}
  /\ walk \in [Dhts -> {Fresh, [Fresh EXCEPT !.stage = "unused"]}]
  /\ events = {}

-----------------------------------------------------------------------------
(* What is local.                                                          *)

StartsWalk(d, w) ==
  [w EXCEPT !.stage = "walk", !.waiting = ToSet(First(NumPaths, ClosestPeers(d)))]

\* getClosestPeers, which put and provide call once their own record is stored.
StartClosest(d) ==
  /\ walk[d].stage = "local" /\ operation \in FindsClosest
  /\ Becomes(d, [StartsWalk(d, walk[d]) EXCEPT
                   !.list = AddAll(<<>>, ClosestPeers(d)),
                   !.heard = ToSet(ClosestPeers(d))])
  /\ UNCHANGED <<operation, table, known, events>>

\* findPeer looks into the peer store, and once more after a hash if the routing
\* table has the peer.
FindLocal(d) ==
  /\ operation = "findPeer"
  /\ \/ walk[d].stage = "local"
     \/ walk[d].stage = "sanity" /\ Target \in ToSet(ClosestPeers(d))
  /\ known
  /\ Becomes(d, [walk[d] EXCEPT !.stage = "ended", !.found = TRUE])
  /\ Emit({"FINAL_PEER"})
  /\ UNCHANGED <<operation, table, known>>

NotFoundLocal(d) ==
  /\ operation = "findPeer"
  /\ \/ /\ walk[d].stage = "local" /\ ~known
        /\ Becomes(d, [walk[d] EXCEPT !.stage = "sanity"])
     \/ /\ walk[d].stage = "sanity"
        /\ known => Target \notin ToSet(ClosestPeers(d))
        /\ Becomes(d, StartsWalk(d, walk[d]))
  /\ UNCHANGED <<operation, table, known, events>>

\* The peer store is told of the peer by another part of the node.
Identified ==
  /\ operation = "findPeer"
  /\ ~known /\ known' = TRUE
  /\ UNCHANGED <<operation, table, walk, events>>

Report(w, new) ==
  [w EXCEPT !.provs = @ \cup new,
            !.reports = [x \in Providers |-> @[x] + IF x \in new THEN 1 ELSE 0]]

\* findProviders yields up to K of the providers that are stored here.
StoredProviders(d) ==
  /\ walk[d].stage = "local" /\ operation = "findProviders"
  /\ \E stored \in SUBSET Providers :
       IF Cardinality(stored) < K
       THEN /\ Becomes(d, StartsWalk(d, Report(walk[d], stored)))
            /\ Emit(IF stored = {} THEN {} ELSE {"GET_PROVIDERS response", "PROVIDER"})
       ELSE /\ \E some \in SUBSET stored :
                 /\ Cardinality(some) = K
                 /\ Becomes(d, [Report(walk[d], some) EXCEPT !.stage = "ended"])
            /\ Emit({"GET_PROVIDERS response", "PROVIDER"})
  /\ UNCHANGED <<operation, table, known>>

\* getMany yields a valid record that is stored here.
StoredValue(d) ==
  /\ walk[d].stage = "local" /\ operation = "get"
  /\ \E stored \in BOOLEAN :
       /\ Becomes(d, [StartsWalk(d, walk[d]) EXCEPT !.found = stored])
       /\ Emit(IF stored THEN {"VALUE"} ELSE {})
  /\ UNCHANGED <<operation, table, known>>

\* A datastore fails, or the query manager is not running.
LocalThrows(d) ==
  /\ walk[d].stage \in {"local", "sanity"}
  /\ Becomes(d, [walk[d] EXCEPT !.stage = "threw"])
  /\ UNCHANGED <<operation, table, known, events>>

-----------------------------------------------------------------------------
(* The walk.                                                               *)

\* w after peer p has been asked and has named the peers in closer.
Asked(w, p, closer) ==
  [w EXCEPT !.asked = @ \cup {p},
            !.waiting = (@ \ {p}) \cup
               {q \in ToSet(closer) \ (w.asked \cup w.waiting \cup {Self}) : Dist[q] < Dist[p]}]

AskFails(d, p) ==
  /\ walk[d].stage = "walk" /\ p \in walk[d].waiting
  /\ Becomes(d, Asked(walk[d], p, <<>>))
  /\ Emit(Request("QUERY_ERROR"))
  /\ UNCHANGED <<operation, table, known>>

\* A response to FIND_NODE, for getClosestPeers.
ClosestAnswer(d, p, closer) ==
  /\ operation \in FindsClosest
  /\ Becomes(d, [Asked(walk[d], p, closer) EXCEPT
                   !.list = AddAll(@, closer), !.heard = @ \cup ToSet(closer)])
  /\ Emit(Request("FIND_NODE response"))

\* The same, for findPeer, which does not stop when it has found the peer.
PeerAnswer(d, p, closer) ==
  /\ operation = "findPeer"
  /\ Becomes(d, [Asked(walk[d], p, closer) EXCEPT !.found = @ \/ Target \in ToSet(closer)])
  /\ Emit(Request("FIND_NODE response")
          \cup IF Target \in ToSet(closer) THEN {"FINAL_PEER"} ELSE {})

\* A response to GET_PROVIDERS.  The providers are yielded that are new; the test for
\* enough of them is an equality.
Mut_ProvidersAnswer(d, p, closer) ==
  /\ operation = "findProviders"
  /\ \E named \in SUBSET Providers :
       LET w == Report(Asked(walk[d], p, closer), named)
       IN /\ Becomes(d, IF Cardinality(w.provs) = K THEN [w EXCEPT !.stage = "ended"] ELSE w)
          /\ Emit(Request("GET_PROVIDERS response") \cup {"PROVIDER"})
ProvidersAnswer(d, p, closer) ==
  /\ operation = "findProviders"
  /\ \E named \in SUBSET Providers :
       LET new == named \ walk[d].provs
           w == Report(Asked(walk[d], p, closer), new)
       IN /\ Becomes(d, IF Cardinality(w.provs) = K THEN [w EXCEPT !.stage = "ended"] ELSE w)
          /\ Emit(Request("GET_PROVIDERS response")
                  \cup IF new = {} THEN {} ELSE {"PROVIDER"})

\* A response to GET_VALUE.  An invalid record is passed on as an error, and the
\* closer peers that came with it are lost.
ValueAnswer(d, p, closer) ==
  /\ operation = "get"
  /\ \/ /\ Becomes(d, Asked(walk[d], p, closer))
        /\ Emit(Request("GET_VALUE response"))
     \/ /\ Becomes(d, [Asked(walk[d], p, closer) EXCEPT !.found = TRUE])
        /\ Emit(Request("GET_VALUE response") \cup {"VALUE"})
     \/ /\ Becomes(d, Asked(walk[d], p, <<>>))
        /\ Emit(Request("QUERY_ERROR"))

Answers(d, p) ==
  /\ walk[d].stage = "walk" /\ p \in walk[d].waiting
  /\ \E closer \in Closer :
       \/ ClosestAnswer(d, p, closer) \/ PeerAnswer(d, p, closer)
       \/ ProvidersAnswer(d, p, closer) \/ ValueAnswer(d, p, closer)
  /\ UNCHANGED <<operation, table, known>>

\* What follows the walk.
AfterWalk(w) ==
  IF operation \in FindsClosest
  THEN [w EXCEPT !.stage = "final", !.left = w.list, !.waiting = {}]
  ELSE [w EXCEPT !.stage = "ended", !.waiting = {}]

\* The walk has nobody left to ask, or is aborted; findPeer and get may report that.
WalkEnds(d) ==
  /\ walk[d].stage = "walk"
  /\ Becomes(d, AfterWalk(walk[d]))
  /\ Emit(CASE operation = "findPeer" /\ ~walk[d].found -> {"QUERY_ERROR"}
            [] operation = "get" /\ walk[d].found -> {"VALUE"}
            [] OTHER -> {})
  /\ UNCHANGED <<operation, table, known>>

\* It is aborted with an error, or get cannot select a value.
WalkThrows(d) ==
  /\ walk[d].stage = "walk"
  /\ Becomes(d, [walk[d] EXCEPT !.stage = "threw"])
  /\ UNCHANGED <<operation, table, known, events>>

-----------------------------------------------------------------------------
(* The peers that getClosestPeers yields at its end.                       *)

NextFinal(d) == [walk[d] EXCEPT !.left = Tail(@)]

YieldFinal(d) ==
  /\ operation = "getClosestPeers"
  /\ walk[d].stage = "final" /\ walk[d].left # <<>>
  /\ Becomes(d, NextFinal(d))
  /\ Emit({"FINAL_PEER"})
  /\ UNCHANGED <<operation, table, known>>

\* put and provide send them a message instead, a few at a time.
SendFinal(d) ==
  /\ operation \in {"put", "provide"}
  /\ walk[d].stage = "final" /\ walk[d].left # <<>>
  /\ Len(walk[d].sending) < Alpha
  /\ Becomes(d, [NextFinal(d) EXCEPT !.sending = Append(@, Head(walk[d].left))])
  /\ UNCHANGED <<operation, table, known, events>>

\* A message is answered or fails.  Its events come out at once, unless the
\* generator has thrown.
Told(d, i) ==
  LET p == walk[d].sending[i]
  IN [walk[d] EXCEPT !.sending = RemoveAt(@, i), !.told = @ \cup {p}]

EmitSent(d, kinds) == IF walk[d].stage = "threw" THEN UNCHANGED events ELSE Emit(kinds)

SendSucceeds(d, i) ==
  LET p == walk[d].sending[i]
  IN /\ i \in DOMAIN walk[d].sending /\ p # Self
     /\ Becomes(d, [Told(d, i) EXCEPT !.took = @ \cup {p}])
     /\ EmitSent(d, Request(IF operation = "put" THEN "PUT_VALUE response"
                            ELSE "ADD_PROVIDER response"))
     /\ UNCHANGED <<operation, table, known>>

\* Also when a peer answers a put with another value, or when the peer is ourselves.
Mut_SendFails(d, i) ==
  /\ i \in DOMAIN walk[d].sending
  /\ Becomes(d, [Told(d, i) EXCEPT !.left = <<>>])
  /\ EmitSent(d, Request("QUERY_ERROR"))
  /\ UNCHANGED <<operation, table, known>>
SendFails(d, i) ==
  /\ i \in DOMAIN walk[d].sending
  /\ Becomes(d, Told(d, i))
  /\ EmitSent(d, Request("QUERY_ERROR"))
  /\ UNCHANGED <<operation, table, known>>

\* The address book fails; messages that are being sent go on.
FinalThrows(d) ==
  /\ walk[d].stage = "final"
  /\ Becomes(d, [walk[d] EXCEPT !.stage = "threw"])
  /\ UNCHANGED <<operation, table, known, events>>

FinalEnds(d) ==
  /\ walk[d].stage = "final" /\ walk[d].left = <<>> /\ walk[d].sending = <<>>
  /\ Becomes(d, [walk[d] EXCEPT !.stage = "ended"])
  /\ UNCHANGED <<operation, table, known, events>>

-----------------------------------------------------------------------------
LookupStep(d) ==
  \/ StartClosest(d) \/ FindLocal(d) \/ NotFoundLocal(d)
  \/ StoredProviders(d) \/ StoredValue(d) \/ LocalThrows(d)
  \/ \E p \in Peers : AskFails(d, p) \/ Answers(d, p)
  \/ WalkEnds(d) \/ WalkThrows(d)
  \/ YieldFinal(d) \/ SendFinal(d) \/ FinalThrows(d) \/ FinalEnds(d)
  \/ \E i \in 1..Alpha : SendSucceeds(d, i) \/ SendFails(d, i)

LookupNext == Identified \/ \E d \in Dhts : LookupStep(d)
=============================================================================
