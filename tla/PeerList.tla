------------------------------ MODULE PeerList -----------------------------
(***************************************************************************)
(* PeerDistanceList: the peers nearest to a key, in order of distance.     *)
(***************************************************************************)
EXTENDS Naturals, Sequences, FiniteSets, SequencesExt

CONSTANTS
  Peers,    \* peer ids
  Dist,     \* the distance of each to the key
  K         \* kBucketSize, the capacity of the list

ASSUME ListAssumption ==
  /\ K \in Nat \ {0}
  /\ Dist \in [Peers -> Nat]
  /\ \A p, q \in Peers : Dist[p] = Dist[q] => p = q

First(n, s) == SubSeq(s, 1, IF Len(s) < n THEN Len(s) ELSE n)

\* The end of add(), after the hash: push, sort, slice.  The list was in order, and
\* the sort is stable, so the peer comes after those that are not farther.
NoFarther(list, p) == {i \in DOMAIN list : Dist[list[i]] <= Dist[p]}

Mut_Insert(list, p) ==
  LET kept == First(K - 1, list)
  IN InsertAt(kept, Cardinality(NoFarther(kept, p)) + 1, p)
Insert(list, p) == First(K, InsertAt(list, Cardinality(NoFarther(list, p)) + 1, p))

\* Calls of add() that run side by side, as for the peers of one response.  Each one
\* looks into the list before it awaits its hash, so a peer that is named twice is
\* added twice.
AddAll(list, peers) ==
  LET added[n \in 0..Len(peers)] ==
        IF n = 0 THEN list
        ELSE IF peers[n] \in ToSet(list) THEN added[n - 1]
        ELSE Insert(added[n - 1], peers[n])
  IN added[Len(peers)]

AnyCloser(list, peers) ==
  /\ peers # {}
  /\ list # <<>> => \E p \in peers : Dist[p] < Dist[Last(list)]

InOrder(list) == \A i, j \in DOMAIN list : i <= j => Dist[list[i]] <= Dist[list[j]]
=============================================================================
