-------------------------------- MODULE Tags -------------------------------
(***************************************************************************)
(* The tags of the closest peers.  Each start of a routing table watches   *)
(* its k-bucket and, 100ms after the last change, starts to tag the peers  *)
(* that have become close and to untag those that no longer are.  The      *)
(* updates are chains of awaited calls of the peer store, and nothing      *)
(* waits for one chain before the next starts.  The tables of the LAN and  *)
(* the WAN DHT use the same tag in the same peer store, and a peer with    *)
(* private and public addresses is a contact of both.  The peer store is   *)
(* taken to do the calls in the order in which they are made.              *)
(***************************************************************************)
EXTENDS Naturals, Sequences, FiniteSets, SequencesExt

CONSTANTS
  Tables,
  Candidates,   \* the peers that can become contacts
  Dist,         \* the distance of each peer to ourselves
  Close,        \* KBUCKET_SIZE
  Sessions,     \* bound: the starts of a table, 1..n
  MaxChains     \* bound: updates that run at a time

VARIABLES
  tagSession, \* per table: its current k-bucket
  contacts,   \* per k-bucket: its contacts
  kClosest,   \* per k-bucket: the peers it takes for tagged
  timer,      \* per k-bucket: is an update due?
  chains,     \* the updates that run: the calls each has still to make, of which
              \* the first is made already, in the order in which they were
  tags,       \* the peer store: who has the tag
  spoilt      \* history: a call failed, or an update of a table started before
              \* another one of it had ended

tagVars == <<tagSession, contacts, kClosest, timer, chains, tags, spoilt>>

Buckets == Tables \X Sessions
Current(t) == <<t, tagSession[t]>>

\* kBuck.closest(localNodeId, KBUCKET_SIZE)
Closest(set) ==
  {p \in set : Cardinality({q \in set : Dist[q] < Dist[p]}) < Close}

\* A chain tags first and untags then, each in the order of its set.
Update(added, removed) ==
  SetToSeq({[kind |-> "tag", peer |-> p] : p \in added})
    \o SetToSeq({[kind |-> "untag", peer |-> p] : p \in removed})

TagInit ==
  /\ tagSession = [t \in Tables |-> 1]
  /\ contacts = [b \in Buckets |-> {}]
  /\ kClosest = [b \in Buckets |-> {}]
  /\ timer = [b \in Buckets |-> FALSE]
  /\ chains = <<>>
  /\ tags = {}
  /\ spoilt = FALSE

\* The k-bucket emits 'added' or 'removed': the update is put off.
Changed(t, p) ==
  /\ contacts' = [contacts EXCEPT ![Current(t)] =
                    IF p \in @ THEN @ \ {p} ELSE @ \cup {p}]
  /\ timer' = [timer EXCEPT ![Current(t)] = TRUE]
  /\ UNCHANGED <<tagSession, kClosest, chains, tags, spoilt>>

\* A table is stopped and started again, with a new k-bucket.  What the old one
\* has set going goes on, and its tags stay.
Restart(t) ==
  /\ tagSession[t] + 1 \in Sessions
  /\ tagSession' = [tagSession EXCEPT ![t] = @ + 1]
  /\ UNCHANGED <<contacts, kClosest, timer, chains, tags, spoilt>>

\* updatePeerTags
UpdatePeerTags(b) ==
  /\ timer[b] /\ Len(chains) < MaxChains
  /\ timer' = [timer EXCEPT ![b] = FALSE]
  /\ LET new == Closest(contacts[b])
         calls == Update(new \ kClosest[b], kClosest[b] \ new)
     IN /\ chains' = IF calls = <<>> THEN chains
                     ELSE Append(chains, [table |-> b[1], calls |-> calls])
        /\ kClosest' = [kClosest EXCEPT ![b] = new]
  /\ spoilt' = (spoilt \/ \E i \in DOMAIN chains : chains[i].table = b[1])
  /\ UNCHANGED <<tagSession, contacts, tags>>

\* The chain whose call was made first is served: it makes its next call, if any.
Served(rest) ==
  chains' = IF rest = <<>> THEN Tail(chains)
            ELSE Append(Tail(chains), [Head(chains) EXCEPT !.calls = rest])

\* The peer store does the call that was made first.
Called ==
  /\ chains # <<>>
  /\ LET call == Head(Head(chains).calls) IN
       tags' = IF call.kind = "tag" THEN tags \cup {call.peer} ELSE tags \ {call.peer}
  /\ Served(Tail(Head(chains).calls))
  /\ UNCHANGED <<tagSession, contacts, kClosest, timer, spoilt>>

\* It fails: the rest of the chain is not called, and kClosest is not corrected.
Fails ==
  /\ chains # <<>>
  /\ Served(<<>>)
  /\ spoilt' = TRUE
  /\ UNCHANGED <<tagSession, contacts, kClosest, timer, tags>>

TagNext ==
  \/ \E t \in Tables : Restart(t) \/ \E p \in Candidates : Changed(t, p)
  \/ \E b \in Buckets : UpdatePeerTags(b)
  \/ Called \/ Fails

TagSpec == TagInit /\ [][TagNext]_tagVars

-----------------------------------------------------------------------------
Quiet == chains = <<>> /\ \A b \in Buckets : ~timer[b]

\* routing-table/index.ts:161-163 "Keep track of our k-closest peers and tag them in
\* the peer store as such": once the updates are done, the closest contacts of a table
\* have the tag, even if only those runs count in which no call fails and no update of
\* a table overlaps another one of it.
TagsAreKClosest ==
  Quiet /\ ~spoilt => \A t \in Tables : Closest(contacts[Current(t)]) \subseteq tags
=============================================================================
