---------------------------- MODULE RoutingTable ---------------------------
(***************************************************************************)
(* The routing table: a k-bucket, started and stopped with the DHT, and    *)
(* the queue of pings that decides who stays when a bucket is full.        *)
(*                                                                         *)
(* The k-bucket keeps at most K contacts per distance from ourselves, the  *)
(* least recently seen one first.  It reports a newcomer to a full bucket, *)
(* with that contact to ping, instead of adding it.                        *)
(*                                                                         *)
(* An action is the code between two awaits: of a hash, of a dial and of   *)
(* the promises of a ping.                                                 *)
(***************************************************************************)
EXTENDS Naturals, Sequences, FiniteSets, SequencesExt

CONSTANTS
  Peers,
  BucketOf,     \* the bucket of each peer: its common prefix with ourselves
  K,            \* kBucketSize
  Concurrency,  \* pingConcurrency
  Reliable,     \* peers that answer every ping
  Dead,         \* peers that answer none
  NoTable,      \* kb is undefined
  MaxCalls,     \* bound: add() and remove() that wait for a hash
  MaxWaiting,   \* bound: pings that wait
  MaxSessions   \* bound: how often the table is started

Buckets == {BucketOf[p] : p \in Peers}
Slots == 1..Concurrency

ASSUME RoutingTableAssumption ==
  /\ K \in Nat \ {0} /\ Concurrency \in Nat \ {0}
  /\ Reliable \subseteq Peers /\ Dead \subseteq Peers \ Reliable
  /\ MaxCalls \in Nat /\ MaxWaiting \in Nat /\ MaxSessions \in Nat

VARIABLES
  running,
  starting,  \* is a start() waiting for the hash of our id?
  kb,        \* the k-bucket: per bucket its contacts, the oldest first
  calls,     \* add() and remove() that wait for the hash of their peer
  slots,     \* pingQueue: the running pings
  waiting,   \* pingQueue: the others
  session    \* history: how many k-buckets there have been

vars == <<running, starting, kb, calls, slots, waiting, session>>

\* A ping waits for the dial of the old contact, then for Promise.all.
Free == [at |-> "free"]
Dial(job) == [at |-> "dial", old |-> job.old, new |-> job.new, session |-> session]
Settle(slot) == [slot EXCEPT !.at = "settle"]

FreeSlots(ping) == {s \in Slots : ping.slots[s] = Free}

-----------------------------------------------------------------------------
(* The k-bucket and the ping queue, as functions of [kb, slots, waiting].  *)

State == [kb |-> kb, slots |-> slots, waiting |-> waiting]
Become(t) == kb' = t.kb /\ slots' = t.slots /\ waiting' = t.waiting

\* _onPing: queue a ping.  One that starts while the table is not running ends
\* at once.
OnPing(t, job) ==
  IF FreeSlots(t) = {} THEN [t EXCEPT !.waiting = Append(@, job)]
  ELSE IF ~running THEN t
  ELSE LET s == CHOOSE s \in FreeSlots(t) : TRUE
       IN  [t EXCEPT !.slots[s] = Dial(job)]

\* A contact is cut out of its bucket.
IndexOf(contacts, p) == CHOOSE i \in 1..Len(contacts) : contacts[i] = p
Without(contacts, p) ==
  IF Contains(contacts, p) THEN RemoveAt(contacts, IndexOf(contacts, p)) ELSE contacts

\* KBucket.add: refresh a contact, add it, or report the oldest one.
KadAdd(t, p) ==
  LET contacts == t.kb[BucketOf[p]] IN
  IF Contains(contacts, p) \/ Len(contacts) < K
    THEN [t EXCEPT !.kb[BucketOf[p]] = Append(Without(contacts, p), p)]
    ELSE OnPing(t, [old |-> Head(contacts), new |-> p])

KadRemove(t, p) == [t EXCEPT !.kb[BucketOf[p]] = Without(@, p)]

\* A ping is done: the next one starts; they all end if the table is stopped.
Release(t, s) ==
  IF t.waiting = <<>> \/ ~running
    THEN [t EXCEPT !.slots[s] = Free, !.waiting = <<>>]
    ELSE [t EXCEPT !.slots[s] = Dial(Head(t.waiting)), !.waiting = Tail(@)]

-----------------------------------------------------------------------------
Init ==
  /\ running = FALSE
  /\ starting = FALSE
  /\ kb = NoTable
  /\ calls = {}
  /\ slots = [s \in Slots |-> Free]
  /\ waiting = <<>>
  /\ session = 0

Start ==
  /\ ~starting /\ session < MaxSessions
  /\ running' = TRUE
  /\ starting' = TRUE
  /\ UNCHANGED <<kb, calls, slots, waiting, session>>

\* The hash of our own id is there: an empty k-bucket.
Started ==
  /\ starting
  /\ starting' = FALSE
  /\ kb' = [b \in Buckets |-> <<>>]
  /\ session' = session + 1
  /\ UNCHANGED <<running, calls, slots, waiting>>

\* The pings that run go on.
Stop ==
  /\ running' = FALSE
  /\ waiting' = <<>>
  /\ kb' = NoTable
  /\ UNCHANGED <<starting, calls, slots, session>>

\* add() and remove() throw if there is no table, otherwise they hash the peer.
Call(kind, p) ==
  /\ kb # NoTable /\ Cardinality(calls) < MaxCalls
  /\ calls' = calls \cup {[kind |-> kind, peer |-> p]}
  /\ UNCHANGED <<running, starting, kb, slots, waiting, session>>

\* The hash is there.  The table may be gone or another one by now.
Hashed(c) ==
  /\ c \in calls /\ Len(waiting) < MaxWaiting
  /\ calls' = calls \ {c}
  /\ Become(IF kb = NoTable THEN State
            ELSE IF c.kind = "add" THEN KadAdd(State, c.peer)
            ELSE KadRemove(State, c.peer))
  /\ UNCHANGED <<running, starting, session>>

\* The old contact answers: it stays, the newcomer is forgotten.
PingAnswered(s) ==
  /\ slots[s].at = "dial" /\ slots[s].old \notin Dead
  /\ Become(Release(State, s))
  /\ UNCHANGED <<running, starting, calls, session>>

\* The dial fails or times out: the old contact is evicted.
Mut_PingFails(s) ==
  /\ slots[s].at = "dial" /\ slots[s].old \notin Reliable
  /\ LET t == [State EXCEPT !.slots[s] = Settle(@)]
         contacts == kb[BucketOf[slots[s].old]]
     IN  Become(IF running /\ kb # NoTable /\ contacts # <<>>
                  THEN KadRemove(t, Head(contacts)) ELSE t)
  /\ UNCHANGED <<running, starting, calls, session>>
Mut_PingFailsKeeps(s) ==
  /\ slots[s].at = "dial" /\ slots[s].old \notin Reliable
  /\ Become([State EXCEPT !.slots[s] = Settle(@)])
  /\ UNCHANGED <<running, starting, calls, session>>
PingFails(s) ==
  /\ slots[s].at = "dial" /\ slots[s].old \notin Reliable
  /\ LET t == [State EXCEPT !.slots[s] = Settle(@)]
     IN  Become(IF running /\ kb # NoTable THEN KadRemove(t, slots[s].old) ELSE t)
  /\ UNCHANGED <<running, starting, calls, session>>

\* Promise.all of a failed ping: the newcomer is added, which may find the bucket
\* full again.
AddNewcomer(s) ==
  /\ slots[s].at = "settle"
  /\ Become(Release(IF running /\ kb # NoTable THEN KadAdd(State, slots[s].new)
                                              ELSE State, s))
  /\ UNCHANGED <<running, starting, calls, session>>

PingStep(s) == PingAnswered(s) \/ PingFails(s) \/ AddNewcomer(s)

Next ==
  \/ Start \/ Started \/ Stop
  \/ \E kind \in {"add", "remove"}, p \in Peers : Call(kind, p)
  \/ \E c \in calls : Hashed(c)
  \/ \E s \in Slots : PingStep(s)

\* Hashes are computed and a dial ends, by its timeout at the latest.
Fairness ==
  /\ WF_vars(Started) /\ WF_vars(\E c \in calls : Hashed(c))
  /\ \A s \in Slots : WF_vars(PingStep(s))

Spec == Init /\ [][Next]_vars
FairSpec == Spec /\ Fairness

-----------------------------------------------------------------------------
Contacts == IF kb = NoTable THEN {} ELSE UNION {ToSet(kb[b]) : b \in Buckets}

JobSet == [old : Peers, new : Peers]

TypeOK ==
  /\ running \in BOOLEAN /\ starting \in BOOLEAN
  /\ kb = NoTable \/
       /\ DOMAIN kb = Buckets
       /\ \A b \in Buckets :
            /\ kb[b] \in Seq({p \in Peers : BucketOf[p] = b})
            /\ Len(kb[b]) <= K /\ IsInjective(kb[b])
  /\ calls \subseteq [kind : {"add", "remove"}, peer : Peers]
  /\ slots \in [Slots -> {Free} \cup
                 [at : {"dial", "settle"}, old : Peers, new : Peers, session : Nat]]
  /\ waiting \in Seq(JobSet)
  /\ session \in Nat

\* A contact that answers its pings keeps its place in the table against any
\* flood of newcomers and any failures of others: it only leaves when it is
\* removed by hand or the table is stopped (routing-table/index.ts:212-274).
ReliableStay ==
  [][\A p \in Reliable \cap Contacts :
       \/ p \in Contacts'
       \/ kb' = NoTable \/ session' # session
       \/ [kind |-> "remove", peer |-> p] \in calls \ calls']_vars

\* Once a ping of a dead contact is queued, the contact loses its place, unless
\* the table is stopped or replaced first.
DeadMakeRoom ==
  \A p \in Dead, n \in 1..MaxSessions :
    /\ running /\ session = n
    /\ \/ \E s \in Slots : slots[s].at = "dial" /\ slots[s].old = p
       \/ \E i \in DOMAIN waiting : waiting[i].old = p
    ~> p \notin Contacts \/ ~running \/ session # n

-----------------------------------------------------------------------------
(* What the comments of the code say, and the code does not do.            *)

\* routing-table/index.ts:213 "add to a queue so multiple ping requests do not
\* overlap": no contact is pinged twice at a time.
PingsDoNotOverlap ==
  \A s, t \in Slots :
    slots[s].at = "dial" /\ slots[t].at = "dial" /\ slots[s].old = slots[t].old => s = t

\* routing-table/index.ts:242 "only evict peers if we are still running": a ping
\* of one session evicts nobody from the table of the next.
EvictsInItsSession ==
  [][\A s \in Slots :
       slots[s].at = "dial" /\ slots'[s].at = "settle" /\ slots[s].session # session
         => Contacts' = Contacts]_vars
=============================================================================
