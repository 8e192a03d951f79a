------------------------------ MODULE Refresh ------------------------------
(***************************************************************************)
(* Rounds of the refresh of a routing table (RoutingTableRefresh): which   *)
(* ids a round looks up, while lookups end and fail in any order, contacts *)
(* come and go, and the table is stopped.                                  *)
(*                                                                         *)
(* A round takes one task per common prefix length it tracks; the tasks    *)
(* run side by side.  A task is suspended during its lookups only.  Rounds *)
(* of different loops, which share only the timer, are in Lifecycle.       *)
(***************************************************************************)
EXTENDS KadIds, FiniteSets

CONSTANTS
  Contacts,   \* peers that may be in the routing table
  KadDist     \* the distance of each to our own kad id

ASSUME ContactsAssumption == KadDist \in [Contacts -> PrefixWords]

MAX_COMMON_PREFIX_LENGTH == Width - 1
Cpls == 0..MAX_COMMON_PREFIX_LENGTH

VARIABLES
  localId,      \* kb.localNodeId
  up,           \* is the routing table running?
  contacts,     \* the contacts in it
  round,        \* "none", "round" in progress, or "timer" armed
  forced,       \* is or was the latest round a forced one?
  prefixLength, \* the length it found in the table
  task,         \* per task: the length it looks up, or Idle
  reached,      \* history: the buckets of the ids whose lookups the latest round began
  interrupted   \* history: the table was stopped during the latest round

refreshVars == <<localId, up, contacts, round, forced, prefixLength, task, reached,
                 interrupted>>

Idle == -1

Least(m, n) == IF m < n THEN m ELSE n
Greatest(S) == CHOOSE n \in S : \A m \in S : m <= n

KadId(c) == Xor(localId, KadDist[c])
PrefixLengths == {PrefixLength(localId, KadId(c)) : c \in contacts}
MaxCommonPrefix == Greatest(PrefixLengths \cup {0})

\* The last index of the lengths a round tracks, for the length it found.  The index
\* is one of buckets, divided by bits; the length was counted in bytes.
LastTracked(length) == Least(length, MAX_COMMON_PREFIX_LENGTH)

\* The bucket, if any, of an id that was made up for length n.
BucketsOf(id, local) == {n \in Cpls : InBucket(id, local, n)}
Aims == [local \in PrefixWords |-> [n \in Cpls |->
           {BucketsOf(id, local) : id \in RandomPeerIds(local, n)}]]

-----------------------------------------------------------------------------
RefreshInit ==
  /\ localId \in PrefixWords
  /\ up = FALSE /\ contacts = {}
  /\ round = "none" /\ forced = FALSE
  /\ prefixLength = 0
  /\ task = [n \in Cpls |-> Idle]
  /\ reached = {} /\ interrupted = FALSE

\* refreshTable(true): the tasks make up their ids at once and begin to look them up;
\* without a table they all fail.
BeginForced(running) ==
  LET length == MaxCommonPrefix
      tracked == IF running THEN 0..LastTracked(length) ELSE {}
  IN /\ round' = "round" /\ forced' = TRUE /\ interrupted' = ~running
     /\ prefixLength' = length
     /\ \E aim \in [tracked -> UNION {Aims[localId][n] : n \in Cpls}] :
          /\ \A n \in tracked : aim[n] \in Aims[localId][n]
          /\ reached' = UNION {aim[n] : n \in tracked}
     /\ task' = [n \in Cpls |-> IF n \in tracked THEN n ELSE Idle]

\* start() of the table and of its refresh.  A timer that a stopped table has left
\* is forgotten here.
StartTable ==
  /\ ~up /\ round # "round"
  /\ up' = TRUE
  /\ BeginForced(TRUE)
  /\ UNCHANGED <<localId, contacts>>

\* stop() takes the table away and clears the timer; a round goes on.
StopTable ==
  /\ up
  /\ up' = FALSE /\ contacts' = {}
  /\ round' = IF round = "timer" THEN "none" ELSE round
  /\ interrupted' = TRUE
  /\ UNCHANGED <<localId, forced, prefixLength, task, reached>>

\* refreshRoutingTable(), which forgets the timer as well.
RefreshTable ==
  /\ round # "round"
  /\ BeginForced(up)
  /\ UNCHANGED <<localId, up, contacts>>

\* A round of the timer.  It takes the date of the last refresh to be the time at
\* which it begins, as nothing else is ever noted, and so no task has to look up
\* anything; with an empty table the loop over a gap is empty, too.
TimerFires ==
  /\ round = "timer"
  /\ round' = "round" /\ forced' = FALSE /\ interrupted' = ~up
  /\ prefixLength' = MaxCommonPrefix
  /\ task' = [n \in Cpls |-> Idle]
  /\ reached' = {}
  /\ UNCHANGED <<localId, up, contacts>>

-----------------------------------------------------------------------------
(* The task of length i.  In a gap it also looks up the lengths after its  *)
(* own, up to LastCpl.                                                     *)

Gap == ~\E c \in contacts : PrefixLength(localId, KadId(c)) = prefixLength
LastCpl(i) == Least(2 * (i + 1), LastTracked(prefixLength))

\* The loop over a gap goes on with length n, if it gets that far.  A table that is
\* stopped has no contacts, so a task finds a gap, and no id for any length in it.
GoOnWith(i, n) ==
  IF up /\ n <= LastCpl(i)
  THEN /\ task' = [task EXCEPT ![i] = n]
       /\ \E aim \in Aims[localId][n] : reached' = reached \cup aim
  ELSE task' = [task EXCEPT ![i] = Idle] /\ UNCHANGED reached

\* The lookup of its own length ends.
LookupEnds(i) ==
  /\ task[i] = i
  /\ IF Gap THEN GoOnWith(i, i + 1)
     ELSE task' = [task EXCEPT ![i] = Idle] /\ UNCHANGED reached
  /\ UNCHANGED <<localId, up, contacts, round, forced, prefixLength, interrupted>>

\* It throws: the task ends.
LookupFails(i) ==
  /\ task[i] = i
  /\ task' = [task EXCEPT ![i] = Idle]
  /\ UNCHANGED <<localId, up, contacts, round, forced, prefixLength, reached, interrupted>>

\* A lookup in a gap ends or throws, and the loop goes on.
Mut_GapLookupEnds(i) ==
  /\ task[i] > i
  /\ GoOnWith(i, task[i])
  /\ UNCHANGED <<localId, up, contacts, round, forced, prefixLength, interrupted>>
GapLookupEnds(i) ==
  /\ task[i] > i
  /\ GoOnWith(i, task[i] + 1)
  /\ UNCHANGED <<localId, up, contacts, round, forced, prefixLength, interrupted>>

\* All tasks are done: the timer is armed, also for a table that is stopped.
RoundIsDone ==
  /\ round = "round" /\ \A n \in Cpls : task[n] = Idle
  /\ round' = "timer"
  /\ UNCHANGED <<localId, up, contacts, forced, prefixLength, task, reached, interrupted>>

\* Contacts come and go at any time.
Joins(c) ==
  /\ up /\ c \notin contacts
  /\ contacts' = contacts \cup {c}
  /\ UNCHANGED <<localId, up, round, forced, prefixLength, task, reached, interrupted>>

Leaves(c) ==
  /\ c \in contacts
  /\ contacts' = contacts \ {c}
  /\ UNCHANGED <<localId, up, round, forced, prefixLength, task, reached, interrupted>>

RefreshProgress ==
  RoundIsDone \/ \E i \in Cpls : LookupEnds(i) \/ LookupFails(i) \/ GapLookupEnds(i)

RefreshNext ==
  \/ StartTable \/ StopTable \/ RefreshTable \/ TimerFires
  \/ RefreshProgress
  \/ \E c \in Contacts : Joins(c) \/ Leaves(c)

\* Lookups end because they have a timeout.
RefreshFairness == WF_refreshVars(RefreshProgress)

RefreshSpec == RefreshInit /\ [][RefreshNext]_refreshVars /\ RefreshFairness

-----------------------------------------------------------------------------
(* Safety and liveness.                                                    *)

\* A forced round that is done has begun to look up an id in each of the buckets it
\* means to refresh, if the table keeps running (refresh.ts:93-205).  Those are the
\* buckets up to the number of zero *bytes* that the nearest contact shares with us
\* (refresh.ts:243-262): with contacts that share more bits, not all of the table's.
BucketsRefreshed ==
  round = "timer" /\ forced /\ ~interrupted =>
    0..LastTracked(prefixLength) \subseteq reached

\* Every round ends and arms the timer of the next, whatever its lookups do and
\* whether or not the table is still there (refresh.ts:93-123).
RoundsEnd == round = "round" ~> round # "round"

-----------------------------------------------------------------------------
(* What the comments of the code say, and the code does not do.            *)

\* refresh.ts:192 "such that ONLY the first `targetCommonPrefixLength` bits match the
\* local ID": the list for browsers has no entry for most prefixes, and the others
\* mean shorter prefixes.
OnlyTargetBitsMatch ==
  \A n \in Cpls : \A id \in RandomPeerIds(localId, n) : InBucket(id, localId, n)

\* refresh.ts:213 "return the longest id prefix that is the same": zero bytes of the
\* distance are counted, where ids are made up and buckets divided by bits, so that
\* buckets with contacts are left out of a round.
LongestPrefixIsFound ==
  \A c \in contacts : MaxCommonPrefix < Width => ~Shares(localId, KadId(c), MaxCommonPrefix + 1)

\* refresh.ts:36 "refreshing routing table every %dms": rounds of the timer look up
\* nothing.
TimersRefresh == round = "timer" /\ ~forced /\ up => reached # {}
=============================================================================
