----------------------------- MODULE Providers -----------------------------
(***************************************************************************)
(* The provider managers of the two DHTs.  Each keeps providers in the     *)
(* datastore, behind an LRU cache of maps, and runs addProvider,           *)
(* getProviders and a periodic cleanup one at a time on a p-queue.  Cache  *)
(* and queue are a manager's own.  The datastore and its keys are shared:  *)
(* LAN and WAN are built on the same components and one prefix.            *)
(*                                                                         *)
(* An action is the code of a task between two awaits, or what the         *)
(* datastore does for it meanwhile.  A query gives each entry as it is     *)
(* when it comes up, and a batch deletes its entries in any order.  The    *)
(* times in a cached map are never read: a map is the set of its keys.     *)
(* The LRU cache (hashlru) may drop any other key at a read or a write.    *)
(***************************************************************************)
EXTENDS Naturals, Sequences, FiniteSets

CONSTANTS
  Managers,
  Cids,
  Providers,
  NotCached,      \* a key that is not in a cache
  Nobody,         \* no manager
  NoAnswer,       \* no lookup to answer
  Validity,       \* provideValidity
  MaxFailures,    \* bound: failures of the datastore
  MaxNow          \* bound: the clock

ASSUME ProvidersAssumption ==
  /\ Validity \in Nat /\ MaxFailures \in Nat /\ MaxNow \in Nat
  /\ Nobody \notin Managers

VARIABLES
  now,      \* the clock
  started,  \* per manager: is the cleanup timer running?
  due,      \* per manager: does a cleanup wait in syncQueue?
  work,     \* per worker of a syncQueue: the task that runs
  cache,    \* per manager: the keys of the cached map of each cid, or NotCached
  store,    \* the datastore: when each provider was announced
  failures, \* how often the datastore has failed
  asked,    \* history: entries whose announcement has been asked for
  by,       \* history: the manager that last put an entry
  latest,   \* history: the latest time put for a provider
  raced     \* history: entries last put while another manager was putting, or going
            \* to delete, the same one

vars == <<now, started, due, work, cache, store, failures, asked, by, latest, raced>>
puts == <<by, latest, raced>>
history == <<asked, puts>>

-----------------------------------------------------------------------------
\* The concurrency of syncQueue.
Mut_Concurrency == 2
Concurrency == 1
Workers == Managers \X (1..Concurrency)
Owner(w) == w[1]

Absent == 0
Keys == Cids \X Providers
Stored(c) == {p \in Providers : store[c][p] # Absent}

Mut_Expired(c, p) == store[c][p] # Absent /\ now - store[c][p] >= Validity
Expired(c, p) == store[c][p] # Absent /\ now - store[c][p] > Validity

\* The tasks of a syncQueue.
Add(c, p) == [kind |-> "add", cid |-> c, peer |-> p]
Get(c) == [kind |-> "get", cid |-> c]
Task == {Add(c, p) : c \in Cids, p \in Providers} \cup {Get(c) : c \in Cids}

\* What a running task awaits: the entries of a map, a put, the entries of the
\* scan, the deletes of the batch; or it has the answer of getProviders.
Idle == [at |-> "idle"]
Loading(task, todo, found) ==
  [at |-> "load", task |-> task, todo |-> todo, found |-> found]
Writing(c, p, t) == [at |-> "write", cid |-> c, peer |-> p, time |-> t]
Scanning(todo, doomed) == [at |-> "scan", todo |-> todo, doomed |-> doomed]
Committing(todo, doomed) == [at |-> "commit", todo |-> todo, doomed |-> doomed]
Answering(c, found) == [at |-> "answer", cid |-> c, found |-> found]

\* What a worker is going to delete.
Condemned(w) ==
  IF work[w].at = "scan" THEN work[w].doomed
  ELSE IF work[w].at = "commit" THEN work[w].todo ELSE {}

Init ==
  /\ now = 1
  /\ started = [m \in Managers |-> FALSE]
  /\ due = [m \in Managers |-> FALSE]
  /\ work = [w \in Workers |-> Idle]
  /\ cache = [m \in Managers |-> [c \in Cids |-> NotCached]]
  /\ store = [c \in Cids |-> [p \in Providers |-> Absent]]
  /\ failures = 0
  /\ asked = {}
  /\ by = [c \in Cids |-> [p \in Providers |-> Nobody]]
  /\ latest = [c \in Cids |-> [p \in Providers |-> Absent]]
  /\ raced = {}

-----------------------------------------------------------------------------
(* Calls and timers.                                                       *)

\* The interval fires.  It is long: one cleanup waits at a time.
CleanupDue(m) ==
  /\ started[m] /\ ~due[m]
  /\ due' = [due EXCEPT ![m] = TRUE]
  /\ UNCHANGED <<now, started, work, cache, store, failures, history>>

\* Stop clears the interval; tasks that wait or run go on.
Start(m) ==
  /\ started' = [started EXCEPT ![m] = TRUE]
  /\ UNCHANGED <<now, due, work, cache, store, failures, history>>
Stop(m) ==
  /\ started' = [started EXCEPT ![m] = FALSE]
  /\ UNCHANGED <<now, due, work, cache, store, failures, history>>

Tick ==
  /\ now < MaxNow
  /\ now' = now + 1
  /\ UNCHANGED <<started, due, work, cache, store, failures, history>>

-----------------------------------------------------------------------------
(* The tasks.                                                              *)

\* cache.set (or a get, if the map is the same): key c has map provs then, any
\* other keys may be gone.
CacheSet(m, c, provs) ==
  \E lost \in SUBSET (Cids \ {c}) :
    cache' = [cache EXCEPT ![m] =
                [d \in Cids |-> IF d = c THEN provs
                                ELSE IF d \in lost THEN NotCached ELSE cache[m][d]]]

Becomes(w, job) == work' = [work EXCEPT ![w] = job]

\* The rest of a task once its map is in hand.
Mut_WithMap(w, task, provs) ==
  /\ CacheSet(Owner(w), task.cid, provs)
  /\ Becomes(w, IF task.kind = "add" THEN Writing(task.cid, task.peer, now)
                                     ELSE Answering(task.cid, provs))
  /\ asked' = IF task.kind = "add" THEN asked \cup {<<task.cid, task.peer>>} ELSE asked
WithMap(w, task, provs) ==
  \/ /\ task.kind = "add"
     /\ CacheSet(Owner(w), task.cid, provs \cup {task.peer})
     /\ Becomes(w, Writing(task.cid, task.peer, now))
     /\ asked' = asked \cup {<<task.cid, task.peer>>}
  \/ /\ task.kind = "get"
     /\ CacheSet(Owner(w), task.cid, provs)
     /\ Becomes(w, Answering(task.cid, provs))
     /\ UNCHANGED asked

\* addProvider and getProviders on a map that is cached, and on one that is not.
StartHit(w, task) ==
  /\ work[w] = Idle /\ cache[Owner(w)][task.cid] # NotCached
  /\ WithMap(w, task, cache[Owner(w)][task.cid])
  /\ UNCHANGED <<now, started, due, store, failures, puts>>

StartMiss(w, task) ==
  /\ work[w] = Idle /\ cache[Owner(w)][task.cid] = NotCached
  /\ Becomes(w, Loading(task, Providers, {}))
  /\ UNCHANGED <<now, started, due, cache, store, failures, history>>

\* loadProviders reads an entry.  When it is done the map enters the cache.
Load(w) ==
  /\ work[w].at = "load"
  /\ \E p \in work[w].todo :
       Becomes(w, Loading(work[w].task, work[w].todo \ {p},
                          work[w].found \cup ({p} \cap Stored(work[w].task.cid))))
  /\ UNCHANGED <<now, started, due, cache, store, failures, history>>

Loaded(w) ==
  /\ work[w].at = "load" /\ work[w].todo = {}
  /\ WithMap(w, work[w].task, work[w].found)
  /\ UNCHANGED <<now, started, due, store, failures, puts>>

\* getProviders resolves.
Answered(w) ==
  /\ work[w].at = "answer"
  /\ Becomes(w, Idle)
  /\ UNCHANGED <<now, started, due, cache, store, failures, history>>

\* Another manager puts, or is going to delete, the entry that a worker puts.
Contended(w) ==
  LET j == work[w] IN
  \E v \in Workers :
    /\ Owner(v) # Owner(w)
    /\ \/ work[v].at = "write" /\ work[v].cid = j.cid /\ work[v].peer = j.peer
       \/ <<j.cid, j.peer>> \in Condemned(v)

\* The put of writeProviderEntry is done and addProvider resolves.
Wrote(w) ==
  /\ work[w].at = "write"
  /\ LET j == work[w]
         late == j.time < latest[j.cid][j.peer]
     IN /\ store' = [store EXCEPT ![j.cid][j.peer] = j.time]
        /\ by' = [by EXCEPT ![j.cid][j.peer] = Owner(w)]
        /\ latest' = [latest EXCEPT ![j.cid][j.peer] = IF late THEN @ ELSE j.time]
        /\ raced' = IF Contended(w) \/ late THEN raced \cup {<<j.cid, j.peer>>}
                                            ELSE raced \ {<<j.cid, j.peer>>}
  /\ Becomes(w, Idle)
  /\ UNCHANGED <<now, started, due, cache, failures, asked>>

\* _cleanup starts to go through the entries of the datastore.
Mut_StartCleanup(w) ==
  /\ work[w] = Idle /\ due[Owner(w)]
  /\ due' = [due EXCEPT ![Owner(w)] = FALSE]
  /\ Becomes(w, Scanning({e \in Keys : cache[Owner(w)][e[1]] # NotCached}, {}))
  /\ UNCHANGED <<now, started, cache, store, failures, history>>
StartCleanup(w) ==
  /\ work[w] = Idle /\ due[Owner(w)]
  /\ due' = [due EXCEPT ![Owner(w)] = FALSE]
  /\ Becomes(w, Scanning(Keys, {}))
  /\ UNCHANGED <<now, started, cache, store, failures, history>>

\* Each entry is compared with the time at which it comes up.
Scan(w) ==
  /\ work[w].at = "scan"
  /\ \E e \in work[w].todo :
       Becomes(w, Scanning(work[w].todo \ {e},
                    IF Expired(e[1], e[2]) THEN work[w].doomed \cup {e}
                                           ELSE work[w].doomed))
  /\ UNCHANGED <<now, started, due, cache, store, failures, history>>

\* The scan is over: commit the batch if there is something in it.
EndScan(w) ==
  /\ work[w].at = "scan" /\ work[w].todo = {}
  /\ Becomes(w, IF work[w].doomed = {} THEN Idle
                ELSE Committing(work[w].doomed, work[w].doomed))
  /\ UNCHANGED <<now, started, due, cache, store, failures, history>>

\* The batch deletes one of its entries.
Delete(w) ==
  /\ work[w].at = "commit"
  /\ \E e \in work[w].todo :
       /\ store' = [store EXCEPT ![e[1]][e[2]] = Absent]
       /\ Becomes(w, Committing(work[w].todo \ {e}, work[w].doomed))
  /\ UNCHANGED <<now, started, due, cache, failures, history>>

\* The batch is committed: clear the same entries from the cache.  A map that
\* becomes empty is removed from it, others may be dropped by it.
Purged(provs, c, doomed) == {p \in provs : <<c, p>> \notin doomed}

Committed(w) ==
  /\ work[w].at = "commit" /\ work[w].todo = {}
  /\ LET mine == cache[Owner(w)]
         doomed == work[w].doomed
     IN \E kept \in SUBSET {c \in Cids : mine[c] # NotCached} :
          cache' = [cache EXCEPT ![Owner(w)] =
                      [c \in Cids |->
                         IF c \notin kept THEN NotCached
                         ELSE IF \A p \in Providers : <<c, p>> \notin doomed THEN mine[c]
                         ELSE IF Purged(mine[c], c, doomed) = {} THEN NotCached
                         ELSE Purged(mine[c], c, doomed)]]
  /\ Becomes(w, Idle)
  /\ UNCHANGED <<now, started, due, store, failures, history>>

\* The datastore fails: the task ends there.
StoreFails(w) ==
  /\ failures < MaxFailures
  /\ failures' = failures + 1
  /\ work[w].at \in {"load", "write", "scan", "commit"}
  /\ Becomes(w, Idle)
  /\ UNCHANGED <<now, started, due, cache, store, history>>

\* The process ends and is started again: only the datastore is left.
Crash ==
  /\ started' = [m \in Managers |-> FALSE]
  /\ due' = [m \in Managers |-> FALSE]
  /\ work' = [w \in Workers |-> Idle]
  /\ cache' = [m \in Managers |-> [c \in Cids |-> NotCached]]
  /\ UNCHANGED <<now, store, failures, history>>

StartCall(w) == \E t \in Task : StartHit(w, t) \/ StartMiss(w, t)

\* What goes on once a task has started.
Running(w) ==
  \/ Load(w) \/ Loaded(w) \/ Answered(w) \/ Wrote(w)
  \/ Scan(w) \/ EndScan(w) \/ Delete(w) \/ Committed(w)

Next ==
  \/ \E m \in Managers :
       \/ CleanupDue(m) \/ Start(m) \/ Stop(m)
  \/ Tick \/ Crash
  \/ \E w \in Workers : StartCall(w) \/ StartCleanup(w) \/ Running(w) \/ StoreFails(w)

\* The intervals keep firing, the datastore answers, and a cleanup that waits is
\* not overtaken for ever, as the queue is first in, first out.  No call need come.
Fairness ==
  /\ \A m \in Managers : WF_vars(CleanupDue(m))
  /\ \A w \in Workers : WF_vars(Running(w)) /\ SF_vars(StartCleanup(w))

Spec == Init /\ [][Next]_vars
FairSpec == Spec /\ Fairness

-----------------------------------------------------------------------------
Times == [Cids -> [Providers -> 0..now]]

Work ==
  {Idle}
    \cup {Loading(t, todo, found) : t \in Task, todo, found \in SUBSET Providers}
    \cup {Writing(c, p, t) : c \in Cids, p \in Providers, t \in 1..now}
    \cup {Scanning(todo, doomed) : todo, doomed \in SUBSET Keys}
    \cup {Committing(todo, doomed) : todo, doomed \in SUBSET Keys}
    \cup {Answering(c, found) : c \in Cids, found \in SUBSET Providers}

TypeOK ==
  /\ now \in Nat \ {0} /\ failures \in Nat
  /\ started \in [Managers -> BOOLEAN]
  /\ due \in [Managers -> BOOLEAN]
  /\ work \in [Workers -> Work]
  /\ cache \in [Managers -> [Cids -> (SUBSET Providers) \cup {NotCached}]]
  /\ store \in Times /\ latest \in Times
  /\ by \in [Cids -> [Providers -> Managers \cup {Nobody}]]
  /\ raced \subseteq Keys /\ asked \subseteq Keys

\* A manager's cache never hides from its own lookups a provider that was announced
\* through this manager and that the datastore holds, whatever fails and whatever
\* the other manager puts and deletes meanwhile (providers.ts:177-205).
CacheCoversOwn ==
  \A m \in Managers, c \in Cids, p \in Providers :
    cache[m][c] # NotCached /\ p \in Stored(c) /\ by[c][p] = m => p \in cache[m][c]

\* A provider whose latest announcement is still valid is in the datastore, across
\* cleanups, failures and restarts, unless that announcement was put while the other
\* manager put the same entry or had found it expired (providers.ts:45-47, 120-147).
AnnouncedSurvives ==
  \A c \in Cids, p \in Providers :
    latest[c][p] # Absent /\ now - latest[c][p] <= Validity /\ <<c, p>> \notin raced
      => store[c][p] = latest[c][p]

\* No cleanup deletes a valid entry that was put by its own manager, not even one
\* that was renewed after the cleanup had become due: what a cleanup loses of the
\* valid entries are those of the other manager (providers.ts:103-147).
OwnAreKept ==
  [][\A w \in Workers, c \in Cids, p \in Providers :
       /\ work'[w] # work[w] /\ by[c][p] = Owner(w)
       /\ store[c][p] # Absent /\ store'[c][p] = Absent
       => now - store[c][p] > Validity]_vars

\* While a manager is started, an expired provider is deleted or announced again,
\* if the datastore does not fail for ever (providers.ts:83-90).
ExpiredGoAway ==
  \A m \in Managers, c \in Cids, p \in Providers :
    started[m] /\ Expired(c, p) ~> ~started[m] \/ ~Expired(c, p)

\* Whatever fails, the caches, the queues and the batches show nothing else than what
\* ProviderMap promises.
Worker(m) == <<m, 1>>
Abstract ==
  INSTANCE ProviderMap WITH
    known <- store,
    condemned <- [m \in Managers |-> Condemned(Worker(m))],
    answer <- [m \in Managers |->
                 IF work[Worker(m)].at = "answer"
                   THEN [cid |-> work[Worker(m)].cid, found |-> work[Worker(m)].found]
                   ELSE NoAnswer]
Implements == Abstract!Spec

-----------------------------------------------------------------------------
\* providers.ts:41-43 "Every `cleanupInterval` providers are checked if they are
\* still valid, i.e. younger than the `provideValidity`. If they are not, they are
\* deleted": a started manager does not keep an expired provider in its cache, from
\* where getProviders answers, for ever.
Outdated(m, c, p) ==
  /\ cache[m][c] # NotCached /\ p \in cache[m][c]
  /\ latest[c][p] # Absent /\ now - latest[c][p] > Validity
ExpiredAreDropped ==
  \A m \in Managers, c \in Cids, p \in Providers :
    started[m] /\ Outdated(m, c, p) ~> ~started[m] \/ ~Outdated(m, c, p)
=============================================================================
