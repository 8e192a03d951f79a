--------------------------- MODULE ProvidersProofs -------------------------
(* Theorems about Providers, for any managers on one datastore, any sets   *)
(* of content ids and providers, any validity, and a datastore and a       *)
(* process that may fail at any time.                                      *)
EXTENDS Providers, TLAPS

-----------------------------------------------------------------------------
(* The inductive invariant.                                                *)

\* A map of c that has what manager m itself put of it.
HasOwn(m, c, provs) == \A p \in Providers : p \in Stored(c) /\ by[c][p] = m => p \in provs

\* What a running task knows still holds, whatever the other manager does: what it
\* has still to read or has read of its own, that the map it writes through has the
\* provider and the time is the latest, what it has deleted, and that what it is
\* about to delete had expired before others renewed it.
LoadKnows(w) ==
  work[w].at = "load" =>
    HasOwn(Owner(w), work[w].task.cid, work[w].todo \cup work[w].found)

WriteKnows(w) ==
  LET c == work[w].cid
      p == work[w].peer
  IN work[w].at = "write" =>
       /\ cache[Owner(w)][c] # NotCached => p \in cache[Owner(w)][c]
       /\ <<c, p>> \notin raced => latest[c][p] <= work[w].time

CommitKnows(w) ==
  work[w].at = "commit" =>
    \A c \in Cids, p \in Providers :
      <<c, p>> \in work[w].doomed \ work[w].todo /\ p \in Stored(c) => by[c][p] # Owner(w)

MayDelete(w, c, p) ==
  /\ p \in Stored(c) /\ by[c][p] = Owner(w) => now - store[c][p] > Validity
  /\ <<c, p>> \notin raced => now - latest[c][p] > Validity

DeleteKnows(w) ==
  \A c \in Cids, p \in Providers : <<c, p>> \in Condemned(w) => MayDelete(w, c, p)

Knows(w) == LoadKnows(w) /\ WriteKnows(w) /\ CommitKnows(w) /\ DeleteKnows(w)
TaskKnows == \A w \in Workers : Knows(w)

\* The datastore is not ahead of the history.
Behind == \A c \in Cids, p \in Providers : store[c][p] <= latest[c][p]

Inv == TypeOK /\ Behind /\ CacheCoversOwn /\ AnnouncedSurvives /\ TaskKnows

-----------------------------------------------------------------------------
(* Types.                                                                  *)

LEMMA OneWorker ==
  /\ \A w \in Workers : Owner(w) \in Managers /\ w = Worker(Owner(w))
  /\ \A m \in Managers : Worker(m) \in Workers /\ Owner(Worker(m)) = m
<1>1. 1..Concurrency = {1}
  BY DEF Concurrency
<1> QED
  BY <1>1 DEF Workers, Owner, Worker

\* Two workers belong to two managers.
LEMMA OtherOwner ==
  ASSUME NEW v \in Workers, NEW w \in Workers, v # w
  PROVE  Owner(v) # Owner(w)
  BY OneWorker

\* The tasks and the states of a worker, by kind.
LEMMA TaskKinds ==
  ASSUME NEW t \in Task
  PROVE  /\ t.cid \in Cids
         /\ t.kind \in {"add", "get"}
         /\ t.kind = "add" => t.peer \in Providers
  BY DEF Task, Add, Get

LEMMA WorkKinds ==
  ASSUME NEW j \in Work
  PROVE  /\ j.at = "load" => /\ j.task \in Task
                             /\ j.todo \subseteq Providers /\ j.found \subseteq Providers
         /\ j.at = "write" => j.cid \in Cids /\ j.peer \in Providers /\ j.time \in 1..now
         /\ j.at = "scan" => j.todo \subseteq Keys /\ j.doomed \subseteq Keys
         /\ j.at = "commit" => j.todo \subseteq Keys /\ j.doomed \subseteq Keys
         /\ j.at = "answer" => j.cid \in Cids /\ j.found \subseteq Providers
  BY DEF Work, Idle, Loading, Writing, Scanning, Committing, Answering

LEMMA WorkTypes ==
  /\ Idle \in Work
  /\ \A t \in Task, todo, found \in SUBSET Providers : Loading(t, todo, found) \in Work
  /\ \A c \in Cids, p \in Providers, t \in 1..now : Writing(c, p, t) \in Work
  /\ \A todo, doomed \in SUBSET Keys : Scanning(todo, doomed) \in Work
  /\ \A todo, doomed \in SUBSET Keys : Committing(todo, doomed) \in Work
  /\ \A c \in Cids, found \in SUBSET Providers : Answering(c, found) \in Work
  BY DEF Work

\* The part of the type that a step with the same clock has to keep.
LEMMA SameClock ==
  ASSUME now' = now
  PROVE  Times' = Times /\ Work' = Work
  BY DEF Times, Work, Writing, Idle, Loading, Scanning, Committing, Answering, Task,
         Add, Get, Keys

\* A value at one place of a table.
LEMMA Put ==
  ASSUME NEW S, NEW T \in [Cids -> [Providers -> S]], NEW U, NEW c \in Cids,
         NEW p \in Providers, NEW x \in S, U = [T EXCEPT ![c][p] = x]
  PROVE  /\ U \in [Cids -> [Providers -> S]]
         /\ U[c][p] = x
         /\ \A d \in Cids, q \in Providers : <<d, q>> # <<c, p>> => U[d][q] = T[d][q]
  OBVIOUS

\* What the type says at one place.
LEMMA Typed ==
  ASSUME TypeOK, NEW c \in Cids, NEW p \in Providers
  PROVE  /\ now \in Nat \ {0} /\ Validity \in Nat
         /\ store[c][p] \in 0..now /\ latest[c][p] \in 0..now
         /\ store[c][p] \in Nat /\ latest[c][p] \in Nat
         /\ by[c][p] \in Managers \cup {Nobody}
<1>1. now \in Nat \ {0} /\ Validity \in Nat
  BY ProvidersAssumption DEF TypeOK
<1>2. store[c][p] \in 0..now /\ latest[c][p] \in 0..now
  BY DEF TypeOK, Times
<1>3. by[c][p] \in Managers \cup {Nobody}
  BY DEF TypeOK
<1> QED
  BY <1>1, <1>2, <1>3

-----------------------------------------------------------------------------
(* A step of one worker that only it and its manager's cache can see.      *)

\* The tasks of the other managers know what they knew.
LEMMA OthersKnow ==
  ASSUME TypeOK, TaskKnows, NEW w \in Workers, NEW j \in Work, Becomes(w, j),
         \A m \in Managers \ {Owner(w)} : cache'[m] = cache[m],
         UNCHANGED <<now, store, puts>>, Knows(w)'
  PROVE  /\ work' \in [Workers -> Work'] /\ work'[w] = j
         /\ TaskKnows'
<1>1. work' \in [Workers -> Work'] /\ work'[w] = j
  BY SameClock DEF TypeOK, Becomes
<1>2. ASSUME NEW v \in Workers, v # w
      PROVE  Knows(v)'
  <2>1. work'[v] = work[v]
    BY <1>2 DEF TypeOK, Becomes
  <2>2. cache'[Owner(v)] = cache[Owner(v)]
    BY <1>2, OneWorker, OtherOwner
  <2>3. Knows(v)
    BY DEF TaskKnows
  <2>4. by' = by /\ latest' = latest /\ raced' = raced /\ store' = store /\ now' = now
    BY DEF puts
  <2>5. LoadKnows(v)'
    BY <2>1, <2>3, <2>4 DEF Knows, LoadKnows, HasOwn, Stored
  <2>6. WriteKnows(v)'
    BY <2>1, <2>2, <2>3, <2>4 DEF Knows, WriteKnows
  <2>7. CommitKnows(v)'
    BY <2>1, <2>3, <2>4 DEF Knows, CommitKnows, Stored
  <2>8. DeleteKnows(v)'
    BY <2>1, <2>3, <2>4 DEF Knows, DeleteKnows, Condemned, MayDelete, Stored
  <2> QED
    BY <2>5, <2>6, <2>7, <2>8 DEF Knows
<1>3. TaskKnows'
  BY <1>2 DEF TaskKnows
<1> QED
  BY <1>1, <1>3
CacheType == cache \in [Managers -> [Cids -> (SUBSET Providers) \cup {NotCached}]]

\* The maps of a manager have what it put itself.
Covers(m) == \A c \in Cids : cache[m][c] # NotCached => HasOwn(m, c, cache[m][c])

LEMMA CoversAll == CacheCoversOwn <=> \A m \in Managers : Covers(m)
  BY DEF CacheCoversOwn, Covers, HasOwn

LEMMA LocalStep ==
  ASSUME Inv, NEW w \in Workers, NEW j \in Work, Becomes(w, j),
         started' = started, due' \in [Managers -> BOOLEAN], failures' \in Nat,
         asked' \subseteq Keys, UNCHANGED <<now, store, puts>>,
         CacheType', \A m \in Managers \ {Owner(w)} : cache'[m] = cache[m],
         Covers(Owner(w))', Knows(w)'
  PROVE  Inv' /\ work'[w] = j
<1>0. /\ by' = by /\ latest' = latest /\ raced' = raced /\ store' = store /\ now' = now
  BY DEF puts
<1>1. work' \in [Workers -> Work'] /\ work'[w] = j /\ TaskKnows'
  BY OthersKnow DEF Inv
<1>2. TypeOK'
  <2>1. Keys' = Keys
    BY DEF Keys
  <2> QED
    BY <1>0, <1>1, <2>1, SameClock DEF Inv, TypeOK, CacheType
<1>3. Behind' /\ AnnouncedSurvives'
  BY <1>0 DEF Inv, Behind, AnnouncedSurvives
<1>4. ASSUME NEW m \in Managers, m # Owner(w)
      PROVE  Covers(m)'
  <2>1. Covers(m) /\ cache'[m] = cache[m]
    BY <1>4, CoversAll DEF Inv
  <2> QED
    BY <1>0, <2>1 DEF Covers, HasOwn, Stored
<1>5. CacheCoversOwn'
  <2>1. \A m \in Managers : Covers(m)'
    BY <1>4
  <2> QED
    BY <1>0, <2>1 DEF CacheCoversOwn, Covers, HasOwn, Stored
<1> QED
  BY <1>1, <1>2, <1>3, <1>5 DEF Inv

\* Tasks that know nothing.
LEMMA KnowsNothing ==
  ASSUME NEW w \in Workers, work'[w].at \in {"idle", "answer"}
  PROVE  Knows(w)'
  BY DEF Knows, LoadKnows, WriteKnows, CommitKnows, DeleteKnows, Condemned

\* The step leaves the cache alone.
LEMMA WorkOnly ==
  ASSUME Inv, NEW w \in Workers, NEW j \in Work, Becomes(w, j),
         UNCHANGED <<now, started, cache, store, history>>,
         due' \in [Managers -> BOOLEAN], failures' \in Nat,
         j.at \in {"idle", "answer"} \/ Knows(w)'
  PROVE  Inv'
<1>0. /\ by' = by /\ latest' = latest /\ raced' = raced /\ asked' = asked
      /\ UNCHANGED puts
  BY DEF history, puts
<1>1. work'[w] = j
  BY DEF Inv, TypeOK, Becomes
<1>2. Knows(w)'
  BY <1>1, KnowsNothing
<1>3. Owner(w) \in Managers /\ Covers(Owner(w))
  BY OneWorker, CoversAll DEF Inv
<1>4. Covers(Owner(w))'
  BY <1>0, <1>3 DEF Covers, HasOwn, Stored
<1>5. CacheType' /\ asked' \subseteq Keys
  BY <1>0 DEF Inv, TypeOK, CacheType
<1> QED
  BY <1>0, <1>2, <1>4, <1>5, LocalStep

-----------------------------------------------------------------------------
(* The steps of a task.                                                    *)

\* cache.set of a map that has what its manager put.
LEMMA CacheSetKeeps ==
  ASSUME Inv, NEW m \in Managers, NEW c \in Cids, NEW provs \in SUBSET Providers,
         HasOwn(m, c, provs), CacheSet(m, c, provs), UNCHANGED <<store, puts>>
  PROVE  /\ CacheType' /\ Covers(m)'
         /\ \A n \in Managers \ {m} : cache'[n] = cache[n]
         /\ cache'[m][c] = provs
<1>0. by' = by /\ store' = store
  BY DEF puts
<1>1. PICK lost \in SUBSET (Cids \ {c}) :
        cache' = [cache EXCEPT ![m] =
                   [d \in Cids |-> IF d = c THEN provs
                                   ELSE IF d \in lost THEN NotCached ELSE cache[m][d]]]
  BY DEF CacheSet
<1> DEFINE new == [d \in Cids |-> IF d = c THEN provs
                                 ELSE IF d \in lost THEN NotCached ELSE cache[m][d]]
<1>2. new \in [Cids -> (SUBSET Providers) \cup {NotCached}] /\ new[c] = provs
  BY DEF Inv, TypeOK
<1>3. \A d \in Cids : (new[d] = provs /\ d = c) \/ new[d] = NotCached \/ new[d] = cache[m][d]
  OBVIOUS
<1> HIDE DEF new
<1>4. cache' = [cache EXCEPT ![m] = new]
  BY <1>1 DEF new
<1>5. cache'[m] = new /\ \A n \in Managers \ {m} : cache'[n] = cache[n]
  BY <1>4 DEF Inv, TypeOK
<1>6. CacheType'
  BY <1>2, <1>4 DEF Inv, TypeOK, CacheType
<1>7. ASSUME NEW d \in Cids, new[d] # NotCached
      PROVE  HasOwn(m, d, new[d])
  <2>1. CASE d = c /\ new[d] = provs
    BY <2>1
  <2>2. CASE new[d] = cache[m][d]
    BY <1>7, <2>2, CoversAll DEF Inv, Covers
  <2> QED
    BY <1>3, <1>7, <2>1, <2>2
<1>8. Covers(m)'
  BY <1>0, <1>5, <1>7 DEF Covers, HasOwn, Stored
<1> QED
  BY <1>2, <1>5, <1>6, <1>8

\* addProvider or getProviders goes on with a map.
LEMMA WithMapKeeps ==
  ASSUME Inv, NEW w \in Workers, NEW task \in Task, NEW provs \in SUBSET Providers,
         HasOwn(Owner(w), task.cid, provs), WithMap(w, task, provs),
         UNCHANGED <<now, started, due, store, failures, puts>>
  PROVE  Inv'
<1>0. /\ TypeOK /\ task.cid \in Cids /\ now \in Nat \ {0} /\ Owner(w) \in Managers
      /\ due' \in [Managers -> BOOLEAN] /\ failures' \in Nat /\ asked \subseteq Keys
  BY TaskKinds, OneWorker DEF Inv, TypeOK
<1>1. CASE task.kind = "add"
  <2> DEFINE new == provs \cup {task.peer}
             job == Writing(task.cid, task.peer, now)
  <2>1. task.peer \in Providers
    BY <1>1, TaskKinds
  <2>2. /\ CacheSet(Owner(w), task.cid, new) /\ Becomes(w, job)
        /\ asked' = asked \cup {<<task.cid, task.peer>>}
    BY <1>1, Zenon DEF WithMap
  <2>3. new \in SUBSET Providers /\ HasOwn(Owner(w), task.cid, new)
    BY <2>1 DEF HasOwn
  <2>4. /\ CacheType' /\ Covers(Owner(w))'
        /\ \A n \in Managers \ {Owner(w)} : cache'[n] = cache[n]
        /\ cache'[Owner(w)][task.cid] = new
    BY <1>0, <2>2, <2>3, CacheSetKeeps
  <2>5. job \in Work
    BY <1>0, <2>1, WorkTypes
  <2>6. asked' \subseteq Keys
    BY <1>0, <2>1, <2>2 DEF Keys
  <2>7. work'[w] = job
    BY <1>0, <2>2 DEF TypeOK, Becomes
  <2>8. Knows(w)'
    <3>1. /\ work'[w].at = "write" /\ work'[w].cid = task.cid
          /\ work'[w].peer = task.peer /\ work'[w].time = now
      BY <2>7 DEF Writing
    <3>2. latest'[task.cid][task.peer] <= now
      BY <1>0, <2>1, Typed DEF puts
    <3>3. task.peer \in cache'[Owner(w)][task.cid]
      BY <2>4
    <3>4. WriteKnows(w)'
      BY <3>1, <3>2, <3>3 DEF WriteKnows
    <3>5. LoadKnows(w)' /\ CommitKnows(w)' /\ DeleteKnows(w)'
      BY <3>1 DEF LoadKnows, CommitKnows, DeleteKnows, Condemned
    <3> QED
      BY <3>4, <3>5 DEF Knows
  <2> HIDE DEF job, new
  <2> QED
    BY <1>0, <2>2, <2>4, <2>5, <2>6, <2>8, LocalStep
<1>2. CASE task.kind = "get"
  <2> DEFINE job == Answering(task.cid, provs)
  <2>1. CacheSet(Owner(w), task.cid, provs) /\ Becomes(w, job) /\ asked' = asked
    BY <1>2, Zenon DEF WithMap
  <2>2. /\ CacheType' /\ Covers(Owner(w))'
        /\ \A n \in Managers \ {Owner(w)} : cache'[n] = cache[n]
    BY <1>0, <2>1, CacheSetKeeps
  <2>3. job \in Work /\ job.at = "answer"
    BY <1>0, WorkTypes DEF Answering
  <2> HIDE DEF job
  <2>4. Knows(w)'
    BY <1>0, <2>1, <2>3, KnowsNothing DEF TypeOK, Becomes
  <2> QED
    BY <1>0, <2>1, <2>2, <2>3, <2>4, LocalStep
<1> QED
  BY <1>1, <1>2, TaskKinds

LEMMA StartHitKeeps ==
  ASSUME Inv, NEW w \in Workers, NEW task \in Task, StartHit(w, task)
  PROVE  Inv'
<1> DEFINE provs == cache[Owner(w)][task.cid]
<1>1. Owner(w) \in Managers /\ task.cid \in Cids
  BY OneWorker, TaskKinds
<1>2. provs \in SUBSET Providers /\ HasOwn(Owner(w), task.cid, provs)
  BY <1>1, CoversAll DEF Inv, TypeOK, StartHit, Covers
<1>3. WithMap(w, task, provs) /\ UNCHANGED <<now, started, due, store, failures, puts>>
  BY DEF StartHit
<1> HIDE DEF provs
<1> QED
  BY <1>2, <1>3, WithMapKeeps

LEMMA StartMissKeeps ==
  ASSUME Inv, NEW w \in Workers, NEW task \in Task, StartMiss(w, task)
  PROVE  Inv'
<1> DEFINE job == Loading(task, Providers, {})
<1>1. /\ job \in Work /\ Becomes(w, job)
      /\ UNCHANGED <<now, started, due, cache, store, failures, history>>
  BY WorkTypes DEF StartMiss
<1>2. work'[w] = job
  BY <1>1 DEF Inv, TypeOK, Becomes
<1>3. /\ work'[w].at = "load" /\ work'[w].todo = Providers
  BY <1>2 DEF Loading
<1>4. Knows(w)'
  BY <1>3 DEF Knows, LoadKnows, HasOwn, WriteKnows, CommitKnows, DeleteKnows, Condemned
<1> HIDE DEF job
<1> QED
  BY <1>1, <1>4, WorkOnly DEF Inv, TypeOK

LEMMA LoadKeeps ==
  ASSUME Inv, NEW w \in Workers, Load(w)
  PROVE  Inv'
<1> DEFINE j == work[w]
<1>1. /\ j \in Work /\ j.at = "load" /\ j.task \in Task
      /\ j.todo \subseteq Providers /\ j.found \subseteq Providers
      /\ LoadKnows(w)
  BY WorkKinds DEF Inv, TypeOK, Load, TaskKnows, Knows
<1>2. /\ UNCHANGED <<now, started, due, cache, store, failures, history>>
      /\ by' = by /\ store' = store
  BY DEF Load, history, puts
<1>3. PICK p \in j.todo :
        Becomes(w, Loading(j.task, j.todo \ {p}, j.found \cup ({p} \cap Stored(j.task.cid))))
  BY DEF Load
<1> DEFINE job == Loading(j.task, j.todo \ {p}, j.found \cup ({p} \cap Stored(j.task.cid)))
<1>4. job \in Work
  BY <1>1, WorkTypes
<1>5. work'[w] = job
  BY <1>3 DEF Inv, TypeOK, Becomes
<1>6. /\ work'[w].at = "load" /\ work'[w].task = j.task /\ work'[w].todo = j.todo \ {p}
      /\ work'[w].found = j.found \cup ({p} \cap Stored(j.task.cid))
  BY <1>5 DEF Loading
<1>7. HasOwn(Owner(w), j.task.cid, j.todo \cup j.found)
  BY <1>1 DEF LoadKnows
<1> HIDE DEF j
<1>8. HasOwn(Owner(w), j.task.cid, work'[w].todo \cup work'[w].found)
  BY <1>6, <1>7 DEF HasOwn
<1>9. LoadKnows(w)'
  BY <1>2, <1>6, <1>8 DEF LoadKnows, HasOwn, Stored
<1>10. Knows(w)'
  BY <1>6, <1>9 DEF Knows, WriteKnows, CommitKnows, DeleteKnows, Condemned
<1> HIDE DEF job
<1>11. Becomes(w, job)
  BY <1>3 DEF job
<1> QED
  BY <1>2, <1>4, <1>10, <1>11, WorkOnly DEF Inv, TypeOK

LEMMA LoadedKeeps ==
  ASSUME Inv, NEW w \in Workers, Loaded(w)
  PROVE  Inv'
<1> DEFINE task == work[w].task
           found == work[w].found
<1>1. task \in Task /\ found \in SUBSET Providers /\ HasOwn(Owner(w), task.cid, found)
  <2>1. work[w] \in Work /\ work[w].at = "load" /\ work[w].todo = {} /\ LoadKnows(w)
    BY DEF Inv, TypeOK, Loaded, TaskKnows, Knows
  <2>2. {} \cup found = found
    OBVIOUS
  <2> QED
    BY <2>1, <2>2, WorkKinds DEF LoadKnows
<1>2. WithMap(w, task, found) /\ UNCHANGED <<now, started, due, store, failures, puts>>
  BY DEF Loaded
<1> HIDE DEF task, found
<1> QED
  BY <1>1, <1>2, WithMapKeeps

LEMMA StartCleanupKeeps ==
  ASSUME Inv, NEW w \in Workers, StartCleanup(w)
  PROVE  Inv'
<1> DEFINE job == Scanning(Keys, {})
<1>1. /\ job \in Work /\ Becomes(w, job)
      /\ UNCHANGED <<now, started, cache, store, failures, history>>
      /\ due' \in [Managers -> BOOLEAN]
  BY WorkTypes DEF StartCleanup, Inv, TypeOK
<1>2. work'[w] = job
  BY <1>1 DEF Inv, TypeOK, Becomes
<1>3. work'[w].at = "scan" /\ work'[w].doomed = {}
  BY <1>2 DEF Scanning
<1>4. Knows(w)'
  BY <1>3 DEF Knows, LoadKnows, WriteKnows, CommitKnows, DeleteKnows, Condemned
<1> HIDE DEF job
<1> QED
  BY <1>1, <1>4, WorkOnly DEF Inv, TypeOK

\* An entry that is found expired may be deleted.
LEMMA ExpiredMayGo ==
  ASSUME Inv, NEW w \in Workers, NEW c \in Cids, NEW p \in Providers, Expired(c, p)
  PROVE  MayDelete(w, c, p)
<1>1. /\ now \in Nat /\ Validity \in Nat /\ store[c][p] \in Nat /\ latest[c][p] \in Nat
      /\ store[c][p] <= latest[c][p]
  BY Typed DEF Inv, Behind
<1>2. store[c][p] # 0 /\ now - store[c][p] > Validity
  BY DEF Expired, Absent
<1>3. ASSUME <<c, p>> \notin raced, now - latest[c][p] <= Validity
      PROVE  FALSE
  <2>1. latest[c][p] # Absent
    BY <1>1, <1>2 DEF Absent
  <2>2. store[c][p] = latest[c][p]
    BY <1>3, <2>1 DEF Inv, AnnouncedSurvives
  <2> QED
    BY <1>1, <1>2, <1>3, <2>2
<1> QED
  BY <1>1, <1>2, <1>3 DEF MayDelete

LEMMA ScanKeeps ==
  ASSUME Inv, NEW w \in Workers, Scan(w)
  PROVE  Inv'
<1> DEFINE j == work[w]
<1>1. /\ j \in Work /\ j.at = "scan" /\ j.todo \subseteq Keys /\ j.doomed \subseteq Keys
      /\ DeleteKnows(w)
  BY WorkKinds DEF Inv, TypeOK, Scan, TaskKnows, Knows
<1>2. /\ UNCHANGED <<now, started, due, cache, store, failures, history>>
      /\ by' = by /\ latest' = latest /\ raced' = raced /\ store' = store /\ now' = now
  BY DEF Scan, history, puts
<1>3. PICK e \in j.todo :
        Becomes(w, Scanning(j.todo \ {e},
                     IF Expired(e[1], e[2]) THEN j.doomed \cup {e} ELSE j.doomed))
  BY DEF Scan
<1> DEFINE doomed == IF Expired(e[1], e[2]) THEN j.doomed \cup {e} ELSE j.doomed
           job == Scanning(j.todo \ {e}, doomed)
<1>4. e \in Keys /\ doomed \in SUBSET Keys /\ job \in Work
  BY <1>1, WorkTypes
<1>5. work'[w] = job
  BY <1>3 DEF Inv, TypeOK, Becomes
<1>6. work'[w].at = "scan" /\ work'[w].doomed = doomed
  BY <1>5 DEF Scanning
<1>7. ASSUME NEW c \in Cids, NEW p \in Providers, <<c, p>> \in doomed
      PROVE  MayDelete(w, c, p)
  <2>1. CASE <<c, p>> \in j.doomed
    BY <1>1, <2>1 DEF DeleteKnows, Condemned
  <2>2. CASE <<c, p>> = e /\ Expired(e[1], e[2])
    <3>1. Expired(c, p)
      BY <2>2
    <3> QED
      BY <3>1, ExpiredMayGo
  <2> QED
    BY <1>7, <2>1, <2>2
<1> HIDE DEF doomed
<1>8. DeleteKnows(w)'
  BY <1>2, <1>6, <1>7 DEF DeleteKnows, Condemned, MayDelete, Stored
<1>9. Knows(w)'
  BY <1>6, <1>8 DEF Knows, LoadKnows, WriteKnows, CommitKnows
<1>10. Becomes(w, job)
  BY <1>3 DEF doomed
<1> HIDE DEF job, j
<1> QED
  BY <1>2, <1>4, <1>9, <1>10, WorkOnly DEF Inv, TypeOK

LEMMA EndScanKeeps ==
  ASSUME Inv, NEW w \in Workers, EndScan(w)
  PROVE  Inv'
<1> DEFINE doomed == work[w].doomed
           job == IF doomed = {} THEN Idle ELSE Committing(doomed, doomed)
<1>1. /\ work[w].at = "scan" /\ doomed \in SUBSET Keys /\ DeleteKnows(w)
  BY WorkKinds DEF Inv, TypeOK, EndScan, TaskKnows, Knows
<1>2. /\ UNCHANGED <<now, started, due, cache, store, failures, history>>
      /\ by' = by /\ latest' = latest /\ raced' = raced /\ store' = store /\ now' = now
      /\ Becomes(w, job)
  BY DEF EndScan, history, puts
<1>3. job \in Work
  BY <1>1, WorkTypes
<1>4. work'[w] = job
  BY <1>2 DEF Inv, TypeOK, Becomes
<1>5. \A c \in Cids, p \in Providers : <<c, p>> \in doomed => MayDelete(w, c, p)
  BY <1>1 DEF DeleteKnows, Condemned
<1>6. CASE job = Idle
  <2>1. work'[w].at = "idle"
    BY <1>4, <1>6 DEF Idle
  <2>2. Knows(w)'
    BY <2>1, KnowsNothing
  <2> HIDE DEF job
  <2> QED
    BY <1>2, <1>3, <2>2, WorkOnly DEF Inv, TypeOK
<1>7. CASE job = Committing(doomed, doomed)
  <2>1. work'[w].at = "commit" /\ work'[w].todo = doomed /\ work'[w].doomed = doomed
    BY <1>4, <1>7 DEF Committing
  <2> HIDE DEF doomed, job
  <2>2. DeleteKnows(w)'
    BY <1>2, <1>5, <2>1 DEF DeleteKnows, Condemned, MayDelete, Stored
  <2>3. Knows(w)'
    BY <2>1, <2>2 DEF Knows, LoadKnows, WriteKnows, CommitKnows
  <2> QED
    BY <1>2, <1>3, <2>3, WorkOnly DEF Inv, TypeOK
<1> QED
  BY <1>6, <1>7

LEMMA AnsweredKeeps ==
  ASSUME Inv, NEW w \in Workers, Answered(w)
  PROVE  Inv'
<1>1. /\ Becomes(w, Idle) /\ Idle \in Work /\ Idle.at = "idle"
      /\ UNCHANGED <<now, started, due, cache, store, failures, history>>
  BY WorkTypes DEF Answered, Idle
<1> QED
  BY <1>1, WorkOnly DEF Inv, TypeOK

LEMMA StoreFailsKeeps ==
  ASSUME Inv, NEW w \in Workers, StoreFails(w)
  PROVE  Inv'
<1>1. /\ Becomes(w, Idle) /\ Idle \in Work /\ Idle.at = "idle"
      /\ UNCHANGED <<now, started, due, cache, store, history>>
  BY WorkTypes DEF StoreFails, Idle
<1>2. due' \in [Managers -> BOOLEAN] /\ failures' \in Nat
  BY DEF StoreFails, Inv, TypeOK
<1> QED
  BY <1>1, <1>2, WorkOnly

\* What a purge leaves of a map still has what its manager put: the entries that it
\* takes out are no longer in the datastore, or are another's by now.
LEMMA CommittedKeeps ==
  ASSUME Inv, NEW w \in Workers, Committed(w)
  PROVE  Inv'
<1> DEFINE doomed == work[w].doomed
           m == Owner(w)
           mine == cache[Owner(w)]
<1>1. /\ doomed \subseteq Keys /\ m \in Managers
      /\ \A c \in Cids, p \in Providers : <<c, p>> \in doomed /\ p \in Stored(c) => by[c][p] # m
  <2>1. work[w] \in Work /\ work[w].at = "commit" /\ work[w].todo = {} /\ CommitKnows(w)
    BY DEF Inv, TypeOK, Committed, TaskKnows, Knows
  <2>2. work[w].doomed \ {} = work[w].doomed
    OBVIOUS
  <2> QED
    BY <2>1, <2>2, WorkKinds, OneWorker DEF CommitKnows
<1>2. /\ Becomes(w, Idle) /\ Idle \in Work /\ Idle.at = "idle" /\ Covers(m)
      /\ UNCHANGED <<now, started, due, store, failures, asked, puts>>
      /\ by' = by /\ store' = store
  BY <1>1, WorkTypes, CoversAll DEF Committed, Idle, history, puts, Inv
<1>3. PICK kept \in SUBSET {c \in Cids : mine[c] # NotCached} :
        cache' = [cache EXCEPT ![m] =
                   [c \in Cids |->
                      IF c \notin kept THEN NotCached
                      ELSE IF \A p \in Providers : <<c, p>> \notin doomed THEN mine[c]
                      ELSE IF Purged(mine[c], c, doomed) = {} THEN NotCached
                      ELSE Purged(mine[c], c, doomed)]]
  BY DEF Committed
<1> DEFINE new == [c \in Cids |->
                      IF c \notin kept THEN NotCached
                      ELSE IF \A p \in Providers : <<c, p>> \notin doomed THEN mine[c]
                      ELSE IF Purged(mine[c], c, doomed) = {} THEN NotCached
                      ELSE Purged(mine[c], c, doomed)]
<1>4. \A c \in Cids : \/ new[c] = NotCached
                      \/ mine[c] # NotCached /\ new[c] = mine[c]
                      \/ mine[c] # NotCached /\ new[c] = Purged(mine[c], c, doomed)
  OBVIOUS
<1>5. \A c \in Cids : mine[c] # NotCached =>
        mine[c] \in SUBSET Providers /\ Purged(mine[c], c, doomed) \in SUBSET Providers
  BY <1>1 DEF Inv, TypeOK, Purged
<1>6. new \in [Cids -> (SUBSET Providers) \cup {NotCached}]
  <2>1. \A c \in Cids : new[c] \in (SUBSET Providers) \cup {NotCached}
    <3> HIDE DEF new
    <3> QED
      BY <1>4, <1>5
  <2> QED
    BY <2>1
<1>7. cache' = [cache EXCEPT ![m] = new]
  BY <1>3
<1> HIDE DEF new
<1>8. cache'[m] = new /\ \A n \in Managers \ {m} : cache'[n] = cache[n]
  BY <1>1, <1>7 DEF Inv, TypeOK
<1>9. CacheType'
  BY <1>1, <1>6, <1>7 DEF Inv, TypeOK, CacheType
<1>10. ASSUME NEW c \in Cids, new[c] # NotCached
       PROVE  HasOwn(m, c, new[c])
  <2>1. mine[c] # NotCached /\ HasOwn(m, c, mine[c])
    BY <1>2, <1>4, <1>10 DEF Covers
  <2> HIDE DEF mine, doomed
  <2>2. HasOwn(m, c, Purged(mine[c], c, doomed))
    BY <1>1, <2>1 DEF HasOwn, Purged
  <2> QED
    BY <1>4, <1>10, <2>1, <2>2
<1>11. Covers(m)'
  BY <1>2, <1>8, <1>10 DEF Covers, HasOwn, Stored
<1>12. Knows(w)'
  BY <1>2, KnowsNothing DEF Inv, TypeOK, Becomes
<1> HIDE DEF m
<1>13. /\ started' = started /\ due' \in [Managers -> BOOLEAN] /\ failures' \in Nat
       /\ asked' \subseteq Keys
  BY <1>2 DEF Inv, TypeOK
<1> QED
  BY <1>2, <1>8, <1>9, <1>11, <1>12, <1>13, LocalStep DEF m

-----------------------------------------------------------------------------
(* The steps of the datastore.                                             *)

\* The entries <<d, q>> other than <<c, p>>.
Other(d, q, c, p) == d \in Cids /\ q \in Providers /\ <<d, q>> # <<c, p>>

\* A put.
LEMMA WroteFacts ==
  ASSUME Inv, NEW w \in Workers, Wrote(w), NEW c, NEW p, NEW t,
         c = work[w].cid, p = work[w].peer, t = work[w].time
  PROVE  /\ c \in Cids /\ p \in Providers /\ t \in 1..now /\ now \in Nat
         /\ store' \in Times /\ latest' \in Times
         /\ by' \in [Cids -> [Providers -> Managers \cup {Nobody}]]
         /\ store'[c][p] = t /\ by'[c][p] = Owner(w)
         /\ latest'[c][p] = IF t < latest[c][p] THEN latest[c][p] ELSE t
         /\ \A d, q : Other(d, q, c, p) =>
              /\ store'[d][q] = store[d][q] /\ latest'[d][q] = latest[d][q]
              /\ by'[d][q] = by[d][q]
         /\ raced' = IF Contended(w) \/ t < latest[c][p] THEN raced \cup {<<c, p>>}
                                                         ELSE raced \ {<<c, p>>}
         /\ work' = [work EXCEPT ![w] = Idle]
         /\ UNCHANGED <<now, started, due, cache, failures, asked>>
<1>1. c \in Cids /\ p \in Providers /\ t \in 1..now /\ now \in Nat
  BY WorkKinds DEF Inv, TypeOK, Wrote
<1>2. /\ store' = [store EXCEPT ![c][p] = t]
      /\ by' = [by EXCEPT ![c][p] = Owner(w)]
      /\ latest' = [latest EXCEPT ![c][p] = IF t < latest[c][p] THEN @ ELSE t]
      /\ raced' = IF Contended(w) \/ t < latest[c][p] THEN raced \cup {<<c, p>>}
                                                      ELSE raced \ {<<c, p>>}
      /\ work' = [work EXCEPT ![w] = Idle]
      /\ UNCHANGED <<now, started, due, cache, failures, asked>>
  BY DEF Wrote, Becomes
<1>3. store \in Times /\ latest \in Times /\ latest[c][p] \in 0..now /\ t \in 0..now
  BY <1>1, Typed DEF Inv, TypeOK
<1>4. /\ store' \in Times /\ store'[c][p] = t
      /\ \A d \in Cids, q \in Providers : <<d, q>> # <<c, p>> => store'[d][q] = store[d][q]
  BY <1>1, <1>2, <1>3, Put DEF Times
<1>5. /\ by' \in [Cids -> [Providers -> Managers \cup {Nobody}]] /\ by'[c][p] = Owner(w)
      /\ \A d \in Cids, q \in Providers : <<d, q>> # <<c, p>> => by'[d][q] = by[d][q]
  <2>1. Owner(w) \in Managers \cup {Nobody}
    BY OneWorker
  <2>2. by \in [Cids -> [Providers -> Managers \cup {Nobody}]]
    BY DEF Inv, TypeOK
  <2> QED
    BY <1>1, <1>2, <2>1, <2>2, Put
<1>6. /\ latest' \in Times
      /\ latest'[c][p] = IF t < latest[c][p] THEN latest[c][p] ELSE t
      /\ \A d \in Cids, q \in Providers : <<d, q>> # <<c, p>> => latest'[d][q] = latest[d][q]
  <2> DEFINE x == IF t < latest[c][p] THEN latest[c][p] ELSE t
  <2>1. x \in 0..now /\ latest' = [latest EXCEPT ![c][p] = x]
    BY <1>2, <1>3
  <2> HIDE DEF x
  <2>2. /\ latest' \in Times /\ latest'[c][p] = x
        /\ \A d \in Cids, q \in Providers : <<d, q>> # <<c, p>> => latest'[d][q] = latest[d][q]
    BY <1>1, <1>3, <2>1, Put DEF Times
  <2> QED
    BY <2>2 DEF x
<1>7. ASSUME NEW d, NEW q, Other(d, q, c, p)
      PROVE  /\ store'[d][q] = store[d][q] /\ latest'[d][q] = latest[d][q]
             /\ by'[d][q] = by[d][q]
  BY <1>4, <1>5, <1>6, <1>7 DEF Other
<1> QED
  BY <1>1, <1>2, <1>4, <1>5, <1>6, <1>7

\* What the tasks of the other managers know of the entry that was put: nothing, or
\* it is raced now.
LEMMA OthersKnowPut ==
  ASSUME Inv, NEW w \in Workers, Wrote(w), NEW v \in Workers, v # w
  PROVE  Knows(v)'
<1> DEFINE c == work[w].cid
           p == work[w].peer
           t == work[w].time
<1>1. /\ c \in Cids /\ p \in Providers
      /\ by'[c][p] = Owner(w)
      /\ \A d, q : Other(d, q, c, p) =>
              /\ store'[d][q] = store[d][q] /\ latest'[d][q] = latest[d][q]
              /\ by'[d][q] = by[d][q]
      /\ raced' = IF Contended(w) \/ t < latest[c][p] THEN raced \cup {<<c, p>>}
                                                      ELSE raced \ {<<c, p>>}
      /\ work' = [work EXCEPT ![w] = Idle]
      /\ now' = now /\ cache' = cache
  BY WroteFacts
<1>2. /\ Knows(v) /\ Owner(v) # Owner(w) /\ work'[v] = work[v]
      /\ work[v] \in Work
  BY <1>1, OtherOwner DEF Inv, TypeOK, TaskKnows
<1>3. \A d, q : Other(d, q, c, p) => (<<d, q>> \in raced' <=> <<d, q>> \in raced)
  BY <1>1 DEF Other
<1>4. \A d \in Cids, q \in Providers : Other(d, q, c, p) \/ (d = c /\ q = p)
  BY DEF Other
<1>5. work[v].at = "write" /\ work[v].cid = c /\ work[v].peer = p => <<c, p>> \in raced'
  BY <1>1, <1>2 DEF Contended
<1>6. <<c, p>> \in Condemned(v) => <<c, p>> \in raced'
  BY <1>1, <1>2 DEF Contended
<1> HIDE DEF c, p, t
<1>7. LoadKnows(v)'
  <2>1. CASE work[v].at = "load"
    <3>1. HasOwn(Owner(v), work[v].task.cid, work[v].todo \cup work[v].found)
      BY <1>2, <2>1 DEF Knows, LoadKnows
    <3>2. work[v].task.cid \in Cids
      BY <1>2, <2>1, WorkKinds, TaskKinds
    <3>3. HasOwn(Owner(v), work[v].task.cid, work[v].todo \cup work[v].found)'
      BY <1>1, <1>2, <1>4, <3>1, <3>2 DEF HasOwn, Stored
    <3> QED
      BY <1>2, <3>3 DEF LoadKnows
  <2> QED
    BY <1>2, <2>1 DEF LoadKnows
<1>8. WriteKnows(v)'
  <2>1. CASE work[v].at = "write"
    <3>1. work[v].cid \in Cids /\ work[v].peer \in Providers /\ WriteKnows(v)
      BY <1>2, <2>1, WorkKinds DEF Knows
    <3>2. CASE work[v].cid = c /\ work[v].peer = p
      BY <1>1, <1>2, <1>5, <3>1, <3>2 DEF WriteKnows
    <3>3. CASE Other(work[v].cid, work[v].peer, c, p)
      BY <1>1, <1>2, <1>3, <3>1, <3>3 DEF WriteKnows
    <3> QED
      BY <1>4, <3>1, <3>2, <3>3
  <2> QED
    BY <1>2, <2>1 DEF WriteKnows
<1>9. CommitKnows(v)'
  <2>1. CommitKnows(v)
    BY <1>2 DEF Knows
  <2> QED
    BY <1>1, <1>2, <1>4, <2>1 DEF CommitKnows, Stored
<1>10. DeleteKnows(v)'
  <2>1. Condemned(v)' = Condemned(v) /\ DeleteKnows(v)
    BY <1>2 DEF Condemned, Knows
  <2>2. ASSUME NEW d \in Cids, NEW q \in Providers, <<d, q>> \in Condemned(v)
        PROVE  MayDelete(v, d, q)'
    <3>1. MayDelete(v, d, q)
      BY <2>1, <2>2 DEF DeleteKnows
    <3>2. CASE d = c /\ q = p
      BY <1>1, <1>2, <1>6, <2>2, <3>2 DEF MayDelete
    <3>3. CASE Other(d, q, c, p)
      BY <1>1, <1>3, <3>1, <3>3 DEF MayDelete, Stored
    <3> QED
      BY <1>4, <3>2, <3>3
  <2> QED
    BY <2>1, <2>2 DEF DeleteKnows
<1> QED
  BY <1>7, <1>8, <1>9, <1>10 DEF Knows

LEMMA WroteKeeps ==
  ASSUME Inv, NEW w \in Workers, Wrote(w)
  PROVE  Inv'
<1> DEFINE c == work[w].cid
           p == work[w].peer
           t == work[w].time
<1>1. /\ c \in Cids /\ p \in Providers /\ t \in 1..now /\ now \in Nat
      /\ store' \in Times /\ latest' \in Times
      /\ by' \in [Cids -> [Providers -> Managers \cup {Nobody}]]
      /\ store'[c][p] = t /\ by'[c][p] = Owner(w)
      /\ latest'[c][p] = IF t < latest[c][p] THEN latest[c][p] ELSE t
      /\ \A d, q : Other(d, q, c, p) =>
              /\ store'[d][q] = store[d][q] /\ latest'[d][q] = latest[d][q]
              /\ by'[d][q] = by[d][q]
      /\ raced' = IF Contended(w) \/ t < latest[c][p] THEN raced \cup {<<c, p>>}
                                                      ELSE raced \ {<<c, p>>}
      /\ work' = [work EXCEPT ![w] = Idle]
      /\ UNCHANGED <<now, started, due, cache, failures, asked>>
  BY WroteFacts
<1>2. /\ work[w].at = "write"
      /\ cache[Owner(w)][c] # NotCached => p \in cache[Owner(w)][c]
  BY DEF Inv, TaskKnows, Knows, WriteKnows, Wrote
<1>3. \A d \in Cids, q \in Providers : Other(d, q, c, p) \/ (d = c /\ q = p)
  BY DEF Other
<1>4. \A d \in Cids, q \in Providers : /\ store[d][q] \in Nat /\ latest[d][q] \in Nat
                                       /\ store[d][q] <= latest[d][q]
  BY Typed DEF Inv, Behind
<1>5. work' \in [Workers -> Work'] /\ work'[w] = Idle
  BY <1>1, SameClock, WorkTypes DEF Inv, TypeOK
<1> HIDE DEF c, p, t
<1>6. TypeOK'
  <2>1. Times' = Times /\ Keys' = Keys
    BY <1>1, SameClock DEF Keys
  <2>2. raced' \subseteq Keys
    BY <1>1 DEF Inv, TypeOK, Keys
  <2> QED
    BY <1>1, <1>5, <2>1, <2>2 DEF Inv, TypeOK
<1>7. Behind'
  <2>1. ASSUME NEW d \in Cids, NEW q \in Providers
        PROVE  store'[d][q] <= latest'[d][q]
    BY <1>1, <1>3, <1>4
  <2> QED
    BY <2>1 DEF Behind
<1>8. AnnouncedSurvives'
  <2>1. ASSUME NEW d \in Cids, NEW q \in Providers, latest'[d][q] # Absent,
               now - latest'[d][q] <= Validity, <<d, q>> \notin raced'
        PROVE  store'[d][q] = latest'[d][q]
    <3>1. CASE d = c /\ q = p
      BY <1>1, <2>1, <3>1
    <3>2. CASE Other(d, q, c, p)
      <4>1. <<d, q>> \notin raced
        BY <1>1, <2>1, <3>2 DEF Other
      <4> QED
        BY <1>1, <2>1, <3>2, <4>1 DEF Inv, AnnouncedSurvives
    <3> QED
      BY <1>3, <3>1, <3>2
  <2> QED
    BY <1>1, <2>1 DEF AnnouncedSurvives
<1>9. CacheCoversOwn'
  <2>1. ASSUME NEW m \in Managers, NEW d \in Cids, NEW q \in Providers,
               cache[m][d] # NotCached, store'[d][q] # Absent, by'[d][q] = m
        PROVE  q \in cache[m][d]
    <3>1. CASE d = c /\ q = p
      BY <1>1, <1>2, <2>1, <3>1
    <3>2. CASE Other(d, q, c, p)
      BY <1>1, <2>1, <3>2 DEF Inv, CacheCoversOwn, Stored
    <3> QED
      BY <1>3, <3>1, <3>2
  <2> QED
    BY <1>1, <2>1 DEF CacheCoversOwn, Stored
<1>10. Knows(w)'
  BY <1>5, KnowsNothing DEF Idle
<1>11. TaskKnows'
  BY <1>10, OthersKnowPut DEF TaskKnows
<1> QED
  BY <1>6, <1>7, <1>8, <1>9, <1>11 DEF Inv

\* The batch of a cleanup deletes one entry.
LEMMA DeleteFacts ==
  ASSUME Inv, NEW w \in Workers, Delete(w)
  PROVE  \E c \in Cids, p \in Providers :
           /\ <<c, p>> \in work[w].todo /\ work[w].at = "commit"
           /\ store' \in Times /\ store'[c][p] = Absent
           /\ \A d, q : Other(d, q, c, p) => store'[d][q] = store[d][q]
           /\ Becomes(w, Committing(work[w].todo \ {<<c, p>>}, work[w].doomed))
           /\ work'[w] = Committing(work[w].todo \ {<<c, p>>}, work[w].doomed)
           /\ work' \in [Workers -> Work]
           /\ UNCHANGED <<now, started, due, cache, failures, history>>
<1>1. work[w].at = "commit" /\ work[w].todo \subseteq Keys /\ work[w].doomed \subseteq Keys
  BY WorkKinds DEF Inv, TypeOK, Delete
<1>2. PICK e \in work[w].todo :
        /\ store' = [store EXCEPT ![e[1]][e[2]] = Absent]
        /\ Becomes(w, Committing(work[w].todo \ {e}, work[w].doomed))
  BY DEF Delete
<1>3. PICK c \in Cids, p \in Providers : e = <<c, p>>
  BY <1>1 DEF Keys
<1>4. /\ store' \in Times /\ store'[c][p] = Absent
      /\ \A d \in Cids, q \in Providers : <<d, q>> # <<c, p>> => store'[d][q] = store[d][q]
  <2>1. store \in Times /\ Absent \in 0..now /\ store' = [store EXCEPT ![c][p] = Absent]
    BY <1>2, <1>3 DEF Inv, TypeOK, Absent
  <2> QED
    BY <2>1, Put DEF Times
<1> DEFINE job == Committing(work[w].todo \ {e}, work[w].doomed)
<1>5. job \in Work
  BY <1>1, WorkTypes
<1> HIDE DEF job
<1>6. work'[w] = job /\ work' \in [Workers -> Work] /\ Becomes(w, job)
  BY <1>2, <1>5 DEF Inv, TypeOK, Becomes, job
<1>7. \A d, q : Other(d, q, c, p) => store'[d][q] = store[d][q]
  BY <1>4 DEF Other
<1>8. UNCHANGED <<now, started, due, cache, failures, history>>
  BY DEF Delete
<1> QED
  BY <1>1, <1>2, <1>3, <1>4, <1>6, <1>7, <1>8 DEF job

LEMMA DeleteKeeps ==
  ASSUME Inv, NEW w \in Workers, Delete(w)
  PROVE  Inv'
<1>1. PICK c \in Cids, p \in Providers :
        /\ <<c, p>> \in work[w].todo /\ work[w].at = "commit"
        /\ store' \in Times /\ store'[c][p] = Absent
        /\ \A d, q : Other(d, q, c, p) => store'[d][q] = store[d][q]
        /\ Becomes(w, Committing(work[w].todo \ {<<c, p>>}, work[w].doomed))
        /\ work'[w] = Committing(work[w].todo \ {<<c, p>>}, work[w].doomed)
        /\ work' \in [Workers -> Work]
        /\ UNCHANGED <<now, started, due, cache, failures, history>>
  BY DeleteFacts
<1>2. /\ by' = by /\ latest' = latest /\ raced' = raced /\ asked' = asked
      /\ now' = now /\ cache' = cache
  BY <1>1 DEF history, puts
<1>3. \A d \in Cids, q \in Providers : Other(d, q, c, p) \/ (d = c /\ q = p)
  BY DEF Other
\* No entry appears, and those that stay are the same.
<1>4. ASSUME NEW d \in Cids, NEW q \in Providers, store'[d][q] # Absent
      PROVE  store'[d][q] = store[d][q]
  BY <1>1, <1>3, <1>4
<1>5. TypeOK'
  <2>1. Keys' = Keys
    BY DEF Keys
  <2> QED
    BY <1>1, <1>2, <2>1, SameClock DEF Inv, TypeOK
<1>6. Behind'
  <2>1. ASSUME NEW d \in Cids, NEW q \in Providers
        PROVE  store'[d][q] <= latest[d][q]
    <3>1. latest[d][q] \in Nat /\ store[d][q] <= latest[d][q]
      BY Typed DEF Inv, Behind
    <3> QED
      BY <1>4, <3>1 DEF Absent
  <2> QED
    BY <1>2, <2>1 DEF Behind
<1>7. AnnouncedSurvives'
  <2>1. ASSUME NEW d \in Cids, NEW q \in Providers, latest[d][q] # Absent,
               now - latest[d][q] <= Validity, <<d, q>> \notin raced
        PROVE  store'[d][q] = latest[d][q]
    <3>1. CASE d = c /\ q = p
      <4>1. DeleteKnows(w) /\ <<c, p>> \in Condemned(w)
        BY <1>1 DEF Inv, TaskKnows, Knows, Condemned
      <4>2. now - latest[c][p] > Validity
        BY <2>1, <3>1, <4>1 DEF DeleteKnows, MayDelete
      <4>3. now \in Nat /\ latest[c][p] \in Nat /\ Validity \in Nat
        BY Typed DEF Inv
      <4> QED
        BY <2>1, <3>1, <4>2, <4>3
    <3>2. CASE Other(d, q, c, p)
      BY <1>1, <2>1, <3>2 DEF Inv, AnnouncedSurvives
    <3> QED
      BY <1>3, <3>1, <3>2
  <2> QED
    BY <1>2, <2>1 DEF AnnouncedSurvives
<1>8. CacheCoversOwn'
  BY <1>2, <1>4 DEF Inv, CacheCoversOwn, Stored
<1>9. ASSUME NEW v \in Workers
      PROVE  Knows(v)'
  <2>0. Knows(v) /\ work[v] \in Work
    BY DEF Inv, TypeOK, TaskKnows
  <2>1. CASE v = w
    <3>1. /\ work'[w].at = "commit" /\ work'[w].todo = work[w].todo \ {<<c, p>>}
          /\ work'[w].doomed = work[w].doomed
      BY <1>1 DEF Committing
    <3>2. CommitKnows(w) /\ DeleteKnows(w)
      BY <2>0, <2>1 DEF Knows
    <3>3. CommitKnows(w)'
      <4>1. ASSUME NEW d \in Cids, NEW q \in Providers,
                   <<d, q>> \in work[w].doomed, <<d, q>> \notin work'[w].todo,
                   store'[d][q] # Absent
            PROVE  by[d][q] # Owner(w)
        <5>1. ~(d = c /\ q = p) /\ store[d][q] # Absent
          BY <1>1, <1>4, <4>1
        <5>2. <<d, q>> \notin work[w].todo
          BY <3>1, <4>1, <5>1
        <5> QED
          BY <1>1, <3>2, <4>1, <5>1, <5>2 DEF CommitKnows, Stored
      <4> QED
        BY <1>2, <3>1, <4>1 DEF CommitKnows, Stored
    <3>4. DeleteKnows(w)'
      <4>1. ASSUME NEW d \in Cids, NEW q \in Providers, <<d, q>> \in Condemned(w)'
            PROVE  MayDelete(w, d, q)'
        <5>1. <<d, q>> \in Condemned(w)
          BY <1>1, <3>1, <4>1 DEF Condemned
        <5>2. MayDelete(w, d, q)
          BY <3>2, <5>1 DEF DeleteKnows
        <5> QED
          BY <1>2, <1>4, <5>2 DEF MayDelete, Stored
      <4> QED
        BY <4>1 DEF DeleteKnows
    <3> QED
      BY <2>1, <3>1, <3>3, <3>4 DEF Knows, LoadKnows, WriteKnows
  <2>2. CASE v # w
    <3>1. work'[v] = work[v]
      BY <1>1, <2>2 DEF Inv, TypeOK, Becomes
    <3>2. LoadKnows(v)'
      <4>1. CASE work[v].at = "load"
        <5>1. /\ HasOwn(Owner(v), work[v].task.cid, work[v].todo \cup work[v].found)
              /\ work[v].task.cid \in Cids
          BY <2>0, <4>1, WorkKinds, TaskKinds DEF Knows, LoadKnows
        <5>2. HasOwn(Owner(v), work[v].task.cid, work[v].todo \cup work[v].found)'
          BY <1>2, <1>4, <3>1, <5>1 DEF HasOwn, Stored
        <5> QED
          BY <3>1, <5>2 DEF LoadKnows
      <4> QED
        BY <3>1, <4>1 DEF LoadKnows
    <3>3. WriteKnows(v)'
      BY <1>2, <2>0, <3>1 DEF Knows, WriteKnows
    <3>4. CommitKnows(v)'
      BY <1>2, <1>4, <2>0, <3>1 DEF Knows, CommitKnows, Stored
    <3>5. DeleteKnows(v)'
      <4>1. ASSUME NEW d \in Cids, NEW q \in Providers, <<d, q>> \in Condemned(v)'
            PROVE  MayDelete(v, d, q)'
        <5>1. MayDelete(v, d, q)
          BY <2>0, <3>1, <4>1 DEF Knows, DeleteKnows, Condemned
        <5> QED
          BY <1>2, <1>4, <5>1 DEF MayDelete, Stored
      <4> QED
        BY <4>1 DEF DeleteKnows
    <3> QED
      BY <3>2, <3>3, <3>4, <3>5 DEF Knows
  <2> QED
    BY <2>1, <2>2
<1>10. TaskKnows'
  BY <1>9 DEF TaskKnows
<1> QED
  BY <1>5, <1>6, <1>7, <1>8, <1>10 DEF Inv

-----------------------------------------------------------------------------
(* The clock, and the end of the process.                                  *)

LEMMA TickKeeps ==
  ASSUME Inv, Tick
  PROVE  Inv'
<1>1. /\ now' = now + 1 /\ now \in Nat \ {0} /\ Validity \in Nat
      /\ work' = work /\ cache' = cache /\ store' = store /\ by' = by
      /\ latest' = latest /\ raced' = raced /\ asked' = asked
      /\ UNCHANGED <<started, due, failures>>
  BY ProvidersAssumption DEF Tick, Inv, TypeOK, history, puts
<1>2. TypeOK'
  <2>1. 0..now \subseteq 0..now' /\ 1..now \subseteq 1..now'
    BY <1>1
  <2>2. \A T \in Times : T \in Times'
    BY <2>1 DEF Times
  <2>3. \A j \in Work : j \in Work'
    BY <2>1 DEF Work, Idle, Loading, Writing, Scanning, Committing, Answering, Task, Add,
               Get, Keys
  <2> QED
    BY <1>1, <2>2, <2>3 DEF Inv, TypeOK, Keys
<1>3. Behind' /\ CacheCoversOwn'
  BY <1>1 DEF Inv, Behind, CacheCoversOwn, Stored
<1>4. AnnouncedSurvives'
  <2>1. ASSUME NEW c \in Cids, NEW p \in Providers, latest[c][p] # Absent,
               now' - latest[c][p] <= Validity, <<c, p>> \notin raced
        PROVE  store[c][p] = latest[c][p]
    <3>1. now - latest[c][p] <= Validity
      BY <1>1, <2>1, Typed DEF Inv
    <3> QED
      BY <2>1, <3>1 DEF Inv, AnnouncedSurvives
  <2> QED
    BY <1>1, <2>1 DEF AnnouncedSurvives
<1>5. ASSUME NEW w \in Workers
      PROVE  Knows(w)'
  <2>0. Knows(w)
    BY DEF Inv, TaskKnows
  <2>1. LoadKnows(w)' /\ WriteKnows(w)' /\ CommitKnows(w)'
    BY <1>1, <2>0 DEF Knows, LoadKnows, HasOwn, WriteKnows, CommitKnows, Stored
  <2>2. DeleteKnows(w)'
    <3>1. ASSUME NEW d \in Cids, NEW q \in Providers, <<d, q>> \in Condemned(w)
          PROVE  MayDelete(w, d, q)'
      <4>1. MayDelete(w, d, q)
        BY <2>0, <3>1 DEF Knows, DeleteKnows
      <4>2. store[d][q] \in Nat /\ latest[d][q] \in Nat
        BY Typed DEF Inv
      <4> QED
        BY <1>1, <4>1, <4>2 DEF MayDelete, Stored
    <3> QED
      BY <1>1, <3>1 DEF DeleteKnows, Condemned
  <2> QED
    BY <2>1, <2>2 DEF Knows
<1> QED
  BY <1>2, <1>3, <1>4, <1>5 DEF Inv, TaskKnows

\* No worker works and nothing is cached.
LEMMA KnowsNothingAtAll ==
  ASSUME work' = [w \in Workers |-> Idle],
         cache' = [m \in Managers |-> [c \in Cids |-> NotCached]]
  PROVE  TaskKnows' /\ CacheCoversOwn'
<1>1. ASSUME NEW w \in Workers
      PROVE  Knows(w)'
  <2>1. work'[w].at = "idle"
    BY DEF Idle
  <2> QED
    BY <2>1, KnowsNothing
<1> QED
  BY <1>1 DEF TaskKnows, CacheCoversOwn

LEMMA CrashKeeps ==
  ASSUME Inv, Crash
  PROVE  Inv'
<1>1. TaskKnows' /\ CacheCoversOwn'
  BY KnowsNothingAtAll DEF Crash
<1>2. /\ now' = now /\ store' = store /\ by' = by /\ latest' = latest
      /\ raced' = raced /\ asked' = asked /\ failures' = failures
  BY DEF Crash, history, puts
<1>3. Behind' /\ AnnouncedSurvives'
  BY <1>2 DEF Inv, Behind, AnnouncedSurvives
<1>4. work' \in [Workers -> Work']
  BY <1>2, SameClock, WorkTypes DEF Crash
<1>5. TypeOK'
  BY <1>2, <1>4, SameClock DEF Crash, Inv, TypeOK, Keys
<1> QED
  BY <1>1, <1>3, <1>5 DEF Inv

LEMMA InvInit == Init => Inv
<1> SUFFICES ASSUME Init PROVE Inv
  OBVIOUS
<1>1. work = [w \in Workers |-> Idle] /\ cache = [m \in Managers |-> [c \in Cids |-> NotCached]]
  BY DEF Init
<1>2. TypeOK
  BY WorkTypes DEF Init, TypeOK, Times, Absent
<1>3. Behind /\ AnnouncedSurvives /\ CacheCoversOwn
  BY DEF Init, Behind, AnnouncedSurvives, CacheCoversOwn, Absent
<1>4. TaskKnows
  BY <1>1 DEF TaskKnows, Knows, LoadKnows, WriteKnows, CommitKnows, DeleteKnows,
              Condemned, Idle
<1> QED
  BY <1>2, <1>3, <1>4 DEF Inv

LEMMA InvStep == Inv /\ [Next]_vars => Inv'
<1> SUFFICES ASSUME Inv, [Next]_vars PROVE Inv'
  OBVIOUS
<1>1. CASE \/ \E m \in Managers : CleanupDue(m) \/ Start(m) \/ Stop(m)
           \/ UNCHANGED vars
  <2>1. /\ UNCHANGED <<now, work, cache, store, failures, asked>>
        /\ by' = by /\ latest' = latest /\ raced' = raced
        /\ started' \in [Managers -> BOOLEAN] /\ due' \in [Managers -> BOOLEAN]
    BY <1>1 DEF CleanupDue, Start, Stop, vars, history, puts, Inv, TypeOK
  <2>2. TypeOK'
    BY <2>1, SameClock DEF Inv, TypeOK, Keys
  <2>3. Behind' /\ AnnouncedSurvives' /\ CacheCoversOwn'
    BY <2>1 DEF Inv, Behind, AnnouncedSurvives, CacheCoversOwn, Stored
  <2>4. TaskKnows'
    BY <2>1 DEF Inv, TaskKnows, Knows, LoadKnows, HasOwn, WriteKnows, CommitKnows,
               DeleteKnows, MayDelete, Condemned, Stored
  <2> QED
    BY <2>2, <2>3, <2>4 DEF Inv
<1>2. CASE Tick \/ Crash
  BY <1>2, TickKeeps, CrashKeeps
<1>3. CASE \E w \in Workers : StartCall(w) \/ StartCleanup(w)
  BY <1>3, StartHitKeeps, StartMissKeeps, StartCleanupKeeps DEF StartCall
<1>4. CASE \E w \in Workers : Running(w) \/ StoreFails(w)
  BY <1>4, LoadKeeps, LoadedKeeps, AnsweredKeeps, WroteKeeps, ScanKeeps, EndScanKeeps,
     DeleteKeeps, CommittedKeeps, StoreFailsKeeps DEF Running
<1> QED
  BY <1>1, <1>2, <1>3, <1>4 DEF Next

\* The inductive invariant holds.
THEOREM Invariance == Spec => []Inv
  BY InvInit, InvStep, PTL DEF Spec

\* The managers keep to their types.
THEOREM TypeCorrect == Spec => []TypeOK
<1>1. Inv => TypeOK
  BY DEF Inv
<1> QED
  BY <1>1, Invariance, PTL

\* What a manager has put it finds, however the managers share the datastore.
THEOREM CacheCovers == Spec => []CacheCoversOwn
<1>1. Inv => CacheCoversOwn
  BY DEF Inv
<1> QED
  BY <1>1, Invariance, PTL

\* A valid announcement is not lost but in a race of two managers for its entry.
THEOREM AnnouncementsSurvive == Spec => []AnnouncedSurvives
<1>1. Inv => AnnouncedSurvives
  BY DEF Inv
<1> QED
  BY <1>1, Invariance, PTL
-----------------------------------------------------------------------------
(* What a cleanup deletes.                                                 *)

\* What one step deletes of what its own manager has put had expired.
LEMMA OwnStep ==
  ASSUME Inv, [Next]_vars, NEW w \in Workers, NEW c \in Cids, NEW p \in Providers,
         work'[w] # work[w], by[c][p] = Owner(w),
         store[c][p] # Absent, store'[c][p] = Absent
  PROVE  now - store[c][p] > Validity
<1>1. PICK v \in Workers : Wrote(v) \/ Delete(v)
  <2>1. store' # store
    OBVIOUS
  <2> QED
    BY <2>1 DEF Next, CleanupDue, Start, Stop, Tick, Crash, StartCall, StartHit, StartMiss,
            StartCleanup, Running, Load, Loaded, Answered, Scan, EndScan, Committed,
            StoreFails, vars
<1>2. CASE Wrote(v)
  <2> DEFINE d == work[v].cid
             q == work[v].peer
             t == work[v].time
  <2>1. /\ t \in 1..now /\ store'[d][q] = t
        /\ \A e, r : Other(e, r, d, q) => store'[e][r] = store[e][r]
    BY <1>2, WroteFacts
  <2> HIDE DEF d, q, t
  <2>2. Other(c, p, d, q) \/ (c = d /\ p = q)
    BY DEF Other
  <2> QED
    BY <2>1, <2>2 DEF Absent
<1>3. CASE Delete(v)
  <2>1. PICK d \in Cids, q \in Providers :
          /\ <<d, q>> \in work[v].todo /\ work[v].at = "commit"
          /\ \A e, r : Other(e, r, d, q) => store'[e][r] = store[e][r]
          /\ Becomes(v, Committing(work[v].todo \ {<<d, q>>}, work[v].doomed))
    BY <1>3, DeleteFacts
  <2>2. c = d /\ p = q
    BY <2>1 DEF Other
  <2>3. v = w
    BY <2>1 DEF Becomes, Inv, TypeOK
  <2>4. DeleteKnows(w) /\ <<c, p>> \in Condemned(w)
    BY <2>1, <2>2, <2>3 DEF Inv, TaskKnows, Knows, Condemned
  <2> QED
    BY <2>4 DEF DeleteKnows, MayDelete, Stored
<1> QED
  BY <1>1, <1>2, <1>3

\* What a cleanup deletes of what its own manager has put had expired.
THEOREM OwnAreSpared == Spec => OwnAreKept
<1> DEFINE Spares ==
      \A w \in Workers, c \in Cids, p \in Providers :
        /\ work'[w] # work[w] /\ by[c][p] = Owner(w)
        /\ store[c][p] # Absent /\ store'[c][p] = Absent
        => now - store[c][p] > Validity
<1>1. Inv /\ [Next]_vars => [Spares]_vars
  BY OwnStep
<1> QED
  BY <1>1, Invariance, PTL DEF Spec, OwnAreKept

-----------------------------------------------------------------------------
(* The managers implement ProviderMap.                                     *)

\* Nothing is stored, cached, read or written but what was asked for.
AreAsked(c, provs) == \A p \in provs : <<c, p>> \in asked
StoreAsked == \A c \in Cids : AreAsked(c, Stored(c))
CacheAsked ==
  \A m \in Managers, c \in Cids : cache[m][c] # NotCached => AreAsked(c, cache[m][c])
WorkAsked(w) ==
  /\ work[w].at = "load" => AreAsked(work[w].task.cid, work[w].found)
  /\ work[w].at = "write" => AreAsked(work[w].cid, {work[w].peer})
Asked == StoreAsked /\ CacheAsked /\ \A w \in Workers : WorkAsked(w)

LEMMA LocalAsked ==
  ASSUME Inv, Asked, NEW w \in Workers, NEW j \in Work, Becomes(w, j),
         asked \subseteq asked', \A c \in Cids : Stored(c)' \subseteq Stored(c),
         CacheAsked', WorkAsked(w)'
  PROVE  Asked'
<1>1. StoreAsked'
  BY DEF Asked, StoreAsked, AreAsked
<1>2. ASSUME NEW v \in Workers, v # w
      PROVE  WorkAsked(v)'
  <2>1. work'[v] = work[v] /\ WorkAsked(v)
    BY <1>2 DEF Inv, TypeOK, Becomes, Asked
  <2> QED
    BY <2>1 DEF WorkAsked, AreAsked
<1> QED
  BY <1>1, <1>2 DEF Asked

LEMMA WithMapAsked ==
  ASSUME Inv, Asked, NEW w \in Workers, NEW task \in Task, NEW provs \in SUBSET Providers,
         AreAsked(task.cid, provs), WithMap(w, task, provs), store' = store
  PROVE  Asked'
<1>0. /\ task.cid \in Cids /\ now \in Nat \ {0} /\ Owner(w) \in Managers
      /\ \A c \in Cids : Stored(c)' \subseteq Stored(c)
  BY TaskKinds, OneWorker DEF Inv, TypeOK, Stored
<1>1. PICK new \in SUBSET Providers, j \in Work :
        /\ CacheSet(Owner(w), task.cid, new) /\ Becomes(w, j)
        /\ asked \subseteq asked' /\ \A p \in new : <<task.cid, p>> \in asked'
        /\ \/ /\ j.at = "write" /\ j.cid = task.cid /\ <<task.cid, j.peer>> \in asked'
           \/ j.at = "answer"
  <2>1. CASE task.kind = "add"
    <3>1. task.peer \in Providers
      BY <2>1, TaskKinds
    <3>2. /\ CacheSet(Owner(w), task.cid, provs \cup {task.peer})
          /\ Becomes(w, Writing(task.cid, task.peer, now))
          /\ asked' = asked \cup {<<task.cid, task.peer>>}
      BY <2>1, Zenon DEF WithMap
    <3>3. provs \cup {task.peer} \in SUBSET Providers
      BY <3>1
    <3>4. Writing(task.cid, task.peer, now) \in Work
      BY <1>0, <3>1, WorkTypes
    <3>5. \A p \in provs \cup {task.peer} : <<task.cid, p>> \in asked'
      BY <3>2 DEF AreAsked
    <3>6. /\ Writing(task.cid, task.peer, now).at = "write"
          /\ Writing(task.cid, task.peer, now).cid = task.cid
          /\ Writing(task.cid, task.peer, now).peer = task.peer
      BY DEF Writing
    <3>7. <<task.cid, task.peer>> \in asked' /\ asked \subseteq asked'
      BY <3>2
    <3> QED
      BY <3>2, <3>3, <3>4, <3>5, <3>6, <3>7
  <2>2. CASE task.kind = "get"
    <3>1. /\ CacheSet(Owner(w), task.cid, provs) /\ asked' = asked
          /\ Becomes(w, Answering(task.cid, provs))
      BY <2>2, Zenon DEF WithMap
    <3>2. Answering(task.cid, provs) \in Work
      BY <1>0, WorkTypes
    <3>3. Answering(task.cid, provs).at = "answer"
      BY DEF Answering
    <3>4. \A p \in provs : <<task.cid, p>> \in asked'
      BY <3>1 DEF AreAsked
    <3>5. asked \subseteq asked'
      BY <3>1
    <3> QED
      BY <3>1, <3>2, <3>3, <3>4, <3>5
  <2> QED
    BY <2>1, <2>2, TaskKinds
<1>2. PICK lost \in SUBSET (Cids \ {task.cid}) :
        cache' = [cache EXCEPT ![Owner(w)] =
                   [d \in Cids |-> IF d = task.cid THEN new
                                   ELSE IF d \in lost THEN NotCached
                                   ELSE cache[Owner(w)][d]]]
  BY <1>1 DEF CacheSet
<1>3. ASSUME NEW m \in Managers, NEW c \in Cids, cache'[m][c] # NotCached,
             NEW p \in cache'[m][c]
      PROVE  <<c, p>> \in asked'
  <2>1. \/ c = task.cid /\ cache'[m][c] = new
        \/ cache'[m][c] = cache[m][c]
    BY <1>0, <1>2, <1>3 DEF Inv, TypeOK
  <2>2. CASE cache'[m][c] = cache[m][c]
    BY <1>1, <1>3, <2>2 DEF Asked, CacheAsked, AreAsked
  <2> QED
    BY <1>1, <1>3, <2>1, <2>2
<1>4. CacheAsked'
  BY <1>3 DEF CacheAsked, AreAsked
<1>5. work'[w] = j
  BY <1>1 DEF Inv, TypeOK, Becomes
<1>6. WorkAsked(w)'
  BY <1>1, <1>5 DEF WorkAsked, AreAsked
<1> QED
  BY <1>0, <1>1, <1>4, <1>6, LocalAsked

\* A step of a worker that leaves the caches alone.
LEMMA WorkOnlyAsked ==
  ASSUME Inv, Asked, NEW w \in Workers, NEW j \in Work, Becomes(w, j),
         UNCHANGED <<cache, asked>>, \A c \in Cids : Stored(c)' \subseteq Stored(c),
         j.at \in {"load", "write"} => WorkAsked(w)'
  PROVE  Asked'
<1>1. work'[w] = j
  BY DEF Inv, TypeOK, Becomes
<1>2. WorkAsked(w)'
  BY <1>1 DEF WorkAsked
<1>3. CacheAsked'
  BY DEF Asked, CacheAsked, AreAsked
<1> QED
  BY <1>2, <1>3, LocalAsked

LEMMA LoadAsked ==
  ASSUME Inv, Asked, NEW w \in Workers, Load(w)
  PROVE  Asked'
<1> DEFINE j == work[w]
<1>1. /\ j \in Work /\ j.at = "load" /\ j.task \in Task /\ j.task.cid \in Cids
      /\ j.todo \subseteq Providers /\ j.found \subseteq Providers
  BY WorkKinds, TaskKinds DEF Inv, TypeOK, Load
<1>2. AreAsked(j.task.cid, j.found) /\ AreAsked(j.task.cid, Stored(j.task.cid))
  BY <1>1 DEF Asked, WorkAsked, StoreAsked
<1>3. UNCHANGED <<cache, asked>> /\ store' = store
  BY DEF Load, history
<1>4. PICK p \in j.todo :
        Becomes(w, Loading(j.task, j.todo \ {p}, j.found \cup ({p} \cap Stored(j.task.cid))))
  BY DEF Load
<1> DEFINE job == Loading(j.task, j.todo \ {p}, j.found \cup ({p} \cap Stored(j.task.cid)))
<1>5. job \in Work
  BY <1>1, WorkTypes
<1>6. /\ job.at = "load" /\ job.task = j.task
      /\ job.found = j.found \cup ({p} \cap Stored(j.task.cid))
  BY DEF Loading
<1>7. Becomes(w, job)
  BY <1>4
<1> HIDE DEF job
<1>8. work'[w] = job
  BY <1>5, <1>7 DEF Inv, TypeOK, Becomes
<1>9. WorkAsked(w)'
  BY <1>2, <1>3, <1>6, <1>8 DEF WorkAsked, AreAsked
<1>10. \A c \in Cids : Stored(c)' \subseteq Stored(c)
  BY <1>3 DEF Stored
<1> QED
  BY <1>3, <1>5, <1>7, <1>9, <1>10, WorkOnlyAsked

LEMMA WroteAsked ==
  ASSUME Inv, Asked, NEW w \in Workers, Wrote(w)
  PROVE  Asked'
<1> DEFINE c == work[w].cid
           p == work[w].peer
           t == work[w].time
<1>1. /\ c \in Cids /\ p \in Providers /\ store'[c][p] = t
      /\ \A d, q : Other(d, q, c, p) => store'[d][q] = store[d][q]
      /\ work' = [work EXCEPT ![w] = Idle]
      /\ UNCHANGED <<cache, asked>>
  BY WroteFacts
<1>2. <<c, p>> \in asked
  BY DEF Wrote, Asked, WorkAsked, AreAsked
<1> HIDE DEF c, p, t
<1>3. ASSUME NEW d \in Cids, NEW q \in Providers, store'[d][q] # Absent
      PROVE  <<d, q>> \in asked
  <2>1. Other(d, q, c, p) \/ (d = c /\ q = p)
    BY DEF Other
  <2>2. CASE Other(d, q, c, p)
    BY <1>1, <1>3, <2>2 DEF Asked, StoreAsked, AreAsked, Stored
  <2> QED
    BY <1>2, <2>1, <2>2
<1>4. StoreAsked'
  BY <1>1, <1>3 DEF StoreAsked, AreAsked, Stored
<1>5. CacheAsked'
  BY <1>1 DEF Asked, CacheAsked, AreAsked
<1>6. ASSUME NEW v \in Workers
      PROVE  WorkAsked(v)'
  <2>1. work'[v] = work[v] \/ work'[v] = Idle
    BY <1>1 DEF Inv, TypeOK
  <2> QED
    BY <1>1, <2>1 DEF Asked, WorkAsked, AreAsked, Idle
<1> QED
  BY <1>4, <1>5, <1>6 DEF Asked

LEMMA CommittedAsked ==
  ASSUME Inv, Asked, NEW w \in Workers, Committed(w)
  PROVE  Asked'
<1> DEFINE doomed == work[w].doomed
           mine == cache[Owner(w)]
<1>1. Becomes(w, Idle) /\ Idle \in Work /\ UNCHANGED <<store, asked>> /\ Owner(w) \in Managers
  BY WorkTypes, OneWorker DEF Committed, history
<1>2. PICK kept \in SUBSET {c \in Cids : mine[c] # NotCached} :
        cache' = [cache EXCEPT ![Owner(w)] =
                    [c \in Cids |->
                       IF c \notin kept THEN NotCached
                       ELSE IF \A p \in Providers : <<c, p>> \notin doomed THEN mine[c]
                       ELSE IF Purged(mine[c], c, doomed) = {} THEN NotCached
                       ELSE Purged(mine[c], c, doomed)]]
  BY DEF Committed
<1> HIDE DEF doomed
<1>3. ASSUME NEW m \in Managers, NEW c \in Cids, cache'[m][c] # NotCached
      PROVE  cache[m][c] # NotCached /\ cache'[m][c] \subseteq cache[m][c]
  <2>1. CASE m = Owner(w)
    <3>1. mine[c] # NotCached /\ (cache'[m][c] = mine[c] \/ cache'[m][c] = Purged(mine[c], c, doomed))
      BY <1>1, <1>2, <1>3, <2>1 DEF Inv, TypeOK
    <3> QED
      BY <2>1, <3>1 DEF Purged
  <2>2. CASE m # Owner(w)
    BY <1>1, <1>2, <1>3, <2>2 DEF Inv, TypeOK
  <2> QED
    BY <2>1, <2>2
<1>4. CacheAsked'
  BY <1>1, <1>3 DEF Asked, CacheAsked, AreAsked
<1>5. work'[w] = Idle
  BY <1>1 DEF Inv, TypeOK, Becomes
<1>6. WorkAsked(w)'
  BY <1>5 DEF WorkAsked, Idle
<1>7. asked \subseteq asked' /\ \A c \in Cids : Stored(c)' \subseteq Stored(c)
  BY <1>1 DEF Stored
<1> QED
  BY <1>1, <1>4, <1>6, <1>7, LocalAsked

\* The process ends, or nothing that this is about changes.
LEMMA OtherAsked ==
  ASSUME Asked, UNCHANGED <<store, asked>>,
         UNCHANGED <<work, cache>> \/ Crash
  PROVE  Asked'
<1>1. StoreAsked'
  BY DEF Asked, StoreAsked, AreAsked, Stored
<1>2. CASE UNCHANGED <<work, cache>>
  BY <1>1, <1>2 DEF Asked, CacheAsked, WorkAsked, AreAsked
<1>3. CASE Crash
  <2>1. CacheAsked'
    BY <1>3 DEF Crash, CacheAsked
  <2>2. \A w \in Workers : WorkAsked(w)'
    BY <1>3 DEF Crash, WorkAsked, Idle
  <2> QED
    BY <1>1, <2>1, <2>2 DEF Asked
<1> QED
  BY <1>2, <1>3

-----------------------------------------------------------------------------
(* The steps of ProviderMap.                                               *)

CondemnedOf(j) ==
  IF j.at = "scan" THEN j.doomed ELSE IF j.at = "commit" THEN j.todo ELSE {}
AnswerOf(j) ==
  IF j.at = "answer" THEN [cid |-> j.cid, found |-> j.found] ELSE NoAnswer

\* The condemned providers and the answers of all managers.
AllCondemned == [m \in Managers |-> CondemnedOf(work[Worker(m)])]
AllAnswers == [m \in Managers |-> AnswerOf(work[Worker(m)])]

LEMMA AbstractVars ==
  ASSUME UNCHANGED <<now, store, by, asked, AllCondemned, AllAnswers>>
  PROVE  UNCHANGED Abstract!vars
  BY DEF Abstract!vars, AllCondemned, AllAnswers, CondemnedOf, AnswerOf, Condemned

\* A step of ProviderMap, or none.
Maps == [Abstract!Next]_(Abstract!vars)

\* What the step of a worker changes of them.
LEMMA Shows ==
  ASSUME Inv, NEW w \in Workers, NEW j \in Work, Becomes(w, j)
  PROVE  /\ AllCondemned' = [AllCondemned EXCEPT ![Owner(w)] = CondemnedOf(j)]
         /\ AllAnswers' = [AllAnswers EXCEPT ![Owner(w)] = AnswerOf(j)]
         /\ AllCondemned[Owner(w)] = CondemnedOf(work[w])
         /\ AllAnswers[Owner(w)] = AnswerOf(work[w])
<1>1. Owner(w) \in Managers /\ w = Worker(Owner(w)) /\ work'[w] = j
  BY OneWorker DEF Inv, TypeOK, Becomes
<1>2. ASSUME NEW m \in Managers
      PROVE  /\ m = Owner(w) => work'[Worker(m)] = j
             /\ m # Owner(w) => work'[Worker(m)] = work[Worker(m)]
  <2>1. Worker(m) \in Workers /\ Owner(Worker(m)) = m
    BY OneWorker
  <2> QED
    BY <1>1, <2>1 DEF Inv, TypeOK, Becomes
<1>3. AllCondemned' = [AllCondemned EXCEPT ![Owner(w)] = CondemnedOf(j)]
  BY <1>1, <1>2 DEF AllCondemned, CondemnedOf
<1>4. AllAnswers' = [AllAnswers EXCEPT ![Owner(w)] = AnswerOf(j)]
  BY <1>1, <1>2 DEF AllAnswers, AnswerOf
<1> QED
  BY <1>1, <1>3, <1>4 DEF AllCondemned, AllAnswers

LEMMA Quiet ==
  ASSUME Inv, NEW w \in Workers, NEW j \in Work, Becomes(w, j),
         CondemnedOf(j) = CondemnedOf(work[w]), AnswerOf(j) = AnswerOf(work[w]),
         UNCHANGED <<now, store, by, asked>>
  PROVE  Maps
<1>1. AllCondemned' = AllCondemned /\ AllAnswers' = AllAnswers
  <2>1. /\ AllCondemned' = [AllCondemned EXCEPT ![Owner(w)] = AllCondemned[Owner(w)]]
        /\ AllAnswers' = [AllAnswers EXCEPT ![Owner(w)] = AllAnswers[Owner(w)]]
    BY Shows
  <2> QED
    BY <2>1 DEF AllCondemned, AllAnswers
<1> QED
  BY <1>1, AbstractVars DEF Maps

LEMMA WithMapMaps ==
  ASSUME Inv, Asked, NEW w \in Workers, NEW task \in Task, NEW provs \in SUBSET Providers,
         HasOwn(Owner(w), task.cid, provs), AreAsked(task.cid, provs),
         WithMap(w, task, provs), CondemnedOf(work[w]) = {}, AnswerOf(work[w]) = NoAnswer,
         UNCHANGED <<now, store, by>>
  PROVE  Maps
<1>0. task.cid \in Cids /\ now \in Nat \ {0} /\ Owner(w) \in Managers
  BY TaskKinds, OneWorker DEF Inv, TypeOK
<1>1. CASE task.kind = "add"
  <2> DEFINE j == Writing(task.cid, task.peer, now)
  <2>1. /\ task.peer \in Providers /\ Becomes(w, j)
        /\ asked' = asked \cup {<<task.cid, task.peer>>}
    BY <1>1, TaskKinds DEF WithMap
  <2>2. j \in Work
    BY <1>0, <2>1, WorkTypes
  <2>3. CondemnedOf(j) = {} /\ AnswerOf(j) = NoAnswer
    BY DEF Writing, CondemnedOf, AnswerOf
  <2> HIDE DEF j
  <2>4. AllCondemned' = AllCondemned /\ AllAnswers' = AllAnswers
    <3>1. /\ AllCondemned' = [AllCondemned EXCEPT ![Owner(w)] = AllCondemned[Owner(w)]]
          /\ AllAnswers' = [AllAnswers EXCEPT ![Owner(w)] = AllAnswers[Owner(w)]]
      BY <2>1, <2>2, <2>3, Shows
    <3> QED
      BY <3>1 DEF AllCondemned, AllAnswers
  <2>5. Abstract!Ask(task.cid, task.peer)
    BY <2>1, <2>4 DEF Abstract!Ask, AllCondemned, AllAnswers, CondemnedOf, AnswerOf, Condemned
  <2> QED
    BY <1>0, <2>1, <2>5 DEF Maps, Abstract!Next
<1>2. CASE task.kind = "get"
  <2> DEFINE j == Answering(task.cid, provs)
  <2>1. Becomes(w, j) /\ asked' = asked /\ j \in Work
    BY <1>0, <1>2, WorkTypes DEF WithMap
  <2>2. CondemnedOf(j) = {} /\ AnswerOf(j) = [cid |-> task.cid, found |-> provs]
    BY DEF Answering, CondemnedOf, AnswerOf
  <2> HIDE DEF j
  <2>3. /\ AllCondemned' = AllCondemned /\ AllCondemned[Owner(w)] = {}
        /\ AllAnswers' = [AllAnswers EXCEPT ![Owner(w)] = [cid |-> task.cid, found |-> provs]]
    <3> DEFINE answer == [cid |-> task.cid, found |-> provs]
    <3>1. AnswerOf(j) = answer
      BY <2>2
    <3> HIDE DEF answer
    <3>2. /\ AllCondemned' = [AllCondemned EXCEPT ![Owner(w)] = AllCondemned[Owner(w)]]
          /\ AllCondemned[Owner(w)] = {}
          /\ AllAnswers' = [AllAnswers EXCEPT ![Owner(w)] = answer]
      BY <2>1, <2>2, <3>1, Shows
    <3> QED
      BY <3>2 DEF AllCondemned, answer
  <2>4. /\ provs \in SUBSET {p \in Providers : <<task.cid, p>> \in asked}
        /\ \A p \in Providers : store[task.cid][p] # Absent /\ by[task.cid][p] = Owner(w)
              => p \in provs
    BY DEF AreAsked, HasOwn, Stored
  <2>5. Abstract!Lookup(Owner(w), task.cid)
    BY <2>1, <2>3, <2>4 DEF Abstract!Lookup, Abstract!Absent, Absent, AllCondemned,
       AllAnswers, CondemnedOf, AnswerOf, Condemned
  <2> QED
    BY <1>0, <2>5 DEF Maps, Abstract!Next
<1> QED
  BY <1>1, <1>2, TaskKinds

LEMMA StartHitMaps ==
  ASSUME Inv, Asked, NEW w \in Workers, NEW task \in Task, StartHit(w, task)
  PROVE  Asked' /\ Maps
<1> DEFINE provs == cache[Owner(w)][task.cid]
<1>1. Owner(w) \in Managers /\ task.cid \in Cids
  BY OneWorker, TaskKinds
<1>2. provs \in SUBSET Providers /\ HasOwn(Owner(w), task.cid, provs)
  BY <1>1, CoversAll DEF Inv, TypeOK, StartHit, Covers
<1>3. AreAsked(task.cid, provs)
  BY <1>1 DEF StartHit, Asked, CacheAsked
<1>4. WithMap(w, task, provs) /\ UNCHANGED <<now, store, by>>
  BY DEF StartHit, puts
<1>5. CondemnedOf(work[w]) = {} /\ AnswerOf(work[w]) = NoAnswer
  BY DEF StartHit, Idle, CondemnedOf, AnswerOf
<1> HIDE DEF provs
<1>6. Maps
  BY <1>2, <1>3, <1>4, <1>5, WithMapMaps
<1>7. Asked'
  BY <1>2, <1>3, <1>4, WithMapAsked
<1> QED
  BY <1>6, <1>7

LEMMA LoadedMaps ==
  ASSUME Inv, Asked, NEW w \in Workers, Loaded(w)
  PROVE  Asked' /\ Maps
<1> DEFINE task == work[w].task
           found == work[w].found
<1>1. task \in Task /\ found \in SUBSET Providers /\ HasOwn(Owner(w), task.cid, found)
  <2>1. work[w] \in Work /\ work[w].at = "load" /\ work[w].todo = {} /\ LoadKnows(w)
    BY DEF Inv, TypeOK, Loaded, TaskKnows, Knows
  <2>2. {} \cup found = found
    OBVIOUS
  <2> QED
    BY <2>1, <2>2, WorkKinds DEF LoadKnows
<1>2. AreAsked(task.cid, found)
  BY DEF Loaded, Asked, WorkAsked
<1>3. WithMap(w, task, found) /\ UNCHANGED <<now, store, by>>
  BY DEF Loaded, puts
<1>4. CondemnedOf(work[w]) = {} /\ AnswerOf(work[w]) = NoAnswer
  BY DEF Loaded, CondemnedOf, AnswerOf
<1> HIDE DEF task, found
<1>5. Maps
  BY <1>1, <1>2, <1>3, <1>4, WithMapMaps
<1>6. Asked'
  BY <1>1, <1>2, <1>3, WithMapAsked
<1> QED
  BY <1>5, <1>6

\* A step of a worker that leaves the cache and the datastore alone, and what it is
\* about to delete and what it answers.
LEMMA QuietAsked ==
  ASSUME Inv, Asked, NEW w \in Workers, NEW j \in Work, Becomes(w, j),
         UNCHANGED <<cache, now, store, by, asked>>, j.at \notin {"load", "write"},
         CondemnedOf(j) = CondemnedOf(work[w]), AnswerOf(j) = AnswerOf(work[w])
  PROVE  Asked' /\ Maps
<1>1. \A c \in Cids : Stored(c)' \subseteq Stored(c)
  BY DEF Stored
<1>2. Asked'
  BY <1>1, WorkOnlyAsked
<1>3. Maps
  BY Quiet
<1> QED
  BY <1>2, <1>3

LEMMA StartMissMaps ==
  ASSUME Inv, Asked, NEW w \in Workers, NEW task \in Task, StartMiss(w, task)
  PROVE  Asked' /\ Maps
<1> DEFINE job == Loading(task, Providers, {})
<1>1. /\ job \in Work /\ Becomes(w, job) /\ UNCHANGED <<now, cache, store, by, asked>>
  BY WorkTypes DEF StartMiss, history, puts
<1>2. work'[w] = job
  BY <1>1 DEF Inv, TypeOK, Becomes
<1>3. WorkAsked(w)'
  BY <1>2 DEF WorkAsked, AreAsked, Loading
<1>4. /\ CondemnedOf(job) = CondemnedOf(work[w])
      /\ AnswerOf(job) = AnswerOf(work[w])
  BY DEF StartMiss, Loading, Idle, CondemnedOf, AnswerOf
<1>5. \A c \in Cids : Stored(c)' \subseteq Stored(c)
  BY <1>1 DEF Stored
<1> HIDE DEF job
<1> QED
  BY <1>1, <1>3, <1>4, <1>5, WorkOnlyAsked, Quiet

LEMMA LoadMaps ==
  ASSUME Inv, Asked, NEW w \in Workers, Load(w)
  PROVE  Asked' /\ Maps
<1>1. PICK j \in Work : Becomes(w, j) /\ j.at = "load"
  <2>1. /\ work[w] \in Work /\ work[w].at = "load" /\ work[w].task \in Task
        /\ work[w].todo \subseteq Providers /\ work[w].found \subseteq Providers
    BY WorkKinds DEF Inv, TypeOK, Load
  <2>2. PICK p \in work[w].todo :
          Becomes(w, Loading(work[w].task, work[w].todo \ {p},
                       work[w].found \cup ({p} \cap Stored(work[w].task.cid))))
    BY DEF Load
  <2>3. Loading(work[w].task, work[w].todo \ {p},
                work[w].found \cup ({p} \cap Stored(work[w].task.cid))) \in Work
    BY <2>1, WorkTypes
  <2> QED
    BY <2>2, <2>3 DEF Loading
<1>2. UNCHANGED <<now, store, by, asked>>
  BY DEF Load, history, puts
<1>3. CondemnedOf(j) = CondemnedOf(work[w]) /\ AnswerOf(j) = AnswerOf(work[w])
  BY <1>1 DEF Load, CondemnedOf, AnswerOf
<1>4. Maps
  BY <1>1, <1>2, <1>3, Quiet
<1> QED
  BY <1>4, LoadAsked

LEMMA AnsweredMaps ==
  ASSUME Inv, Asked, NEW w \in Workers, Answered(w)
  PROVE  Asked' /\ Maps
<1>1. /\ Becomes(w, Idle) /\ Idle \in Work /\ Idle.at = "idle" /\ Owner(w) \in Managers
      /\ UNCHANGED <<now, cache, store, by, asked>>
  BY WorkTypes, OneWorker DEF Answered, Idle, history, puts
<1>2. CondemnedOf(Idle) = {} /\ AnswerOf(Idle) = NoAnswer /\ CondemnedOf(work[w]) = {}
  BY DEF Answered, Idle, CondemnedOf, AnswerOf
<1>3. AllCondemned' = AllCondemned /\ AllAnswers' = [AllAnswers EXCEPT ![Owner(w)] = NoAnswer]
  <2>1. /\ AllCondemned' = [AllCondemned EXCEPT ![Owner(w)] = AllCondemned[Owner(w)]]
        /\ AllAnswers' = [AllAnswers EXCEPT ![Owner(w)] = NoAnswer]
    BY <1>1, <1>2, Shows
  <2> QED
    BY <2>1 DEF AllCondemned
<1>4. Abstract!Answered(Owner(w))
  BY <1>1, <1>3 DEF Abstract!Answered, AllCondemned, AllAnswers, CondemnedOf, AnswerOf, Condemned
<1>5. \A c \in Cids : Stored(c)' \subseteq Stored(c)
  BY <1>1 DEF Stored
<1>6. Asked'
  BY <1>1, <1>5, WorkOnlyAsked
<1> QED
  BY <1>1, <1>4, <1>6 DEF Maps, Abstract!Next

LEMMA StartCleanupMaps ==
  ASSUME Inv, Asked, NEW w \in Workers, StartCleanup(w)
  PROVE  Asked' /\ Maps
<1> DEFINE job == Scanning(Keys, {})
<1>1. job \in Work /\ Becomes(w, job) /\ UNCHANGED <<now, cache, store, by, asked>>
  BY WorkTypes DEF StartCleanup, history, puts
<1>2. /\ job.at = "scan"
      /\ CondemnedOf(job) = CondemnedOf(work[w]) /\ AnswerOf(job) = AnswerOf(work[w])
  BY DEF StartCleanup, Scanning, Idle, CondemnedOf, AnswerOf
<1> HIDE DEF job
<1> QED
  BY <1>1, <1>2, QuietAsked

LEMMA ScanMaps ==
  ASSUME Inv, Asked, NEW w \in Workers, Scan(w)
  PROVE  Asked' /\ Maps
<1> DEFINE j == work[w]
<1>1. /\ j \in Work /\ j.at = "scan" /\ j.todo \subseteq Keys /\ j.doomed \subseteq Keys
      /\ Owner(w) \in Managers
      /\ UNCHANGED <<now, cache, store, by, asked>>
  BY WorkKinds, OneWorker DEF Inv, TypeOK, Scan, history, puts
<1>2. PICK e \in j.todo :
        Becomes(w, Scanning(j.todo \ {e},
                     IF Expired(e[1], e[2]) THEN j.doomed \cup {e} ELSE j.doomed))
  BY DEF Scan
<1> DEFINE doomed == IF Expired(e[1], e[2]) THEN j.doomed \cup {e} ELSE j.doomed
           job == Scanning(j.todo \ {e}, doomed)
<1>3. e \in Keys /\ doomed \in SUBSET Keys /\ job \in Work /\ Becomes(w, job)
  BY <1>1, <1>2, WorkTypes
<1>4. /\ CondemnedOf(j) = j.doomed /\ AnswerOf(j) = NoAnswer
      /\ CondemnedOf(job) = doomed /\ AnswerOf(job) = NoAnswer
      /\ job.at = "scan"
  BY <1>1 DEF CondemnedOf, AnswerOf, Scanning
<1>5. (Expired(e[1], e[2]) /\ doomed = j.doomed \cup {e}) \/ doomed = j.doomed
  OBVIOUS
<1> HIDE DEF doomed, job, j
<1>6. CASE doomed = j.doomed
  <2>1. CondemnedOf(job) = CondemnedOf(work[w]) /\ AnswerOf(job) = AnswerOf(work[w])
    BY <1>4, <1>6 DEF j
  <2> QED
    BY <1>1, <1>3, <1>4, <2>1, QuietAsked
<1>7. CASE Expired(e[1], e[2]) /\ doomed = j.doomed \cup {e}
  <2>1. /\ AllCondemned' = [AllCondemned EXCEPT ![Owner(w)] = doomed]
        /\ AllCondemned[Owner(w)] = j.doomed
        /\ AllAnswers' = [AllAnswers EXCEPT ![Owner(w)] = AllAnswers[Owner(w)]]
    BY <1>3, <1>4, Shows DEF j
  <2>2. /\ AllCondemned' = [AllCondemned EXCEPT ![Owner(w)] = @ \cup {e}]
        /\ AllAnswers' = AllAnswers
    BY <1>1, <1>7, <2>1 DEF AllCondemned, AllAnswers
  <2>3. e \in Abstract!Keys /\ Abstract!Expired(e[1], e[2])
    BY <1>3, <1>7 DEF Abstract!Keys, Keys, Abstract!Expired, Expired, Abstract!Absent, Absent
  <2>4. Abstract!Condemn(Owner(w))
    BY <1>1, <2>2, <2>3 DEF Abstract!Condemn, AllCondemned, AllAnswers, CondemnedOf, AnswerOf,
       Condemned
  <2>5. \A c \in Cids : Stored(c)' \subseteq Stored(c)
    BY <1>1 DEF Stored
  <2>6. Asked'
    BY <1>1, <1>3, <1>4, <2>5, WorkOnlyAsked
  <2> QED
    BY <1>1, <2>4, <2>6 DEF Maps, Abstract!Next
<1> QED
  BY <1>5, <1>6, <1>7

LEMMA EndScanMaps ==
  ASSUME Inv, Asked, NEW w \in Workers, EndScan(w)
  PROVE  Asked' /\ Maps
<1> DEFINE doomed == work[w].doomed
           job == IF doomed = {} THEN Idle ELSE Committing(doomed, doomed)
<1>1. work[w].at = "scan" /\ doomed \in SUBSET Keys
  BY WorkKinds DEF Inv, TypeOK, EndScan
<1>2. UNCHANGED <<now, cache, store, by, asked>> /\ Becomes(w, job)
  BY DEF EndScan, history, puts
<1>3. job \in Work
  BY <1>1, WorkTypes
<1>4. CondemnedOf(work[w]) = doomed /\ AnswerOf(work[w]) = NoAnswer
  BY <1>1 DEF CondemnedOf, AnswerOf
<1>5. /\ CondemnedOf(job) = doomed /\ AnswerOf(job) = NoAnswer
      /\ job.at \notin {"load", "write"}
  <2>1. CASE doomed = {}
    BY <2>1 DEF CondemnedOf, AnswerOf, Idle
  <2>2. CASE doomed # {}
    BY <2>2 DEF CondemnedOf, AnswerOf, Committing
  <2> QED
    BY <2>1, <2>2
<1> HIDE DEF job, doomed
<1> QED
  BY <1>2, <1>3, <1>4, <1>5, QuietAsked

LEMMA DeleteMaps ==
  ASSUME Inv, Asked, NEW w \in Workers, Delete(w)
  PROVE  Asked' /\ Maps
<1>1. PICK e \in work[w].todo :
        /\ store' = [store EXCEPT ![e[1]][e[2]] = Absent]
        /\ Becomes(w, Committing(work[w].todo \ {e}, work[w].doomed))
  BY DEF Delete
<1> DEFINE job == Committing(work[w].todo \ {e}, work[w].doomed)
<1>2. /\ work[w].at = "commit" /\ work[w].todo \subseteq Keys /\ work[w].doomed \subseteq Keys
      /\ Owner(w) \in Managers /\ UNCHANGED <<now, cache, by, asked>>
  BY WorkKinds, OneWorker DEF Inv, TypeOK, Delete, history, puts
<1>3. job \in Work /\ Becomes(w, job) /\ job.at = "commit"
  BY <1>1, <1>2, WorkTypes DEF Committing
<1>4. /\ CondemnedOf(job) = work[w].todo \ {e} /\ AnswerOf(job) = NoAnswer
      /\ CondemnedOf(work[w]) = work[w].todo /\ AnswerOf(work[w]) = NoAnswer
  BY <1>2 DEF CondemnedOf, AnswerOf, Committing
<1> HIDE DEF job
<1>5. /\ AllCondemned[Owner(w)] = work[w].todo
      /\ AllCondemned' = [AllCondemned EXCEPT ![Owner(w)] = @ \ {e}]
      /\ AllAnswers' = AllAnswers
  <2>1. /\ AllCondemned' = [AllCondemned EXCEPT ![Owner(w)] = work[w].todo \ {e}]
        /\ AllCondemned[Owner(w)] = work[w].todo
        /\ AllAnswers' = [AllAnswers EXCEPT ![Owner(w)] = AllAnswers[Owner(w)]]
    BY <1>3, <1>4, Shows
  <2> QED
    BY <1>2, <2>1 DEF AllCondemned, AllAnswers
<1>6. Abstract!Forget(Owner(w))
  BY <1>1, <1>2, <1>5 DEF Abstract!Forget, Abstract!Absent, Absent, AllCondemned, AllAnswers,
     CondemnedOf, AnswerOf, Condemned
<1>7. ASSUME NEW c \in Cids
      PROVE  Stored(c)' \subseteq Stored(c)
  <2>1. store \in [Cids -> [Providers -> 0..now]]
    BY DEF Inv, TypeOK, Times
  <2>2. ASSUME NEW p \in Providers, store'[c][p] # Absent
        PROVE  store[c][p] # Absent
    BY <1>1, <2>1, <2>2 DEF Absent
  <2> QED
    BY <2>2 DEF Stored
<1>8. Asked'
  BY <1>2, <1>3, <1>7, WorkOnlyAsked
<1> QED
  BY <1>2, <1>6, <1>8 DEF Maps, Abstract!Next

LEMMA CommittedMaps ==
  ASSUME Inv, Asked, NEW w \in Workers, Committed(w)
  PROVE  Asked' /\ Maps
<1>1. Becomes(w, Idle) /\ Idle \in Work /\ UNCHANGED <<now, store, by, asked>>
  BY WorkTypes DEF Committed, history, puts
<1>2. CondemnedOf(Idle) = CondemnedOf(work[w]) /\ AnswerOf(Idle) = AnswerOf(work[w])
  BY DEF Committed, Idle, CondemnedOf, AnswerOf
<1>3. Maps
  BY <1>1, <1>2, Quiet
<1> QED
  BY <1>3, CommittedAsked

LEMMA StoreFailsMaps ==
  ASSUME Inv, Asked, NEW w \in Workers, StoreFails(w)
  PROVE  Asked' /\ Maps
<1>1. /\ Becomes(w, Idle) /\ Idle \in Work /\ Idle.at = "idle" /\ Owner(w) \in Managers
      /\ UNCHANGED <<now, cache, store, by, asked>>
      /\ work[w].at \in {"load", "write", "scan", "commit"}
  BY WorkTypes, OneWorker DEF StoreFails, Idle, history, puts
<1>2. CondemnedOf(Idle) = {} /\ AnswerOf(Idle) = NoAnswer /\ AnswerOf(work[w]) = NoAnswer
  BY <1>1 DEF Idle, CondemnedOf, AnswerOf
<1>3. AllCondemned' = [AllCondemned EXCEPT ![Owner(w)] = {}] /\ AllAnswers' = AllAnswers
  <2>1. /\ AllCondemned' = [AllCondemned EXCEPT ![Owner(w)] = {}]
        /\ AllAnswers' = [AllAnswers EXCEPT ![Owner(w)] = AllAnswers[Owner(w)]]
    BY <1>1, <1>2, Shows
  <2> QED
    BY <2>1 DEF AllAnswers
<1>4. Abstract!Spare(Owner(w))
  BY <1>1, <1>3 DEF Abstract!Spare, AllCondemned, AllAnswers, CondemnedOf, AnswerOf, Condemned
<1>5. \A c \in Cids : Stored(c)' \subseteq Stored(c)
  BY <1>1 DEF Stored
<1>6. Asked'
  BY <1>1, <1>5, WorkOnlyAsked
<1> QED
  BY <1>1, <1>4, <1>6 DEF Maps, Abstract!Next

LEMMA WroteMaps ==
  ASSUME Inv, Asked, NEW w \in Workers, Wrote(w)
  PROVE  Asked' /\ Maps
<1> DEFINE c == work[w].cid
           p == work[w].peer
           t == work[w].time
<1>1. /\ c \in Cids /\ p \in Providers /\ t \in 1..now
      /\ UNCHANGED <<now, asked>>
  BY WroteFacts
<1>2. /\ store' = [store EXCEPT ![c][p] = t] /\ by' = [by EXCEPT ![c][p] = Owner(w)]
      /\ Becomes(w, Idle) /\ Idle \in Work /\ Owner(w) \in Managers /\ work[w].at = "write"
  BY WorkTypes, OneWorker DEF Wrote
<1>3. /\ CondemnedOf(Idle) = CondemnedOf(work[w]) /\ AnswerOf(Idle) = AnswerOf(work[w])
      /\ CondemnedOf(work[w]) = {}
  BY <1>2 DEF Idle, CondemnedOf, AnswerOf
<1> HIDE DEF c, p, t
<1>4. AllCondemned' = AllCondemned /\ AllAnswers' = AllAnswers /\ AllCondemned[Owner(w)] = {}
  <2>1. /\ AllCondemned' = [AllCondemned EXCEPT ![Owner(w)] = AllCondemned[Owner(w)]]
        /\ AllAnswers' = [AllAnswers EXCEPT ![Owner(w)] = AllAnswers[Owner(w)]]
        /\ AllCondemned[Owner(w)] = {}
    BY <1>2, <1>3, Shows
  <2> QED
    BY <2>1 DEF AllCondemned, AllAnswers
<1>5. Abstract!Announce(Owner(w), c, p)
  BY <1>1, <1>2, <1>4 DEF Abstract!Announce, AllCondemned, AllAnswers, CondemnedOf, AnswerOf,
     Condemned
<1>6. Maps
  BY <1>1, <1>2, <1>5 DEF Maps, Abstract!Next
<1> QED
  BY <1>6, WroteAsked

\* The steps that are no worker's.
LEMMA OtherMaps ==
  ASSUME Inv, Asked,
         \/ Tick \/ Crash \/ UNCHANGED vars
         \/ \E m \in Managers : CleanupDue(m) \/ Start(m) \/ Stop(m)
  PROVE  Asked' /\ Maps
<1>1. UNCHANGED <<store, by, asked>> /\ (UNCHANGED <<work, cache>> \/ Crash)
  BY DEF Tick, Crash, CleanupDue, Start, Stop, vars, history, puts
<1>2. Asked'
  BY <1>1, OtherAsked
<1>3. CASE Tick
  <2>1. AllCondemned' = AllCondemned /\ AllAnswers' = AllAnswers /\ now' = now + 1
    BY <1>3 DEF Tick, AllCondemned, AllAnswers, CondemnedOf, AnswerOf
  <2>2. Abstract!Tick
    BY <1>1, <2>1 DEF Abstract!Tick, AllCondemned, AllAnswers, CondemnedOf, AnswerOf, Condemned
  <2> QED
    BY <1>2, <2>2 DEF Maps, Abstract!Next
<1>4. CASE Crash
  <2>1. \A m \in Managers : work'[Worker(m)] = Idle
    BY <1>4, OneWorker DEF Crash
  <2>2. AllCondemned' = [m \in Managers |-> {}] /\ AllAnswers' = [m \in Managers |-> NoAnswer]
    BY <2>1 DEF AllCondemned, AllAnswers, CondemnedOf, AnswerOf, Idle
  <2>3. Abstract!Crash
    BY <1>1, <1>4, <2>2 DEF Crash, Abstract!Crash, AllCondemned, AllAnswers, CondemnedOf,
       AnswerOf, Condemned
  <2> QED
    BY <1>2, <2>3 DEF Maps, Abstract!Next
<1>5. CASE UNCHANGED <<now, work>>
  <2>1. AllCondemned' = AllCondemned /\ AllAnswers' = AllAnswers
    BY <1>5 DEF AllCondemned, AllAnswers, CondemnedOf, AnswerOf
  <2> QED
    BY <1>1, <1>2, <1>5, <2>1, AbstractVars DEF Maps
<1> QED
  BY <1>3, <1>4, <1>5 DEF CleanupDue, Start, Stop, vars

LEMMA MapsInit == Init => Asked /\ Abstract!Init
<1> SUFFICES ASSUME Init PROVE Asked /\ Abstract!Init
  OBVIOUS
<1>1. Asked
  BY DEF Init, Asked, StoreAsked, CacheAsked, WorkAsked, AreAsked, Stored, Idle
<1>2. \A m \in Managers : work[Worker(m)] = Idle
  BY OneWorker DEF Init
<1>3. AllCondemned = [m \in Managers |-> {}] /\ AllAnswers = [m \in Managers |-> NoAnswer]
  BY <1>2 DEF AllCondemned, AllAnswers, CondemnedOf, AnswerOf, Idle
<1>4. Abstract!Init
  BY <1>3 DEF Init, Abstract!Init, Abstract!Absent, Absent, AllCondemned, AllAnswers,
     CondemnedOf, AnswerOf, Condemned
<1> QED
  BY <1>1, <1>4

LEMMA MapsStep == Inv /\ Asked /\ [Next]_vars => Asked' /\ Maps
<1> SUFFICES ASSUME Inv, Asked, [Next]_vars PROVE Asked' /\ Maps
  OBVIOUS
<1>1. CASE \/ Tick \/ Crash \/ UNCHANGED vars
           \/ \E m \in Managers : CleanupDue(m) \/ Start(m) \/ Stop(m)
  BY <1>1, OtherMaps
<1>2. CASE \E w \in Workers : StartCall(w) \/ StartCleanup(w)
  BY <1>2, StartHitMaps, StartMissMaps, StartCleanupMaps DEF StartCall
<1>3. CASE \E w \in Workers : Running(w) \/ StoreFails(w)
  BY <1>3, LoadMaps, LoadedMaps, AnsweredMaps, WroteMaps, ScanMaps, EndScanMaps,
     DeleteMaps, CommittedMaps, StoreFailsMaps DEF Running
<1> QED
  BY <1>1, <1>2, <1>3 DEF Next

\* The caches, the queues and the batches show nothing else than what ProviderMap
\* promises, whatever fails.
THEOREM ActsAsMap == Spec => Implements
<1>1. Init => Inv /\ Asked /\ Abstract!Init
  BY InvInit, MapsInit
<1>2. Inv /\ Asked /\ [Next]_vars
        => Inv' /\ Asked' /\ [Abstract!Next]_(Abstract!vars)
  BY InvStep, MapsStep DEF Maps
<1> QED
  BY <1>1, <1>2, PTL DEF Spec, Implements, Abstract!Spec

=============================================================================
