------------------------------- MODULE Query -------------------------------
(***************************************************************************)
(* One run of the query manager: QueryManager.run walks the DHT towards a  *)
(* key along several paths that share one set of seen peers.  Each path    *)
(* has a p-queue of peers to ask, at most Alpha of them asked at a time,   *)
(* and an async generator (toGenerator) that hands the events of its jobs  *)
(* to the caller through it-merge.                                         *)
(*                                                                         *)
(* JavaScript runs to completion, so an action is the code between two     *)
(* awaits.  The awaits that matter here are: the hashes before a path      *)
(* starts, the next event of the query function, the hash of a closer      *)
(* peer, the deferred promise of the generator and a suspended yield.      *)
(*                                                                         *)
(* The content of events is left out: only how many wait where counts.     *)
(***************************************************************************)
EXTENDS Naturals, FiniteSets

CONSTANTS
  Peers,        \* every peer id, ourselves included
  Self,         \* our own peer id
  None,         \* no peer
  Dist,         \* XOR distance of each peer to the key
  Paths,        \* the disjoint paths of this run
  Starts,       \* the possible choices of starting peers, one peer per path
  Alpha,        \* concurrency of each path's queue
  Answers,      \* the lists of closer peers a peer may answer with, as sets
  MaxEvents,    \* bound: events one job's query function yields
  UserSignal,   \* did the caller pass a signal?  If not, a timer aborts the run
  FuncTimeout   \* is there a timeout for a single query function?

Slots == 1..Alpha

ASSUME PeersAssumption == Self \in Peers /\ None \notin Peers

ASSUME DistAssumption ==
  /\ Dist \in [Peers -> Nat]
  /\ \A a, b \in Peers : Dist[a] = Dist[b] => a = b

ASSUME BoundsAssumption == Alpha \in Nat \ {0} /\ MaxEvents \in Nat

ASSUME PathsAssumption == IsFiniteSet(Paths)

ASSUME FlagsAssumption == UserSignal \in BOOLEAN /\ FuncTimeout \in BOOLEAN

ASSUME AnswersAssumption == Answers \in [Peers -> SUBSET SUBSET Peers]

ASSUME StartsAssumption ==
  /\ Starts \subseteq [Paths -> Peers]
  /\ \A f \in Starts : \A p, q \in Paths : f[p] = f[q] => p = q

VARIABLES
  start,        \* the starting peer of each path
  seen,         \* peersSeen, shared by the paths
  path,         \* per path: its queue, its jobs and its generator
  aborted,      \* the run's signal
  caller,       \* the for await loop over run()
  out,          \* events buffered by it-merge
  visits,       \* history: how often queryPeer was called for a peer
  named         \* history: peers a responder named that are nearer than it

vars == <<start, seen, path, aborted, caller, out, visits, named>>

-----------------------------------------------------------------------------
(* The jobs of a path: a job waits for its query function ("ask") or for   *)
(* the hash of a closer peer ("hash", with the rest of the list to do).    *)

Free == [at |-> "free", peer |-> None, cand |-> None, rest |-> {},
         events |-> 0, expired |-> FALSE]

Asking(q) == [at |-> "ask", peer |-> q, cand |-> None, rest |-> {},
              events |-> 0, expired |-> FALSE]

Job ==
  {j \in [at : {"free", "ask", "hash"}, peer : Peers \cup {None},
          cand : Peers \cup {None}, rest : SUBSET Peers,
          events : Nat, expired : BOOLEAN] :
     /\ j.at # "free" => j.peer # None
     /\ j.at = "hash" => j.cand # None}

\* The queue is ordered by distance and distances differ, so how often each
\* peer is queued determines it.
EmptyQueue == [q \in Peers |-> 0]

PathState == [gen : {"init", "await", "yield", "done", "threw"},
              running : BOOLEAN, results : Nat,
              deferred : {"pending", "resolved", "rejected"},
              queue : [Peers -> Nat], job : [Slots -> Job]]

Waiting(r) == {q \in Peers : r.queue[q] > 0}
FreeSlots(r) == {s \in Slots : r.job[s].at = "free"}
Busy(r) == Slots \ FreeSlots(r)

\* PQueue.add: the job starts at once if fewer than Alpha are running.
Add(r, q) ==
  IF FreeSlots(r) = {}
    THEN [r EXCEPT !.queue[q] = @ + 1]
    ELSE LET s == CHOOSE s \in FreeSlots(r) : TRUE
         IN  [r EXCEPT !.job[s] = Asking(q)]

\* When a job of a PQueue ends, the queued peer with the highest priority, the
\* nearest one, takes its slot.  As a set of path states, with one element.
Nearest(set) == {q \in set : \A o \in set : Dist[q] <= Dist[o]}

StartNext(r, s) ==
  IF Waiting(r) = {}
    THEN {[r EXCEPT !.job[s] = Free]}
    ELSE {[r EXCEPT !.job[s] = Asking(q), !.queue[q] = @ - 1] :
            q \in Nearest(Waiting(r))}

-----------------------------------------------------------------------------
(* The event listeners of toGenerator.  A promise settles only once.       *)

Resolve(d) == IF d = "pending" THEN "resolved" ELSE d
Reject(d)  == IF d = "pending" THEN "rejected" ELSE d

\* cleanup(): drop the queued jobs and the results nobody has taken.
Cleanup(r) ==
  IF r.running
    THEN [r EXCEPT !.running = FALSE, !.queue = EmptyQueue, !.results = 0]
    ELSE r

\* queue.on('completed') with an event.
Mut_CompletedSilently(r) == [r EXCEPT !.results = @ + 1]
Completed(r) == [r EXCEPT !.results = @ + 1, !.deferred = Resolve(@)]

\* queue.on('error').
Failed(r) == [Cleanup(r) EXCEPT !.deferred = Reject(@)]

\* signal.addEventListener('abort'); the listener is there once the generator
\* has started.
OnAbort(r) ==
  IF r.gen # "init" /\ r.running
    THEN [Cleanup(r) EXCEPT !.deferred = Reject(@)]
    ELSE r

\* cleanUp.addEventListener('cleanup').
OnCleanUp(r) ==
  IF r.gen # "init"
    THEN [Cleanup(r) EXCEPT !.deferred = Resolve(@)]
    ELSE r

\* A job ends: p-queue emits 'completed' without an event, starts the next job
\* and emits 'idle' when there is none and none is running.
JobDone(r, s) ==
  {[n EXCEPT !.deferred = Resolve(@), !.running = @ /\ Busy(n) # {}] :
     n \in StartNext(r, s)}

\* The inner loop of toGenerator and what follows it: yield a result, or wait
\* for more, or finish.
Mut_Drain(r) ==
  [r EXCEPT !.gen = IF ~r.running THEN "done"
                    ELSE IF r.results > 0 THEN "yield" ELSE "await",
            !.results = IF r.running /\ @ > 0 THEN @ - 1 ELSE @]
Mut_DrainForever(r) ==
  IF r.results > 0
    THEN [r EXCEPT !.gen = "yield", !.results = @ - 1]
    ELSE [r EXCEPT !.gen = "await"]
Drain(r) ==
  IF r.results > 0
    THEN [r EXCEPT !.gen = "yield", !.results = @ - 1]
    ELSE [r EXCEPT !.gen = IF r.running THEN "await" ELSE "done"]

-----------------------------------------------------------------------------
(* The loop over the closer peers of a response.                           *)

Mut_MarkSeen(set, q) == set
MarkSeen(set, q) == set \cup {q}

Mut_FreshIgnoresSeen(list, set) == list \ {Self}
Fresh(list, set) == list \ (set \cup {Self})

Mut_IsCloser(c, q) == TRUE
IsCloser(c, q) == Dist[c] <= Dist[q]

Counted(j) == [j EXCEPT !.events = @ + 1]
PassedOn(j) == [j EXCEPT !.at = "ask", !.cand = None, !.rest = {}, !.events = @ + 1]
Hashing(j, c, rest) == [j EXCEPT !.at = "hash", !.cand = c, !.rest = rest]

\* Go on with the list: the next peer that is neither seen nor ourselves is
\* hashed; after the last one the event is passed on.  A list is a set here, so
\* any of its peers may come first.
Mut_GoOn(r, s, list, set) ==
  LET fresh == Fresh(list, set)
  IN  IF fresh = {}
        THEN {Completed([r EXCEPT !.job[s] = PassedOn(@)])}
        ELSE {[r EXCEPT !.job[s] = Hashing(@, c, {})] : c \in fresh}
GoOn(r, s, list, set) ==
  LET fresh == Fresh(list, set)
  IN  IF fresh = {}
        THEN {Completed([r EXCEPT !.job[s] = PassedOn(@)])}
        ELSE {[r EXCEPT !.job[s] = Hashing(@, c, fresh \ {c})] : c \in fresh}

\* The compound signal of a job: the run's signal or the job's own timeout.
Mut_Stopped(j) == j.expired
Stopped(j) == aborted \/ j.expired

-----------------------------------------------------------------------------
Init ==
  /\ start \in Starts
  /\ seen = {}
  /\ path = [p \in Paths |->
               [gen |-> "init", running |-> TRUE, results |-> 0,
                deferred |-> "pending", queue |-> EmptyQueue,
                job |-> [s \in Slots |-> Free]]]
  /\ aborted = FALSE
  /\ caller = "next"
  /\ out = 0
  /\ visits = [q \in Peers |-> 0]
  /\ named = {}

\* The hashes of the key and of the starting peer are there: queue the starting
\* peer and run the generator up to its first await.
Begin(p) ==
  /\ path[p].gen = "init"
  /\ path' = [path EXCEPT ![p] = [Add(@, start[p]) EXCEPT !.gen = "await"]]
  /\ seen' = MarkSeen(seen, start[p])
  /\ visits' = [visits EXCEPT ![start[p]] = @ + 1]
  /\ UNCHANGED <<start, aborted, caller, out, named>>

\* The query function yields an event that is not a PEER_RESPONSE.
OtherEvent(p, s) ==
  LET j == path[p].job[s] IN
  /\ j.at = "ask" /\ j.events < MaxEvents /\ ~Stopped(j)
  /\ LET r == [path[p] EXCEPT !.job[s] = Counted(j)]
     IN  path' = [path EXCEPT ![p] = Completed(r)]
  /\ UNCHANGED <<start, seen, aborted, caller, out, visits, named>>

\* The query function yields a PEER_RESPONSE.
PeerResponse(p, s) ==
  LET j == path[p].job[s] IN
  /\ j.at = "ask" /\ j.events < MaxEvents /\ ~Stopped(j)
  /\ \E closer \in Answers[j.peer] :
       /\ \E r \in GoOn(path[p], s, closer, seen) :
            path' = [path EXCEPT ![p] = r]
       /\ named' = named \cup {c \in closer : Dist[c] < Dist[j.peer]}
  /\ UNCHANGED <<start, seen, aborted, caller, out, visits>>

\* The hash of a closer peer is there.  peersSeen is not read again.
Hashed(p, s) ==
  LET j == path[p].job[s]
      follow == IsCloser(j.cand, j.peer)
      r == IF follow THEN Add(path[p], j.cand) ELSE path[p]
  IN
  /\ j.at = "hash"
  /\ seen' = IF follow THEN MarkSeen(seen, j.cand) ELSE seen
  /\ visits' = IF follow THEN [visits EXCEPT ![j.cand] = @ + 1] ELSE visits
  /\ \E n \in GoOn(r, s, j.rest, seen') : path' = [path EXCEPT ![p] = n]
  /\ UNCHANGED <<start, aborted, caller, out, named>>

\* The query function is exhausted, or it yields once more although the job's
\* signal has been aborted and the event is ignored.
JobEnds(p, s) ==
  /\ path[p].job[s].at = "ask"
  /\ \E n \in JobDone(path[p], s) : path' = [path EXCEPT ![p] = n]
  /\ UNCHANGED <<start, seen, aborted, caller, out, visits, named>>

\* The query function throws.
Mut_JobThrows(p, s) ==
  /\ path[p].job[s].at = "ask"
  /\ \E n \in JobDone(Failed(path[p]), s) : path' = [path EXCEPT ![p] = n]
  /\ UNCHANGED <<start, seen, aborted, caller, out, visits, named>>
JobThrows(p, s) ==
  /\ path[p].job[s].at = "ask"
  /\ \E n \in JobDone(IF aborted THEN Failed(path[p]) ELSE Completed(path[p]), s) :
       path' = [path EXCEPT ![p] = n]
  /\ UNCHANGED <<start, seen, aborted, caller, out, visits, named>>

\* The timeout of a query function fires.
JobTimeout(p, s) ==
  /\ FuncTimeout
  /\ path[p].job[s].at # "free" /\ ~path[p].job[s].expired
  /\ path' = [path EXCEPT ![p].job[s].expired = TRUE]
  /\ UNCHANGED <<start, seen, aborted, caller, out, visits, named>>

-----------------------------------------------------------------------------
MergeFailed == \E p \in Paths : path[p].gen = "threw"
MergeEnded  == \A p \in Paths : path[p].gen = "done"

\* The generator goes on: `r' is the path after it did.  it-merge buffers what
\* was yielded unless it has failed already or its consumer has left.
Continue(p, r) ==
  /\ path' = [path EXCEPT ![p] = r]
  /\ out' = IF r.gen = "yield" /\ caller = "next" /\ ~MergeFailed
              THEN out + 1 ELSE out
  /\ UNCHANGED <<start, seen, aborted, caller, visits, named>>

\* The awaited promise is settled; a rejection leaves the generator.
Wake(p) ==
  /\ path[p].gen = "await" /\ path[p].deferred # "pending"
  /\ Continue(p, IF path[p].deferred = "rejected"
                   THEN [path[p] EXCEPT !.gen = "threw"]
                   ELSE Drain([path[p] EXCEPT !.deferred = "pending"]))

\* it-merge asks for the next event.
Resume(p) ==
  /\ path[p].gen = "yield"
  /\ Continue(p, Drain(path[p]))

-----------------------------------------------------------------------------
CleanUpPaths == path' = [p \in Paths |-> OnCleanUp(path[p])]

\* The run's signal is aborted: by the caller's signal at any time, and by the
\* 30s timer or by QueryManager.stop only while the run is going on.
Abort ==
  /\ ~aborted
  /\ caller = "next" \/ UserSignal
  /\ aborted' = TRUE
  /\ path' = [p \in Paths |-> OnAbort(path[p])]
  /\ UNCHANGED <<start, seen, caller, out, visits, named>>

\* The caller takes an event and asks for the next one.
Take ==
  /\ caller = "next" /\ out > 0
  /\ out' = out - 1
  /\ UNCHANGED <<start, seen, path, aborted, caller, visits, named>>

\* The caller takes an event and leaves its loop.
Break ==
  /\ caller = "next" /\ out > 0
  /\ caller' = "left"
  /\ out' = 0
  /\ CleanUpPaths
  /\ UNCHANGED <<start, seen, aborted, visits, named>>

Return ==
  /\ caller = "next" /\ out = 0 /\ MergeEnded
  /\ caller' = "returned"
  /\ CleanUpPaths
  /\ UNCHANGED <<start, seen, aborted, out, visits, named>>

Throw ==
  /\ caller = "next" /\ out = 0 /\ MergeFailed
  /\ caller' = "threw"
  /\ CleanUpPaths
  /\ UNCHANGED <<start, seen, aborted, out, visits, named>>

JobStep(p, s) ==
  \/ OtherEvent(p, s)
  \/ PeerResponse(p, s)
  \/ Hashed(p, s)
  \/ JobEnds(p, s)
  \/ JobThrows(p, s)
  \/ JobTimeout(p, s)

CallerStep == Take \/ Break \/ Return \/ Throw

Next ==
  \/ \E p \in Paths : Begin(p) \/ Wake(p) \/ Resume(p)
  \/ \E p \in Paths, s \in Slots : JobStep(p, s)
  \/ Abort
  \/ CallerStep

\* Hashes and promise continuations always come.  A query function ends once its
\* signal is aborted, because it passes the signal to every request; nothing is
\* assumed of one that is not.  The caller keeps reading, and the timer fires.
Fairness ==
  /\ \A p \in Paths : WF_vars(Begin(p)) /\ WF_vars(Wake(p)) /\ WF_vars(Resume(p))
  /\ \A p \in Paths, s \in Slots :
       /\ WF_vars(Hashed(p, s))
       /\ WF_vars(Stopped(path[p].job[s]) /\ (JobEnds(p, s) \/ JobThrows(p, s)))
  /\ WF_vars(CallerStep)
  /\ ~UserSignal => WF_vars(Abort)

Spec == Init /\ [][Next]_vars
FairSpec == Spec /\ Fairness

-----------------------------------------------------------------------------
(* Safety.                                                                 *)

TypeOK ==
  /\ start \in Starts
  /\ seen \subseteq Peers
  /\ path \in [Paths -> PathState]
  /\ aborted \in BOOLEAN
  /\ caller \in {"next", "left", "returned", "threw"}
  /\ out \in Nat
  /\ visits \in [Peers -> Nat]
  /\ named \subseteq Peers

\* The peers a path is asking or will ask.
InHand(r) == Waiting(r) \cup {r.job[s].peer : s \in Busy(r)}

\* Every peer that is queued or being asked on some path is in the shared set of
\* seen peers, so no path starts on it again (query-path.ts:106, 136).
HandledPeersAreSeen == \A p \in Paths : InHand(path[p]) \subseteq seen

\* A path only moves towards the key: it never asks a peer that is farther from
\* the key than its starting peer, however many hops away (query-path.ts:150).
OnlyTowardsKey ==
  \A p \in Paths : \A q \in InHand(path[p]) : Dist[q] <= Dist[start[p]]

\* We never ask ourselves, whatever others answer, unless the routing table
\* gave us ourselves as a starting peer (query-path.ts:141).
NeverAskSelf ==
  visits[Self] > 0 => \E p \in Paths : start[p] = Self

\* The window between the check of peersSeen and the call of queryPeer lets a
\* peer be asked more than once, but never more often than there are jobs
\* (query-path.ts:136-156).
VisitsBounded ==
  \A q \in Peers : visits[q] <= Cardinality(Paths \X Slots)

\* A generator that waits is always woken: while its promise is pending some job
\* of its path is still going on, and no result is waiting (query-path.ts:216-251).
NoLostWakeUp ==
  \A p \in Paths :
    path[p].gen = "await" /\ path[p].deferred = "pending" =>
      /\ Busy(path[p]) # {}
      /\ path[p].results = 0

\* A run that returns without having been aborted is complete: no job is left,
\* and each event the query functions yielded was handed to the caller.
ReturnsOnlyWhenExhausted ==
  caller = "returned" /\ ~aborted =>
    \A p \in Paths :
      /\ Busy(path[p]) = {} /\ Waiting(path[p]) = {}
      /\ path[p].results = 0

\* Every peer that some responder named, nearer to the key than itself, has been
\* asked when an unaborted run returns (query-path.ts:135-157).
NearerPeersAsked ==
  caller = "returned" /\ ~aborted =>
    \A q \in named \ {Self} : visits[q] > 0

\* The caller sees an error only when the run was aborted: a peer that fails or
\* times out never ends the run (query-path.ts:165-175).
ThrowsOnlyIfAborted == caller = "threw" => aborted

-----------------------------------------------------------------------------
(* Liveness.                                                               *)

\* Without a signal of the caller the run always ends, even if no peer ever
\* answers (manager.ts:91-94).
RunEnds == <>(caller # "next")

\* After an abort the jobs die out, those included that were still to be queued.
AbortStopsWalk ==
  aborted ~> \A p \in Paths : Busy(path[p]) = {}

-----------------------------------------------------------------------------
(* What the comments and tests of the code say, and the code does not do.  *)

\* query-path.ts:98 "no other path has passed through this peer".
AskedOnce == \A q \in Peers : visits[q] <= 1

\* query-path.ts:243 "clear the queue of any remaining jobs".
NothingStartsAfterLeaving ==
  [][caller = "left" /\ (\A p \in Paths : path[p].gen # "init")
       => visits' = visits]_vars

\* query-path.ts:231 "clear the queue and throw if the query is aborted": the
\* generator does not finish normally with a rejection nobody observes.
AbortIsThrown ==
  \A p \in Paths : ~(path[p].gen = "done" /\ path[p].deferred = "rejected")
=============================================================================
