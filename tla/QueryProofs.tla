---------------------------- MODULE QueryProofs ----------------------------
(* Theorems about Query, for any number of peers, paths and workers.       *)
EXTENDS Query, TLAPS, FiniteSetTheorems

USE DEF Slots

-----------------------------------------------------------------------------
(* The operators on one path keep its type.                                *)

LEMMA AlphaPositive == 1 \in Slots
  BY BoundsAssumption

LEMMA FreeType == Free \in Job
  BY DEF Free, Job

LEMMA AskingType ==
  ASSUME NEW q \in Peers
  PROVE  Asking(q) \in Job
  BY PeersAssumption DEF Asking, Job

\* What Add does, without its CHOOSE.
LEMMA AddCases ==
  ASSUME NEW r, NEW q
  PROVE  \/ /\ FreeSlots(r) = {}
            /\ Add(r, q) = [r EXCEPT !.queue[q] = @ + 1]
         \/ \E s \in FreeSlots(r) : Add(r, q) = [r EXCEPT !.job[s] = Asking(q)]
<1>1. CASE FreeSlots(r) = {}
  BY <1>1 DEF Add
<1>2. CASE FreeSlots(r) # {}
  <2>1. (CHOOSE s \in FreeSlots(r) : TRUE) \in FreeSlots(r)
    BY <1>2
  <2> QED
    BY <1>2, <2>1 DEF Add
<1> QED
  BY <1>1, <1>2

LEMMA AddType ==
  ASSUME NEW r \in PathState, NEW q \in Peers
  PROVE  Add(r, q) \in PathState
<1>1. CASE Add(r, q) = [r EXCEPT !.queue[q] = @ + 1]
  <2>1. r.queue[q] + 1 \in Nat
    BY DEF PathState
  <2> QED
    BY <1>1, <2>1 DEF PathState
<1>2. ASSUME NEW s \in FreeSlots(r), Add(r, q) = [r EXCEPT !.job[s] = Asking(q)]
      PROVE  Add(r, q) \in PathState
  <2> DEFINE jobs == [r.job EXCEPT ![s] = Asking(q)]
  <2>1. r.job \in [Slots -> Job] /\ Asking(q) \in Job
    BY AskingType DEF PathState
  <2>2. jobs \in [Slots -> Job]
    BY <2>1
  <2>3. Add(r, q) = [r EXCEPT !.job = jobs]
    BY <1>2
  <2> HIDE DEF jobs
  <2> QED
    BY <2>2, <2>3 DEF PathState
<1> QED
  BY <1>1, <1>2, AddCases

\* Add leaves the jobs that run alone.
LEMMA AddKeepsJobs ==
  ASSUME NEW r \in PathState, NEW q \in Peers, NEW s \in Slots,
         r.job[s].at # "free"
  PROVE  Add(r, q).job[s] = r.job[s]
<1>1. CASE Add(r, q) = [r EXCEPT !.queue[q] = @ + 1]
  BY <1>1 DEF PathState
<1>2. ASSUME NEW t \in FreeSlots(r), Add(r, q) = [r EXCEPT !.job[t] = Asking(q)]
      PROVE  Add(r, q).job[s] = r.job[s]
  <2>1. t # s /\ t \in Slots
    BY DEF FreeSlots
  <2> QED
    BY <1>2, <2>1 DEF PathState
<1> QED
  BY <1>1, <1>2, AddCases

LEMMA StartNextType ==
  ASSUME NEW r \in PathState, NEW s \in Slots, NEW n \in StartNext(r, s)
  PROVE  n \in PathState
<1>1. CASE n = [r EXCEPT !.job[s] = Free]
  BY <1>1, FreeType DEF PathState
<1>2. ASSUME NEW q \in Waiting(r),
             n = [r EXCEPT !.job[s] = Asking(q), !.queue[q] = @ - 1]
      PROVE  n \in PathState
  <2>1. q \in Peers /\ r.queue[q] - 1 \in Nat
    BY DEF Waiting, PathState
  <2> QED
    BY <1>2, <2>1, AskingType DEF PathState
<1> QED
  BY <1>1, <1>2 DEF StartNext, Nearest

LEMMA ListenerTypes ==
  ASSUME NEW r \in PathState
  PROVE  /\ Cleanup(r) \in PathState
         /\ Completed(r) \in PathState
         /\ Failed(r) \in PathState
         /\ OnAbort(r) \in PathState
         /\ OnCleanUp(r) \in PathState
         /\ Drain(r) \in PathState
<1>1. Cleanup(r) \in PathState
  BY DEF Cleanup, EmptyQueue, PathState
<1>2. Completed(r) \in PathState
  <2>1. r.results + 1 \in Nat
    BY DEF PathState
  <2> QED
    BY <2>1 DEF Completed, Resolve, PathState
<1>3. \A c \in PathState :
         /\ [c EXCEPT !.deferred = Resolve(@)] \in PathState
         /\ [c EXCEPT !.deferred = Reject(@)] \in PathState
  BY DEF Resolve, Reject, PathState
<1>4. Drain(r) \in PathState
  <2>1. r.results \in Nat /\ (r.results > 0 => r.results - 1 \in Nat)
    BY DEF PathState
  <2>2. CASE r.results > 0
    BY <2>1, <2>2 DEF Drain, PathState
  <2>3. CASE ~(r.results > 0)
    BY <2>1, <2>3 DEF Drain, PathState
  <2> QED
    BY <2>2, <2>3
<1> QED
  BY <1>1, <1>2, <1>3, <1>4 DEF Failed, OnAbort, OnCleanUp

LEMMA JobDoneType ==
  ASSUME NEW r \in PathState, NEW s \in Slots, NEW n \in JobDone(r, s)
  PROVE  n \in PathState
<1>1. PICK m \in StartNext(r, s) :
        n = [m EXCEPT !.deferred = Resolve(@), !.running = @ /\ Busy(m) # {}]
  BY DEF JobDone
<1>2. m \in PathState
  BY StartNextType
<1> QED
  BY <1>1, <1>2 DEF Resolve, PathState

LEMMA JobUpdateTypes ==
  ASSUME NEW j \in Job
  PROVE  /\ [j EXCEPT !.expired = TRUE] \in Job
         /\ Counted(j) \in Job
<1>1. j.events + 1 \in Nat
  BY DEF Job
<1> QED
  BY <1>1 DEF Counted, Job

LEMMA PassedOnType ==
  ASSUME NEW j \in Job, j.at # "free"
  PROVE  PassedOn(j) \in Job
<1>1. j.events + 1 \in Nat
  BY DEF Job
<1> QED
  BY <1>1 DEF PassedOn, Job

LEMMA HashingType ==
  ASSUME NEW j \in Job, j.at # "free", NEW c \in Peers, NEW rest \in SUBSET Peers
  PROVE  Hashing(j, c, rest) \in Job
  BY PeersAssumption DEF Hashing, Job

LEMMA GoOnType ==
  ASSUME NEW r \in PathState, NEW s \in Slots, NEW list \in SUBSET Peers, NEW set,
         r.job[s].at # "free", NEW n \in GoOn(r, s, list, set)
  PROVE  n \in PathState
<1> DEFINE fresh == Fresh(list, set)
<1>1. fresh \in SUBSET Peers
  BY DEF Fresh
<1>2. r.job[s] \in Job
  BY DEF PathState
<1>3. \A j \in Job : [r EXCEPT !.job[s] = j] \in PathState
  BY DEF PathState
<1>4. CASE n = Completed([r EXCEPT !.job[s] = PassedOn(@)])
  BY <1>2, <1>3, <1>4, PassedOnType, ListenerTypes
<1>5. ASSUME NEW c \in fresh, n = [r EXCEPT !.job[s] = Hashing(@, c, fresh \ {c})]
      PROVE  n \in PathState
  <2>1. c \in Peers /\ fresh \ {c} \in SUBSET Peers
    BY <1>1
  <2> QED
    BY <1>2, <1>3, <1>5, <2>1, HashingType
<1> QED
  BY <1>4, <1>5 DEF GoOn

-----------------------------------------------------------------------------
(* Type correctness.                                                       *)

LEMMA TypeInit == Init => TypeOK
<1> SUFFICES ASSUME Init
             PROVE  TypeOK
  OBVIOUS
<1>1. [gen |-> "init", running |-> TRUE, results |-> 0, deferred |-> "pending",
       queue |-> EmptyQueue, job |-> [s \in Slots |-> Free]] \in PathState
  BY FreeType DEF EmptyQueue, PathState
<1> QED
  BY <1>1 DEF Init, TypeOK

LEMMA TypeStep == TypeOK /\ [Next]_vars => TypeOK'
<1> SUFFICES ASSUME TypeOK, [Next]_vars
             PROVE  TypeOK'
  OBVIOUS
<1> USE DEF TypeOK
<1>1. \A p \in Paths : start[p] \in Peers /\ path[p] \in PathState
  BY StartsAssumption
<1>2. ASSUME NEW p \in Paths, Begin(p)
      PROVE  TypeOK'
  <2>1. Add(path[p], start[p]) \in PathState
    BY <1>1, AddType
  <2>2. [Add(path[p], start[p]) EXCEPT !.gen = "await"] \in PathState
    BY <2>1 DEF PathState
  <2>3. seen' \subseteq Peers /\ visits' \in [Peers -> Nat]
    BY <1>1, <1>2 DEF Begin, MarkSeen
  <2> QED
    BY <1>2, <2>2, <2>3 DEF Begin
<1>3. ASSUME NEW p \in Paths, NEW s \in Slots, OtherEvent(p, s)
      PROVE  TypeOK'
  <2> DEFINE r == [path[p] EXCEPT !.job[s] = Counted(path[p].job[s])]
  <2>1. path[p].job[s] \in Job
    BY <1>1 DEF PathState
  <2>2. Counted(path[p].job[s]) \in Job
    BY <2>1, JobUpdateTypes
  <2>3. r \in PathState
    BY <1>1, <2>2 DEF PathState
  <2> QED
    BY <1>3, <2>3, ListenerTypes DEF OtherEvent
<1>4. ASSUME NEW p \in Paths, NEW s \in Slots, PeerResponse(p, s)
      PROVE  TypeOK'
  <2>1. path[p].job[s].at = "ask" /\ path[p].job[s].peer \in Peers
    BY <1>1, <1>4 DEF PeerResponse, PathState, Job
  <2>2. PICK closer \in Answers[path[p].job[s].peer] :
          /\ \E r \in GoOn(path[p], s, closer, seen) : path' = [path EXCEPT ![p] = r]
          /\ named' = named \cup {c \in closer : Dist[c] < Dist[path[p].job[s].peer]}
    BY <1>4 DEF PeerResponse
  <2>3. closer \in SUBSET Peers
    BY <2>1, AnswersAssumption
  <2>4. path' \in [Paths -> PathState]
    BY <1>1, <2>1, <2>2, <2>3, GoOnType
  <2>5. named' \subseteq Peers
    BY <2>2, <2>3
  <2> QED
    BY <1>4, <2>4, <2>5 DEF PeerResponse
<1>5. ASSUME NEW p \in Paths, NEW s \in Slots, Hashed(p, s)
      PROVE  TypeOK'
  <2> DEFINE j == path[p].job[s]
             r == IF IsCloser(j.cand, j.peer) THEN Add(path[p], j.cand) ELSE path[p]
  <2>1. j \in Job /\ j.at = "hash" /\ j.cand \in Peers
    BY <1>1, <1>5 DEF Hashed, PathState, Job
  <2>2. r \in PathState
    BY <1>1, <2>1, AddType
  <2>3. r.job[s].at # "free"
    BY <1>1, <2>1, AddKeepsJobs
  <2>4. \E n \in GoOn(r, s, j.rest, seen') : path' = [path EXCEPT ![p] = n]
    BY <1>5 DEF Hashed
  <2>5. path' \in [Paths -> PathState]
    BY <2>1, <2>2, <2>3, <2>4, GoOnType DEF Job
  <2>6. seen' \subseteq Peers /\ visits' \in [Peers -> Nat]
    BY <1>5, <2>1 DEF Hashed, MarkSeen
  <2> QED
    BY <1>5, <2>5, <2>6 DEF Hashed
<1>6. ASSUME NEW p \in Paths, NEW s \in Slots, JobEnds(p, s)
      PROVE  TypeOK'
  BY <1>1, <1>6, JobDoneType DEF JobEnds
<1>7. ASSUME NEW p \in Paths, NEW s \in Slots, JobThrows(p, s)
      PROVE  TypeOK'
  BY <1>1, <1>7, JobDoneType, ListenerTypes DEF JobThrows
<1>8. ASSUME NEW p \in Paths, NEW s \in Slots, JobTimeout(p, s)
      PROVE  TypeOK'
  <2>1. [path[p].job[s] EXCEPT !.expired = TRUE] \in Job
    BY <1>1, JobUpdateTypes DEF PathState
  <2>2. [path[p] EXCEPT !.job[s].expired = TRUE] \in PathState
    BY <1>1, <2>1 DEF PathState
  <2> QED
    BY <1>8, <2>2 DEF JobTimeout
<1>9. ASSUME NEW p \in Paths, Wake(p) \/ Resume(p)
      PROVE  TypeOK'
  <2>1. [path[p] EXCEPT !.gen = "threw"] \in PathState
    BY <1>1 DEF PathState
  <2>2. [path[p] EXCEPT !.deferred = "pending"] \in PathState
    BY <1>1 DEF PathState
  <2>3. \E r \in PathState : Continue(p, r)
    BY <1>1, <1>9, <2>1, <2>2, ListenerTypes DEF Wake, Resume
  <2> QED
    BY <2>3 DEF Continue
<1>10. CASE Abort
  BY <1>1, <1>10, ListenerTypes DEF Abort
<1>11. CASE CallerStep
  <2>1. CASE Take
    BY <2>1 DEF Take
  <2>2. CASE Break \/ Return \/ Throw
    <3>1. path' \in [Paths -> PathState]
      BY <1>1, <2>2, ListenerTypes DEF Break, Return, Throw, CleanUpPaths
    <3> QED
      BY <2>2, <3>1 DEF Break, Return, Throw
  <2> QED
    BY <1>11, <2>1, <2>2 DEF CallerStep
<1>12. CASE UNCHANGED vars
  BY <1>12 DEF vars
<1> QED
  BY <1>2, <1>3, <1>4, <1>5, <1>6, <1>7, <1>8, <1>9, <1>10, <1>11, <1>12
     DEF Next, JobStep

\* Every variable keeps its type: queues and buffers never go negative, and a
\* job that runs has a peer, and a candidate while it hashes.
THEOREM TypeCorrect == Spec => []TypeOK
  BY TypeInit, TypeStep, PTL DEF Spec

-----------------------------------------------------------------------------
(* The peers in hand: only Begin and Hashed add one.                       *)

LEMMA HandPeers ==
  ASSUME NEW r \in PathState
  PROVE  InHand(r) \subseteq Peers
<1>1. \A s \in Slots : r.job[s] \in Job
  BY DEF PathState
<1>2. \A s \in Busy(r) : r.job[s].peer \in Peers
  BY <1>1 DEF Busy, FreeSlots, Job
<1> QED
  BY <1>2 DEF InHand, Waiting

LEMMA HandShrinks ==
  ASSUME NEW r \in PathState, NEW n \in PathState,
         Waiting(n) \subseteq Waiting(r),
         \A s \in Slots : n.job[s].at # "free" =>
           r.job[s].at # "free" /\ n.job[s].peer = r.job[s].peer
  PROVE  InHand(n) \subseteq InHand(r)
  BY DEF InHand, Busy, FreeSlots

LEMMA HandAdd ==
  ASSUME NEW r \in PathState, NEW q \in Peers
  PROVE  InHand(Add(r, q)) \subseteq InHand(r) \cup {q}
<1>1. CASE Add(r, q) = [r EXCEPT !.queue[q] = @ + 1]
  <2>1. Waiting(Add(r, q)) \subseteq Waiting(r) \cup {q}
    BY <1>1 DEF Waiting, PathState
  <2>2. Add(r, q).job = r.job
    BY <1>1 DEF PathState
  <2> QED
    BY <2>1, <2>2 DEF InHand, Busy, FreeSlots
<1>2. ASSUME NEW t \in FreeSlots(r), Add(r, q) = [r EXCEPT !.job[t] = Asking(q)]
      PROVE  InHand(Add(r, q)) \subseteq InHand(r) \cup {q}
  <2>1. Waiting(Add(r, q)) = Waiting(r)
    BY <1>2 DEF Waiting, PathState
  <2>2. /\ Add(r, q).job[t] = Asking(q)
        /\ \A s \in Slots \ {t} : Add(r, q).job[s] = r.job[s]
    BY <1>2 DEF PathState, FreeSlots
  <2>3. Asking(q).peer = q
    BY DEF Asking
  <2> QED
    BY <2>1, <2>2, <2>3 DEF InHand, Busy, FreeSlots
<1> QED
  BY <1>1, <1>2, AddCases

LEMMA HandStartNext ==
  ASSUME NEW r \in PathState, NEW s \in Slots, NEW n \in StartNext(r, s)
  PROVE  InHand(n) \subseteq InHand(r)
<1>1. CASE n = [r EXCEPT !.job[s] = Free]
  <2>1. Waiting(n) = Waiting(r)
    BY <1>1 DEF Waiting, PathState
  <2>2. n.job[s].at = "free" /\ \A t \in Slots \ {s} : n.job[t] = r.job[t]
    BY <1>1 DEF PathState, Free
  <2> QED
    BY <2>1, <2>2 DEF InHand, Busy, FreeSlots
<1>2. ASSUME NEW q \in Waiting(r),
             n = [r EXCEPT !.job[s] = Asking(q), !.queue[q] = @ - 1]
      PROVE  InHand(n) \subseteq InHand(r)
  <2>1. Waiting(n) \subseteq Waiting(r)
    BY <1>2 DEF Waiting, PathState
  <2>2. n.job[s].peer = q /\ \A t \in Slots \ {s} : n.job[t] = r.job[t]
    BY <1>2 DEF PathState, Asking
  <2> QED
    BY <2>1, <2>2 DEF InHand, Busy, FreeSlots
<1> QED
  BY <1>1, <1>2 DEF StartNext, Nearest

\* The listeners touch neither the jobs nor, but for emptying it, the queue.
LEMMA ListenersAndJobs ==
  ASSUME NEW r \in PathState, NEW n,
         n \in {Cleanup(r), Completed(r), Failed(r), OnAbort(r), OnCleanUp(r), Drain(r)}
  PROVE  n.job = r.job /\ n.queue \in {r.queue, EmptyQueue}
<1>1. Cleanup(r).job = r.job /\ Cleanup(r).queue \in {r.queue, EmptyQueue}
  BY DEF Cleanup, PathState
<1>2. Completed(r).job = r.job /\ Completed(r).queue = r.queue
  BY DEF Completed, PathState
<1>3. \A c \in PathState : \A d :
        /\ [c EXCEPT !.deferred = d].job = c.job
        /\ [c EXCEPT !.deferred = d].queue = c.queue
  BY DEF PathState
<1>4. Drain(r).job = r.job /\ Drain(r).queue = r.queue
  BY DEF Drain, PathState
<1>5. Failed(r).job = r.job /\ Failed(r).queue \in {r.queue, EmptyQueue}
  BY <1>1, <1>3, ListenerTypes DEF Failed
<1>6. OnAbort(r).job = r.job /\ OnAbort(r).queue \in {r.queue, EmptyQueue}
  BY <1>1, <1>3, ListenerTypes DEF OnAbort
<1>7. OnCleanUp(r).job = r.job /\ OnCleanUp(r).queue \in {r.queue, EmptyQueue}
  BY <1>1, <1>3, ListenerTypes DEF OnCleanUp
<1> QED
  BY <1>1, <1>2, <1>4, <1>5, <1>6, <1>7

LEMMA HandListeners ==
  ASSUME NEW r \in PathState, NEW n,
         n \in {Cleanup(r), Completed(r), Failed(r), OnAbort(r), OnCleanUp(r), Drain(r)}
  PROVE  InHand(n) \subseteq InHand(r)
<1>1. n \in PathState
  BY ListenerTypes
<1>2. Waiting(n) \subseteq Waiting(r)
  BY ListenersAndJobs DEF Waiting, EmptyQueue
<1> QED
  BY <1>1, <1>2, ListenersAndJobs, HandShrinks

LEMMA HandJobDone ==
  ASSUME NEW r \in PathState, NEW s \in Slots, NEW n \in JobDone(r, s)
  PROVE  InHand(n) \subseteq InHand(r)
<1>1. PICK m \in StartNext(r, s) :
        n = [m EXCEPT !.deferred = Resolve(@), !.running = @ /\ Busy(m) # {}]
  BY DEF JobDone
<1>2. m \in PathState /\ n \in PathState
  BY StartNextType, JobDoneType
<1>3. n.job = m.job /\ n.queue = m.queue
  BY <1>1, <1>2 DEF PathState
<1> QED
  BY <1>3, HandStartNext DEF InHand, Waiting, Busy, FreeSlots

LEMMA HandGoOn ==
  ASSUME NEW r \in PathState, NEW s \in Slots, NEW list \in SUBSET Peers, NEW set,
         r.job[s].at # "free", NEW n \in GoOn(r, s, list, set)
  PROVE  InHand(n) \subseteq InHand(r)
<1> DEFINE fresh == Fresh(list, set)
           back == [r EXCEPT !.job[s] = PassedOn(@)]
<1>1. r.job[s] \in Job
  BY DEF PathState
<1>2. PassedOn(r.job[s]).peer = r.job[s].peer
  BY <1>1 DEF PassedOn, Job
<1>3. \A c, d : Hashing(r.job[s], c, d).peer = r.job[s].peer
  BY <1>1 DEF Hashing, Job
<1>4. back \in PathState
  BY <1>1, PassedOnType DEF PathState
<1>5. CASE n = Completed(back)
  <2>1. n.queue = r.queue /\ n.job = [r.job EXCEPT ![s] = PassedOn(@)]
    BY <1>4, <1>5 DEF Completed, PathState
  <2>2. \A t \in Slots : n.job[t].peer = r.job[t].peer
    BY <1>2, <2>1 DEF PathState
  <2>3. \A t \in Slots : n.job[t].at # "free" => r.job[t].at # "free"
    BY <2>1 DEF PathState
  <2> QED
    BY <2>1, <2>2, <2>3 DEF InHand, Waiting, Busy, FreeSlots
<1>6. ASSUME NEW c \in fresh, n = [r EXCEPT !.job[s] = Hashing(@, c, fresh \ {c})]
      PROVE  InHand(n) \subseteq InHand(r)
  <2>1. n.queue = r.queue /\ n.job = [r.job EXCEPT ![s] = Hashing(@, c, fresh \ {c})]
    BY <1>6 DEF PathState
  <2>2. \A t \in Slots : n.job[t].peer = r.job[t].peer
    BY <1>3, <2>1 DEF PathState
  <2>3. \A t \in Slots : n.job[t].at # "free" => r.job[t].at # "free"
    BY <2>1 DEF PathState
  <2> QED
    BY <2>1, <2>2, <2>3 DEF InHand, Waiting, Busy, FreeSlots
<1> QED
  BY <1>5, <1>6 DEF GoOn

-----------------------------------------------------------------------------
(* The walk: what is in hand is seen and no farther than the start.        *)

\* A peer that comes into a path's hands in a step is marked as seen in the same
\* step, and is the starting peer or no farther than a peer already in hand.
Justified(p, q) ==
  /\ q \in seen'
  /\ \/ q = start[p]
     \/ \E b \in InHand(path[p]) : Dist[q] <= Dist[b]

LEMMA TypePaths ==
  ASSUME TypeOK
  PROVE  \A p \in Paths : start[p] \in Peers /\ path[p] \in PathState
  BY StartsAssumption DEF TypeOK

LEMMA HandStep ==
  ASSUME TypeOK, [Next]_vars
  PROVE  /\ seen \subseteq seen' /\ start' = start
         /\ \A p \in Paths : \A q \in InHand(path'[p]) \ InHand(path[p]) :
              Justified(p, q)
<1> DEFINE Goal == /\ seen \subseteq seen' /\ start' = start
                   /\ \A p \in Paths :
                        \A q \in InHand(path'[p]) \ InHand(path[p]) : Justified(p, q)
<1> SUFFICES Goal
  OBVIOUS
<1>0. path \in [Paths -> PathState]
  BY DEF TypeOK
<1>1. \A p \in Paths : start[p] \in Peers /\ path[p] \in PathState
  BY TypePaths
<1>2. ASSUME NEW p \in Paths, Begin(p)
      PROVE  Goal
  <2> DEFINE r == Add(path[p], start[p])
  <2>1. r \in PathState /\ InHand(r) \subseteq InHand(path[p]) \cup {start[p]}
    BY <1>1, AddType, HandAdd
  <2>2. InHand([r EXCEPT !.gen = "await"]) = InHand(r)
    <3> HIDE DEF r
    <3> QED
      BY <2>1 DEF InHand, Waiting, Busy, FreeSlots, PathState
  <2>3. path' = [path EXCEPT ![p] = [r EXCEPT !.gen = "await"]] /\ start' = start
    BY <1>2 DEF Begin
  <2>4. seen' = seen \cup {start[p]}
    BY <1>2 DEF Begin, MarkSeen
  <2> QED
    BY <1>0, <2>1, <2>2, <2>3, <2>4 DEF Justified
<1>3. ASSUME NEW p \in Paths, NEW n \in PathState, path' = [path EXCEPT ![p] = n],
             seen' = seen, start' = start, InHand(n) \subseteq InHand(path[p])
      PROVE  Goal
  BY <1>0, <1>3
<1>4. ASSUME NEW p \in Paths, NEW s \in Slots, OtherEvent(p, s)
      PROVE  Goal
  <2> DEFINE r == [path[p] EXCEPT !.job[s] = Counted(path[p].job[s])]
  <2>1. path[p].job[s] \in Job
    BY <1>1 DEF PathState
  <2>2. Counted(path[p].job[s]).peer = path[p].job[s].peer
    BY <2>1 DEF Counted, Job
  <2>3. r \in PathState
    BY <1>1, <2>1, JobUpdateTypes DEF PathState
  <2>4. Waiting(r) \subseteq Waiting(path[p])
    BY <1>1 DEF Waiting, PathState
  <2>5. path[p].job[s].at = "ask"
    BY <1>4 DEF OtherEvent
  <2>6. \A t \in Slots : r.job[t].at # "free" =>
           path[p].job[t].at # "free" /\ r.job[t].peer = path[p].job[t].peer
    BY <1>1, <2>2, <2>5 DEF PathState
  <2>7. InHand(r) \subseteq InHand(path[p])
    BY <1>1, <2>3, <2>4, <2>6, HandShrinks
  <2>8. path' = [path EXCEPT ![p] = Completed(r)] /\ seen' = seen /\ start' = start
    BY <1>4 DEF OtherEvent
  <2>9. Completed(r) \in PathState /\ InHand(Completed(r)) \subseteq InHand(r)
    BY <2>3, ListenerTypes, HandListeners
  <2> QED
    BY <1>3, <2>7, <2>8, <2>9
<1>5. ASSUME NEW p \in Paths, NEW s \in Slots, PeerResponse(p, s)
      PROVE  Goal
  <2>1. path[p].job[s].at = "ask" /\ path[p].job[s].peer \in Peers
    BY <1>1, <1>5 DEF PeerResponse, PathState, Job
  <2>2. PICK closer \in Answers[path[p].job[s].peer] :
          \E r \in GoOn(path[p], s, closer, seen) : path' = [path EXCEPT ![p] = r]
    BY <1>5 DEF PeerResponse
  <2>3. closer \in SUBSET Peers
    BY <2>1, AnswersAssumption
  <2>4. PICK n \in GoOn(path[p], s, closer, seen) : path' = [path EXCEPT ![p] = n]
    BY <2>2
  <2>5. n \in PathState /\ InHand(n) \subseteq InHand(path[p])
    BY <1>1, <2>1, <2>3, GoOnType, HandGoOn
  <2>6. seen' = seen /\ start' = start
    BY <1>5 DEF PeerResponse
  <2> QED
    BY <1>3, <2>4, <2>5, <2>6
<1>6. ASSUME NEW p \in Paths, NEW s \in Slots, Hashed(p, s)
      PROVE  Goal
  <2> DEFINE j == path[p].job[s]
             follow == IsCloser(j.cand, j.peer)
             r == IF follow THEN Add(path[p], j.cand) ELSE path[p]
  <2>1. j \in Job /\ j.at = "hash" /\ j.cand \in Peers /\ j.rest \in SUBSET Peers
    BY <1>1, <1>6 DEF Hashed, PathState, Job
  <2>2. r \in PathState /\ r.job[s].at # "free"
    BY <1>1, <2>1, AddType, AddKeepsJobs
  <2>3. PICK n \in GoOn(r, s, j.rest, seen') : path' = [path EXCEPT ![p] = n]
    BY <1>6 DEF Hashed
  <2>4. n \in PathState /\ InHand(n) \subseteq InHand(r)
    BY <2>1, <2>2, GoOnType, HandGoOn
  <2>5. start' = start /\ seen' = IF follow THEN seen \cup {j.cand} ELSE seen
    BY <1>6 DEF Hashed, MarkSeen
  <2>6. CASE follow
    <3>1. InHand(r) \subseteq InHand(path[p]) \cup {j.cand}
      BY <1>1, <2>1, <2>6, HandAdd
    <3>2. j.peer \in InHand(path[p]) /\ Dist[j.cand] <= Dist[j.peer]
      BY <2>1, <2>6 DEF InHand, Busy, FreeSlots, IsCloser
    <3> HIDE DEF r, j
    <3> QED
      BY <1>0, <2>3, <2>4, <2>5, <2>6, <3>1, <3>2 DEF Justified
  <2>7. CASE ~follow
    BY <1>3, <2>3, <2>4, <2>5, <2>7
  <2> QED
    BY <2>6, <2>7
<1>7. ASSUME NEW p \in Paths, NEW s \in Slots, JobEnds(p, s)
      PROVE  Goal
  <2>1. PICK n \in JobDone(path[p], s) : path' = [path EXCEPT ![p] = n]
    BY <1>7 DEF JobEnds
  <2>2. n \in PathState /\ InHand(n) \subseteq InHand(path[p])
    BY <1>1, <2>1, JobDoneType, HandJobDone
  <2> QED
    BY <1>3, <1>7, <2>1, <2>2 DEF JobEnds
<1>8. ASSUME NEW p \in Paths, NEW s \in Slots, JobThrows(p, s)
      PROVE  Goal
  <2> DEFINE r == IF aborted THEN Failed(path[p]) ELSE Completed(path[p])
  <2>1. PICK n \in JobDone(r, s) : path' = [path EXCEPT ![p] = n]
    BY <1>8 DEF JobThrows
  <2>2. r \in PathState /\ InHand(r) \subseteq InHand(path[p])
    BY <1>1, ListenerTypes, HandListeners
  <2>3. n \in PathState /\ InHand(n) \subseteq InHand(r)
    BY <2>1, <2>2, JobDoneType, HandJobDone
  <2>4. seen' = seen /\ start' = start
    BY <1>8 DEF JobThrows
  <2> QED
    BY <1>3, <2>1, <2>2, <2>3, <2>4
<1>9. ASSUME NEW p \in Paths, NEW s \in Slots, JobTimeout(p, s)
      PROVE  Goal
  <2> DEFINE n == [path[p] EXCEPT !.job[s].expired = TRUE]
  <2>1. path[p].job[s] \in Job
    BY <1>1 DEF PathState
  <2>2. n \in PathState
    BY <1>1, <2>1, JobUpdateTypes DEF PathState
  <2>3. Waiting(n) \subseteq Waiting(path[p])
    BY <1>1 DEF Waiting, PathState
  <2>4. \A t \in Slots : n.job[t].at = path[p].job[t].at
                         /\ n.job[t].peer = path[p].job[t].peer
    BY <1>1, <2>1 DEF PathState, Job
  <2>5. InHand(n) \subseteq InHand(path[p])
    BY <1>1, <2>2, <2>3, <2>4, HandShrinks
  <2> QED
    BY <1>3, <1>9, <2>2, <2>5 DEF JobTimeout
<1>10. ASSUME NEW p \in Paths, Wake(p) \/ Resume(p)
       PROVE  Goal
  <2>1. \A r \in PathState : \A d :
          /\ InHand([r EXCEPT !.gen = d]) = InHand(r)
          /\ InHand([r EXCEPT !.deferred = d]) = InHand(r)
    BY DEF InHand, Waiting, Busy, FreeSlots, PathState
  <2> DEFINE fresh == [path[p] EXCEPT !.deferred = "pending"]
  <2>2. fresh \in PathState
    BY <1>1 DEF PathState
  <2>3. [path[p] EXCEPT !.gen = "threw"] \in PathState
    BY <1>1 DEF PathState
  <2>4. Drain(fresh) \in PathState /\ InHand(Drain(fresh)) \subseteq InHand(path[p])
    BY <1>1, <2>1, <2>2, ListenerTypes, HandListeners
  <2>5. Drain(path[p]) \in PathState /\ InHand(Drain(path[p])) \subseteq InHand(path[p])
    BY <1>1, ListenerTypes, HandListeners
  <2>6. \E n \in PathState : Continue(p, n) /\ InHand(n) \subseteq InHand(path[p])
    BY <1>1, <1>10, <2>1, <2>3, <2>4, <2>5 DEF Wake, Resume
  <2> QED
    BY <1>3, <2>6 DEF Continue
<1>11. CASE Abort
  <2>1. \A p \in Paths : InHand(path'[p]) \subseteq InHand(path[p])
    BY <1>1, <1>11, HandListeners DEF Abort
  <2> QED
    BY <1>11, <2>1 DEF Abort
<1>12. CASE CallerStep
  <2>1. \A p \in Paths : InHand(path'[p]) \subseteq InHand(path[p])
    BY <1>1, <1>12, HandListeners
       DEF CallerStep, Take, Break, Return, Throw, CleanUpPaths
  <2> QED
    BY <1>12, <2>1 DEF CallerStep, Take, Break, Return, Throw
<1>13. CASE UNCHANGED vars
  BY <1>13 DEF vars
<1> QED
  BY <1>2, <1>4, <1>5, <1>6, <1>7, <1>8, <1>9, <1>10, <1>11, <1>12, <1>13
     DEF Next, JobStep

LEMMA WalkInit == Init => HandledPeersAreSeen /\ OnlyTowardsKey
<1> SUFFICES ASSUME Init, NEW p \in Paths
             PROVE  InHand(path[p]) = {}
  BY DEF HandledPeersAreSeen, OnlyTowardsKey
<1>1. path[p].queue = EmptyQueue /\ \A s \in Slots : path[p].job[s] = Free
  BY DEF Init
<1> QED
  BY <1>1 DEF InHand, Waiting, Busy, FreeSlots, EmptyQueue, Free

LEMMA WalkStep ==
  TypeOK /\ HandledPeersAreSeen /\ OnlyTowardsKey /\ [Next]_vars
    => HandledPeersAreSeen' /\ OnlyTowardsKey'
<1> SUFFICES ASSUME TypeOK, HandledPeersAreSeen, OnlyTowardsKey, [Next]_vars,
                    NEW p \in Paths, NEW q \in InHand(path'[p])
             PROVE  q \in seen' /\ Dist[q] <= Dist[start'[p]]
  BY DEF HandledPeersAreSeen, OnlyTowardsKey
<1>1. /\ seen \subseteq seen' /\ start' = start
      /\ q \notin InHand(path[p]) => Justified(p, q)
  BY HandStep
<1>2. q \in Peers /\ start[p] \in Peers
  <2>1. TypeOK'
    BY TypeStep
  <2>2. path'[p] \in PathState
    BY <2>1 DEF TypeOK
  <2> QED
    BY <2>2, TypePaths, HandPeers
<1>3. CASE q \in InHand(path[p])
  BY <1>1, <1>3 DEF HandledPeersAreSeen, OnlyTowardsKey
<1>4. CASE q = start[p] /\ q \in seen'
  BY <1>1, <1>2, <1>4, DistAssumption
<1>5. ASSUME NEW b \in InHand(path[p]), Dist[q] <= Dist[b], q \in seen'
      PROVE  q \in seen' /\ Dist[q] <= Dist[start'[p]]
  <2>1. b \in Peers
    BY TypePaths, HandPeers
  <2>2. Dist[b] <= Dist[start[p]]
    BY DEF OnlyTowardsKey
  <2> QED
    BY <1>1, <1>2, <1>5, <2>1, <2>2, DistAssumption
<1> QED
  BY <1>1, <1>3, <1>4, <1>5 DEF Justified

\* Whatever the peers answer and however the paths interleave, every peer that is
\* queued or asked has been put into the shared peersSeen (query-path.ts:106).
THEOREM HandledSeen == Spec => []HandledPeersAreSeen
  BY TypeInit, TypeStep, WalkInit, WalkStep, PTL DEF Spec

\* For every number of hops and of paths, a path never asks a peer that is farther
\* from the key than the peer it started from (query-path.ts:150).
THEOREM WalkApproachesKey == Spec => []OnlyTowardsKey
  BY TypeInit, TypeStep, WalkInit, WalkStep, PTL DEF Spec

-----------------------------------------------------------------------------
(* The flow of events: a waiting generator is always woken, and a run that *)
(* returns unaborted is complete.                                          *)

\* A path whose generator has not started is untouched.
Untouched(r) == /\ r.running /\ r.results = 0 /\ r.deferred = "pending"
                /\ Busy(r) = {} /\ Waiting(r) = {}

\* What holds of a path whatever its environment does.
PathFlow(r) ==
  /\ r.gen = "init" => Untouched(r)
  /\ Waiting(r) # {} => Busy(r) = Slots
  /\ r.gen # "init" /\ r.running => Busy(r) # {}
  /\ r.gen = "await" /\ r.deferred = "pending" => r.running /\ r.results = 0
  /\ r.gen = "done" => ~r.running

\* What holds of a path while its run has neither been aborted nor left.
QuietFlow(r) ==
  /\ r.deferred # "rejected" /\ r.gen # "threw"
  /\ r.gen # "init" /\ ~r.running => Busy(r) = {}
  /\ r.gen = "done" => r.results = 0

FlowInv ==
  /\ \A p \in Paths : PathFlow(path[p])
  /\ ~aborted /\ caller # "left" =>
       /\ caller # "threw"
       /\ \A p \in Paths : QuietFlow(path[p])
       /\ caller = "returned" => \A p \in Paths : path[p].gen = "done"

LEMMA AddFlow ==
  ASSUME NEW r \in PathState, NEW q \in Peers, Waiting(r) # {} => Busy(r) = Slots
  PROVE  LET n == Add(r, q) IN
         /\ n.gen = r.gen /\ n.running = r.running /\ n.results = r.results
         /\ n.deferred = r.deferred
         /\ Busy(r) \subseteq Busy(n) /\ Busy(n) # {}
         /\ Waiting(n) # {} => Busy(n) = Slots
<1>1. CASE FreeSlots(r) = {}
  <2> DEFINE n == [r EXCEPT !.queue[q] = @ + 1]
  <2>1. Add(r, q) = n
    BY <1>1 DEF Add
  <2>2. n.job = r.job /\ n.gen = r.gen /\ n.running = r.running
        /\ n.results = r.results /\ n.deferred = r.deferred
    BY DEF PathState
  <2>3. Busy(n) = Slots /\ Busy(r) = Slots
    BY <1>1, <2>2 DEF Busy, FreeSlots
  <2> HIDE DEF n
  <2> QED
    BY <2>1, <2>2, <2>3, AlphaPositive
<1>2. ASSUME NEW t \in FreeSlots(r), Add(r, q) = [r EXCEPT !.job[t] = Asking(q)]
      PROVE  LET n == Add(r, q) IN
             /\ n.gen = r.gen /\ n.running = r.running /\ n.results = r.results
             /\ n.deferred = r.deferred
             /\ Busy(r) \subseteq Busy(n) /\ Busy(n) # {}
             /\ Waiting(n) # {} => Busy(n) = Slots
  <2> DEFINE n == Add(r, q)
  <2>1. t \in Slots /\ Busy(r) # Slots
    BY DEF Busy, FreeSlots
  <2>2. /\ n.gen = r.gen /\ n.running = r.running /\ n.results = r.results
        /\ n.deferred = r.deferred /\ n.queue = r.queue
        /\ n.job = [r.job EXCEPT ![t] = Asking(q)]
    BY <1>2 DEF PathState
  <2>6. Asking(q).at = "ask"
    BY DEF Asking
  <2>3. n.job[t].at = "ask" /\ \A s \in Slots \ {t} : n.job[s] = r.job[s]
    BY <2>1, <2>2, <2>6 DEF PathState
  <2>4. Waiting(n) = {}
    BY <2>1, <2>2 DEF Waiting
  <2> HIDE DEF n
  <2>5. Busy(r) \subseteq Busy(n) /\ t \in Busy(n)
    BY <2>1, <2>3 DEF Busy, FreeSlots
  <2> QED
    BY <2>2, <2>4, <2>5 DEF n
<1> QED
  BY <1>1, <1>2, AddCases

LEMMA StartNextFlow ==
  ASSUME NEW r \in PathState, NEW s \in Slots, NEW n \in StartNext(r, s),
         Waiting(r) # {} => Busy(r) = Slots
  PROVE  /\ n.gen = r.gen /\ n.running = r.running /\ n.results = r.results
         /\ n.deferred = r.deferred
         /\ Waiting(n) # {} => Busy(n) = Slots
<1>1. CASE Waiting(r) = {}
  <2>1. n = [r EXCEPT !.job[s] = Free]
    BY <1>1 DEF StartNext
  <2>2. n.queue = r.queue
    BY <2>1 DEF PathState
  <2> QED
    BY <1>1, <2>1, <2>2 DEF PathState, Waiting
<1>2. CASE Waiting(r) # {}
  <2>1. PICK q : n = [r EXCEPT !.job[s] = Asking(q), !.queue[q] = @ - 1]
    BY <1>2 DEF StartNext
  <2>2. n.job = [r.job EXCEPT ![s] = Asking(q)]
    BY <2>1 DEF PathState
  <2>3. \A t \in Slots : n.job[t].at # "free"
    BY <1>2, <2>2 DEF PathState, Asking, Busy, FreeSlots
  <2> QED
    BY <2>1, <2>3 DEF PathState, Busy, FreeSlots
<1> QED
  BY <1>1, <1>2

LEMMA JobDoneFlow ==
  ASSUME NEW r \in PathState, NEW s \in Slots, NEW n \in JobDone(r, s),
         Waiting(r) # {} => Busy(r) = Slots
  PROVE  /\ n.gen = r.gen /\ n.running = (r.running /\ Busy(n) # {})
         /\ n.results = r.results /\ n.deferred = Resolve(r.deferred)
         /\ Waiting(n) # {} => Busy(n) = Slots
<1>1. PICK m \in StartNext(r, s) :
        n = [m EXCEPT !.deferred = Resolve(@), !.running = @ /\ Busy(m) # {}]
  BY DEF JobDone
<1>2. m \in PathState
  BY StartNextType
<1>3. /\ n.job = m.job /\ n.queue = m.queue /\ n.gen = m.gen /\ n.results = m.results
      /\ n.deferred = Resolve(m.deferred) /\ n.running = (m.running /\ Busy(m) # {})
  BY <1>1, <1>2 DEF PathState
<1>4. Busy(n) = Busy(m) /\ Waiting(n) = Waiting(m)
  BY <1>3 DEF Busy, FreeSlots, Waiting
<1> QED
  BY <1>3, <1>4, StartNextFlow

LEMMA CompletedFlow ==
  ASSUME NEW r \in PathState
  PROVE  LET n == Completed(r) IN
         /\ n.gen = r.gen /\ n.running = r.running /\ n.deferred = Resolve(r.deferred)
         /\ n.job = r.job /\ n.queue = r.queue
  BY DEF Completed, PathState

LEMMA GoOnFlow ==
  ASSUME NEW r \in PathState, NEW s \in Slots, NEW list \in SUBSET Peers, NEW set,
         r.job[s].at # "free", NEW n \in GoOn(r, s, list, set)
  PROVE  /\ n.gen = r.gen /\ n.running = r.running
         /\ Busy(n) = Busy(r) /\ Waiting(n) = Waiting(r)
         /\ \/ n.results = r.results /\ n.deferred = r.deferred
            \/ n.deferred = Resolve(r.deferred)
<1> DEFINE fresh == Fresh(list, set)
           back == [r EXCEPT !.job[s] = PassedOn(@)]
<1>1. r.job[s] \in Job
  BY DEF PathState
<1>2. PassedOn(r.job[s]).at = "ask" /\ \A c, d : Hashing(r.job[s], c, d).at = "hash"
  BY <1>1 DEF PassedOn, Hashing, Job
<1>3. CASE n = Completed(back)
  <2>1. back \in PathState
    BY <1>1, PassedOnType DEF PathState
  <2>2. /\ back.gen = r.gen /\ back.running = r.running /\ back.deferred = r.deferred
        /\ back.queue = r.queue /\ back.job = [r.job EXCEPT ![s] = PassedOn(@)]
    BY DEF PathState
  <2> HIDE DEF back
  <2>3. /\ n.gen = r.gen /\ n.running = r.running /\ n.deferred = Resolve(r.deferred)
        /\ n.queue = r.queue /\ n.job = [r.job EXCEPT ![s] = PassedOn(@)]
    BY <1>3, <2>1, <2>2, CompletedFlow
  <2>4. \A t \in Slots : n.job[t].at = "free" <=> r.job[t].at = "free"
    BY <1>2, <2>3 DEF PathState
  <2> QED
    BY <2>3, <2>4 DEF Busy, FreeSlots, Waiting
<1>4. ASSUME NEW c \in fresh, n = [r EXCEPT !.job[s] = Hashing(@, c, fresh \ {c})]
      PROVE  /\ n.gen = r.gen /\ n.running = r.running
             /\ Busy(n) = Busy(r) /\ Waiting(n) = Waiting(r)
             /\ n.results = r.results /\ n.deferred = r.deferred
  <2>1. /\ n.gen = r.gen /\ n.running = r.running /\ n.deferred = r.deferred
        /\ n.results = r.results /\ n.queue = r.queue
        /\ n.job = [r.job EXCEPT ![s] = Hashing(@, c, fresh \ {c})]
    BY <1>4 DEF PathState
  <2>2. \A t \in Slots : n.job[t].at = "free" <=> r.job[t].at = "free"
    BY <1>2, <2>1 DEF PathState
  <2> QED
    BY <2>1, <2>2 DEF Busy, FreeSlots, Waiting
<1> QED
  BY <1>3, <1>4 DEF GoOn

LEMMA CleanupFlow ==
  ASSUME NEW r \in PathState
  PROVE  LET n == Cleanup(r) IN
         /\ n.gen = r.gen /\ n.running = FALSE /\ n.deferred = r.deferred
         /\ n.job = r.job /\ n.queue \in {r.queue, EmptyQueue}
         /\ ~r.running => n = r
  BY DEF Cleanup, PathState

\* A job's step on a path keeps its flow: it adds workers or leaves them, and
\* every result comes with a settled promise.
LEMMA FlowKept ==
  ASSUME NEW r \in PathState, NEW n \in PathState, NEW s \in Busy(r),
         PathFlow(r), r.gen # "init",
         n.gen = r.gen, n.running = r.running,
         Busy(r) \subseteq Busy(n), Waiting(n) # {} => Busy(n) = Slots,
         \/ n.results = r.results /\ n.deferred = r.deferred
         \/ n.deferred = Resolve(r.deferred)
  PROVE  /\ PathFlow(n)
         /\ QuietFlow(r) => QuietFlow(n) /\ r.gen # "done"
  BY DEF PathFlow, QuietFlow, Resolve

LEMMA ListenerFlow ==
  ASSUME NEW r \in PathState, PathFlow(r)
  PROVE  PathFlow(OnAbort(r)) /\ PathFlow(OnCleanUp(r))
<1>1. CASE r.gen = "init"
  BY <1>1 DEF OnAbort, OnCleanUp
<1>2. CASE r.gen # "init"
  <2> DEFINE c == Cleanup(r)
  <2>1. c \in PathState
    BY ListenerTypes
  <2>2. /\ c.gen = r.gen /\ c.running = FALSE /\ c.deferred = r.deferred
        /\ c.job = r.job /\ c.queue \in {r.queue, EmptyQueue}
    BY CleanupFlow
  <2> HIDE DEF c
  <2>3. ASSUME NEW d \in {"resolved", "rejected"}
        PROVE  PathFlow([c EXCEPT !.deferred = d])
    <3> DEFINE n == [c EXCEPT !.deferred = d]
    <3>1. /\ n.gen = r.gen /\ n.running = FALSE /\ n.deferred = d
          /\ n.job = r.job /\ n.queue \in {r.queue, EmptyQueue}
      BY <2>1, <2>2 DEF PathState
    <3> HIDE DEF n
    <3>2. Busy(n) = Busy(r) /\ Waiting(n) \subseteq Waiting(r)
      BY <3>1 DEF Busy, FreeSlots, Waiting, EmptyQueue
    <3>3. PathFlow(n)
      BY <1>2, <3>1, <3>2 DEF PathFlow
    <3> QED
      BY <3>3 DEF n
  <2>4. /\ Resolve(c.deferred) \in {"resolved", "rejected"}
        /\ Reject(c.deferred) \in {"resolved", "rejected"}
    BY <2>1 DEF Resolve, Reject, PathState
  <2>5. OnCleanUp(r) = [c EXCEPT !.deferred = Resolve(c.deferred)]
    BY <1>2 DEF OnCleanUp, c
  <2>6. OnAbort(r) = r \/ OnAbort(r) = [c EXCEPT !.deferred = Reject(c.deferred)]
    BY DEF OnAbort, c
  <2> QED
    BY <2>3, <2>4, <2>5, <2>6
<1> QED
  BY <1>1, <1>2

LEMMA QuietCleanUp ==
  ASSUME NEW r \in PathState, PathFlow(r), QuietFlow(r), r.gen = "done"
  PROVE  QuietFlow(OnCleanUp(r)) /\ OnCleanUp(r).gen = "done"
<1>1. ~r.running
  BY DEF PathFlow
<1>2. OnCleanUp(r) = [r EXCEPT !.deferred = Resolve(@)]
  BY <1>1 DEF OnCleanUp, Cleanup
<1> DEFINE n == [r EXCEPT !.deferred = Resolve(@)]
<1>3. /\ n.gen = r.gen /\ n.running = r.running /\ n.job = r.job
      /\ n.results = r.results /\ n.deferred = Resolve(r.deferred)
  BY DEF PathState
<1> HIDE DEF n
<1>4. Busy(n) = Busy(r)
  BY <1>3 DEF Busy, FreeSlots
<1>5. QuietFlow(n) /\ n.gen = "done"
  BY <1>3, <1>4 DEF QuietFlow, Resolve
<1> QED
  BY <1>2, <1>5 DEF n

LEMMA FlowOne ==
  ASSUME TypeOK, FlowInv, NEW p \in Paths, NEW n, path' = [path EXCEPT ![p] = n],
         aborted' = aborted, caller' = caller,
         PathFlow(n),
         ~aborted /\ QuietFlow(path[p]) => QuietFlow(n),
         ~aborted /\ QuietFlow(path[p]) /\ path[p].gen = "done" => n.gen = "done"
  PROVE  FlowInv'
<1>1. path \in [Paths -> PathState]
  BY DEF TypeOK
<1>2. \A q \in Paths : path'[q] = IF q = p THEN n ELSE path[q]
  BY <1>1
<1> QED
  BY <1>2 DEF FlowInv

\* A job runs only on a path that has started.
LEMMA BusyStarted ==
  ASSUME NEW r, PathFlow(r), NEW s \in Slots, r.job[s].at # "free"
  PROVE  r.gen # "init" /\ s \in Busy(r)
  BY DEF PathFlow, Untouched, Busy, FreeSlots

LEMMA FlowStep == TypeOK /\ FlowInv /\ [Next]_vars => FlowInv'
<1> SUFFICES ASSUME TypeOK, FlowInv, [Next]_vars
             PROVE  FlowInv'
  OBVIOUS
<1>1. \A p \in Paths : start[p] \in Peers /\ path[p] \in PathState
  BY TypePaths
<1>2. \A p \in Paths : PathFlow(path[p])
  BY DEF FlowInv
<1>3. ASSUME NEW p \in Paths, Begin(p)
      PROVE  FlowInv'
  <2> DEFINE r == Add(path[p], start[p])
             n == [r EXCEPT !.gen = "await"]
  <2>1. Untouched(path[p])
    BY <1>2, <1>3 DEF Begin, PathFlow
  <2>2. /\ r.running /\ r.results = 0 /\ r.deferred = "pending" /\ Busy(r) # {}
        /\ Waiting(r) # {} => Busy(r) = Slots
    BY <1>1, <2>1, AddFlow DEF Untouched
  <2>3. r \in PathState
    BY <1>1, AddType
  <2> HIDE DEF r
  <2>4. /\ n.gen = "await" /\ n.running /\ n.results = 0 /\ n.deferred = "pending"
        /\ n.job = r.job /\ n.queue = r.queue
    BY <2>2, <2>3 DEF PathState
  <2>5. Busy(n) = Busy(r) /\ Waiting(n) = Waiting(r)
    BY <2>4 DEF Busy, FreeSlots, Waiting
  <2>6. PathFlow(n) /\ QuietFlow(n)
    BY <2>2, <2>4, <2>5 DEF PathFlow, QuietFlow
  <2> QED
    BY <1>3, <2>6, FlowOne DEF Begin, r
<1>4. ASSUME NEW p \in Paths, NEW s \in Slots, OtherEvent(p, s)
      PROVE  FlowInv'
  <2> DEFINE r == [path[p] EXCEPT !.job[s] = Counted(path[p].job[s])]
             n == Completed(r)
  <2>1. path[p].job[s] \in Job /\ path[p].job[s].at = "ask"
    BY <1>1, <1>4 DEF PathState, OtherEvent
  <2>2. Counted(path[p].job[s]).at = "ask"
    BY <2>1 DEF Counted, Job
  <2>3. r \in PathState
    BY <1>1, <2>1, JobUpdateTypes DEF PathState
  <2>4. /\ r.gen = path[p].gen /\ r.running = path[p].running
        /\ r.deferred = path[p].deferred /\ r.queue = path[p].queue
        /\ r.job = [path[p].job EXCEPT ![s] = Counted(path[p].job[s])]
    BY <1>1 DEF PathState
  <2>5. n \in PathState
    BY <2>3, ListenerTypes
  <2>6. path' = [path EXCEPT ![p] = n] /\ aborted' = aborted /\ caller' = caller
    BY <1>4 DEF OtherEvent
  <2> HIDE DEF r
  <2>7. /\ n.gen = path[p].gen /\ n.running = path[p].running
        /\ n.deferred = Resolve(path[p].deferred) /\ n.queue = path[p].queue
        /\ n.job = [path[p].job EXCEPT ![s] = Counted(path[p].job[s])]
    BY <2>3, <2>4, CompletedFlow
  <2>8. \A t \in Slots : n.job[t].at = "free" <=> path[p].job[t].at = "free"
    BY <1>1, <2>1, <2>2, <2>7 DEF PathState
  <2> HIDE DEF n
  <2>9. Busy(n) = Busy(path[p]) /\ Waiting(n) = Waiting(path[p])
    BY <2>7, <2>8 DEF Busy, FreeSlots, Waiting
  <2>10. path[p].gen # "init" /\ s \in Busy(path[p])
    BY <1>2, <2>1, BusyStarted
  <2>11. PathFlow(n) /\ (QuietFlow(path[p]) => QuietFlow(n) /\ path[p].gen # "done")
    BY <1>1, <1>2, <2>5, <2>7, <2>9, <2>10, FlowKept DEF PathFlow
  <2> QED
    BY <2>6, <2>11, FlowOne
<1>5. ASSUME NEW p \in Paths, NEW s \in Slots, PeerResponse(p, s)
      PROVE  FlowInv'
  <2>1. path[p].job[s].at = "ask" /\ path[p].job[s].peer \in Peers
    BY <1>1, <1>5 DEF PeerResponse, PathState, Job
  <2>2. PICK closer \in Answers[path[p].job[s].peer] :
          \E r \in GoOn(path[p], s, closer, seen) : path' = [path EXCEPT ![p] = r]
    BY <1>5 DEF PeerResponse
  <2>3. closer \in SUBSET Peers
    BY <2>1, AnswersAssumption
  <2>4. PICK n \in GoOn(path[p], s, closer, seen) : path' = [path EXCEPT ![p] = n]
    BY <2>2
  <2>5. path[p].gen # "init" /\ s \in Busy(path[p])
    BY <1>2, <2>1, BusyStarted
  <2>6. n \in PathState
    BY <1>1, <2>1, <2>3, GoOnType
  <2>7. /\ n.gen = path[p].gen /\ n.running = path[p].running
        /\ Busy(n) = Busy(path[p]) /\ Waiting(n) = Waiting(path[p])
        /\ \/ n.results = path[p].results /\ n.deferred = path[p].deferred
           \/ n.deferred = Resolve(path[p].deferred)
    BY <1>1, <2>1, <2>3, GoOnFlow
  <2>8. PathFlow(n) /\ (QuietFlow(path[p]) => QuietFlow(n) /\ path[p].gen # "done")
    BY <1>1, <1>2, <2>5, <2>6, <2>7, FlowKept DEF PathFlow
  <2>9. aborted' = aborted /\ caller' = caller
    BY <1>5 DEF PeerResponse
  <2> QED
    BY <2>4, <2>8, <2>9, FlowOne
<1>6. ASSUME NEW p \in Paths, NEW s \in Slots, Hashed(p, s)
      PROVE  FlowInv'
  <2> DEFINE j == path[p].job[s]
             r == IF IsCloser(j.cand, j.peer) THEN Add(path[p], j.cand) ELSE path[p]
  <2>1. j.at = "hash" /\ j.cand \in Peers /\ j.rest \in SUBSET Peers
    BY <1>1, <1>6 DEF Hashed, PathState, Job
  <2>2. r \in PathState /\ r.job[s].at # "free"
    BY <1>1, <2>1, AddType, AddKeepsJobs
  <2>3. path[p].gen # "init" /\ s \in Busy(path[p])
    BY <1>2, <2>1, BusyStarted
  <2>4. /\ r.gen = path[p].gen /\ r.running = path[p].running
        /\ r.results = path[p].results /\ r.deferred = path[p].deferred
        /\ Busy(path[p]) \subseteq Busy(r)
        /\ Waiting(r) # {} => Busy(r) = Slots
    <3>1. Waiting(path[p]) # {} => Busy(path[p]) = Slots
      BY <1>2 DEF PathFlow
    <3>2. CASE IsCloser(j.cand, j.peer)
      BY <1>1, <2>1, <3>1, <3>2, AddFlow
    <3>3. CASE ~IsCloser(j.cand, j.peer)
      BY <3>1, <3>3
    <3> QED
      BY <3>2, <3>3
  <2> HIDE DEF r
  <2>5. PICK n \in GoOn(r, s, j.rest, seen') : path' = [path EXCEPT ![p] = n]
    BY <1>6 DEF Hashed, r
  <2>6. n \in PathState
    BY <2>1, <2>2, GoOnType
  <2>7. /\ n.gen = r.gen /\ n.running = r.running
        /\ Busy(n) = Busy(r) /\ Waiting(n) = Waiting(r)
        /\ \/ n.results = r.results /\ n.deferred = r.deferred
           \/ n.deferred = Resolve(r.deferred)
    BY <2>1, <2>2, GoOnFlow
  <2>8. PathFlow(n) /\ (QuietFlow(path[p]) => QuietFlow(n) /\ path[p].gen # "done")
    BY <1>1, <1>2, <2>3, <2>4, <2>6, <2>7, FlowKept
  <2>9. aborted' = aborted /\ caller' = caller
    BY <1>6 DEF Hashed
  <2> QED
    BY <2>5, <2>8, <2>9, FlowOne
<1>7. ASSUME NEW p \in Paths, NEW s \in Slots, JobEnds(p, s)
      PROVE  FlowInv'
  <2>1. PICK n \in JobDone(path[p], s) : path' = [path EXCEPT ![p] = n]
    BY <1>7 DEF JobEnds
  <2>2. path[p].gen # "init" /\ s \in Busy(path[p])
    BY <1>2, <1>7, BusyStarted DEF JobEnds
  <2>3. /\ n.gen = path[p].gen /\ n.running = (path[p].running /\ Busy(n) # {})
        /\ n.results = path[p].results /\ n.deferred = Resolve(path[p].deferred)
        /\ Waiting(n) # {} => Busy(n) = Slots
    BY <1>1, <1>2, JobDoneFlow DEF PathFlow
  <2>4. PathFlow(n)
    BY <1>2, <2>2, <2>3 DEF PathFlow, Resolve
  <2>5. QuietFlow(path[p]) => QuietFlow(n) /\ path[p].gen # "done"
    BY <1>2, <2>2, <2>3 DEF PathFlow, QuietFlow, Resolve
  <2>6. aborted' = aborted /\ caller' = caller
    BY <1>7 DEF JobEnds
  <2> QED
    BY <2>1, <2>4, <2>5, <2>6, FlowOne
<1>8. ASSUME NEW p \in Paths, NEW s \in Slots, JobThrows(p, s)
      PROVE  FlowInv'
  <2> DEFINE r == IF aborted THEN Failed(path[p]) ELSE Completed(path[p])
  <2>1. PICK n \in JobDone(r, s) : path' = [path EXCEPT ![p] = n]
    BY <1>8 DEF JobThrows
  <2>2. path[p].gen # "init" /\ s \in Busy(path[p])
    BY <1>2, <1>8, BusyStarted DEF JobThrows
  <2>3. r \in PathState
    BY <1>1, ListenerTypes
  <2>4. /\ r.gen = path[p].gen /\ (r.running => path[p].running)
        /\ Waiting(r) # {} => Busy(r) = Slots
        /\ Busy(r) = Busy(path[p])
        /\ ~aborted => r.running = path[p].running
                       /\ r.deferred = Resolve(path[p].deferred)
    <3>1. CASE ~aborted
      BY <1>1, <1>2, <3>1, CompletedFlow DEF PathFlow, Busy, FreeSlots, Waiting
    <3>2. CASE aborted
      <4>1. Cleanup(path[p]) \in PathState
        BY <1>1, ListenerTypes
      <4>2. /\ r.gen = path[p].gen /\ r.running = FALSE /\ r.job = path[p].job
            /\ r.queue \in {path[p].queue, EmptyQueue}
        BY <1>1, <3>2, <4>1, CleanupFlow DEF Failed, PathState
      <4> HIDE DEF r
      <4>3. Waiting(r) \subseteq Waiting(path[p]) /\ Busy(r) = Busy(path[p])
        BY <4>2 DEF Waiting, EmptyQueue, Busy, FreeSlots
      <4> QED
        BY <1>2, <3>2, <4>2, <4>3 DEF PathFlow
    <3> QED
      BY <3>1, <3>2
  <2> HIDE DEF r
  <2>5. /\ n.gen = r.gen /\ n.running = (r.running /\ Busy(n) # {})
        /\ n.results = r.results /\ n.deferred = Resolve(r.deferred)
        /\ Waiting(n) # {} => Busy(n) = Slots
    BY <2>1, <2>3, <2>4, JobDoneFlow
  <2>6. PathFlow(n)
    BY <1>2, <2>2, <2>4, <2>5 DEF PathFlow, Resolve
  <2>7. ~aborted /\ QuietFlow(path[p]) => QuietFlow(n) /\ path[p].gen # "done"
    BY <1>2, <2>2, <2>4, <2>5 DEF PathFlow, QuietFlow, Resolve
  <2>8. aborted' = aborted /\ caller' = caller
    BY <1>8 DEF JobThrows
  <2> QED
    BY <2>1, <2>6, <2>7, <2>8, FlowOne
<1>9. ASSUME NEW p \in Paths, NEW s \in Slots, JobTimeout(p, s)
      PROVE  FlowInv'
  <2> DEFINE n == [path[p] EXCEPT !.job[s].expired = TRUE]
  <2>1. path[p].job[s] \in Job
    BY <1>1 DEF PathState
  <2>2. n \in PathState
    BY <1>1, <2>1, JobUpdateTypes DEF PathState
  <2>3. /\ n.gen = path[p].gen /\ n.running = path[p].running /\ n.queue = path[p].queue
        /\ n.results = path[p].results /\ n.deferred = path[p].deferred
    BY <1>1 DEF PathState
  <2>4. \A t \in Slots : n.job[t].at = path[p].job[t].at
    BY <1>1, <2>1 DEF PathState, Job
  <2>5. path' = [path EXCEPT ![p] = n] /\ aborted' = aborted /\ caller' = caller
    BY <1>9 DEF JobTimeout
  <2> HIDE DEF n
  <2>6. Busy(n) = Busy(path[p]) /\ Waiting(n) = Waiting(path[p])
    BY <2>3, <2>4 DEF Busy, FreeSlots, Waiting
  <2>7. path[p].gen # "init" /\ s \in Busy(path[p])
    BY <1>2, <1>9, BusyStarted DEF JobTimeout
  <2>8. PathFlow(n) /\ (QuietFlow(path[p]) => QuietFlow(n) /\ path[p].gen # "done")
    BY <1>1, <1>2, <2>2, <2>3, <2>6, <2>7, FlowKept DEF PathFlow
  <2> QED
    BY <2>5, <2>8, FlowOne
<1>10. ASSUME NEW p \in Paths, Wake(p)
       PROVE  FlowInv'
  <2>1. /\ path[p].gen = "await" /\ path[p].deferred # "pending"
        /\ Continue(p, IF path[p].deferred = "rejected"
                          THEN [path[p] EXCEPT !.gen = "threw"]
                          ELSE Drain([path[p] EXCEPT !.deferred = "pending"]))
    BY <1>10 DEF Wake
  <2>2. CASE path[p].deferred = "rejected"
    <3> DEFINE n == [path[p] EXCEPT !.gen = "threw"]
    <3>1. path' = [path EXCEPT ![p] = n] /\ aborted' = aborted /\ caller' = caller
      BY <2>1, <2>2 DEF Continue
    <3>2. /\ n.gen = "threw" /\ n.running = path[p].running
          /\ n.job = path[p].job /\ n.queue = path[p].queue
      BY <1>1 DEF PathState
    <3> HIDE DEF n
    <3>3. PathFlow(n)
      BY <1>2, <2>1, <3>2 DEF PathFlow, Busy, FreeSlots, Waiting
    <3>4. ~QuietFlow(path[p])
      BY <2>2 DEF QuietFlow
    <3> QED
      BY <3>1, <3>3, <3>4, FlowOne
  <2>3. CASE path[p].deferred # "rejected"
    <3> DEFINE m == [path[p] EXCEPT !.deferred = "pending"]
               n == Drain(m)
    <3>1. path' = [path EXCEPT ![p] = n] /\ aborted' = aborted /\ caller' = caller
      BY <2>1, <2>3 DEF Continue
    <3>2. /\ m \in PathState /\ m.deferred = "pending" /\ m.gen = "await"
          /\ m.running = path[p].running /\ m.results = path[p].results
          /\ m.job = path[p].job /\ m.queue = path[p].queue
      BY <1>1, <2>1 DEF PathState
    <3> HIDE DEF m
    <3>3. /\ n.running = m.running /\ n.deferred = m.deferred
          /\ n.job = m.job /\ n.queue = m.queue
          /\ n.gen = IF m.results > 0 THEN "yield"
                     ELSE IF m.running THEN "await" ELSE "done"
          /\ m.results = 0 => n.results = 0
      BY <3>2 DEF Drain, PathState
    <3>4. m.results \in Nat
      BY <3>2 DEF PathState
    <3> HIDE DEF n
    <3>5. Busy(n) = Busy(path[p]) /\ Waiting(n) = Waiting(path[p])
      BY <3>2, <3>3 DEF Busy, FreeSlots, Waiting
    <3>6. PathFlow(n)
      <4>1. /\ n.gen \in {"yield", "await", "done"}
            /\ n.gen = "await" => n.running /\ n.results = 0
            /\ n.gen = "done" => ~n.running
        BY <3>3, <3>4
      <4>2. /\ Waiting(n) # {} => Busy(n) = Slots
            /\ n.running => Busy(n) # {}
        BY <1>2, <2>1, <3>2, <3>3, <3>5 DEF PathFlow
      <4> QED
        BY <4>1, <4>2 DEF PathFlow
    <3>7. QuietFlow(path[p]) => QuietFlow(n)
      BY <2>1, <3>2, <3>3, <3>4, <3>5 DEF QuietFlow
    <3> QED
      BY <2>1, <3>1, <3>6, <3>7, FlowOne
  <2> QED
    BY <2>2, <2>3
<1>11. ASSUME NEW p \in Paths, Resume(p)
       PROVE  FlowInv'
  <2> DEFINE m == path[p]
             n == Drain(m)
  <2>1. m \in PathState /\ m.gen = "yield" /\ m.results \in Nat
    BY <1>1, <1>11 DEF Resume, PathState
  <2>2. path' = [path EXCEPT ![p] = n] /\ aborted' = aborted /\ caller' = caller
    BY <1>11 DEF Resume, Continue
  <2>3. /\ n.running = m.running /\ n.deferred = m.deferred
        /\ n.job = m.job /\ n.queue = m.queue
        /\ n.gen = IF m.results > 0 THEN "yield"
                   ELSE IF m.running THEN "await" ELSE "done"
        /\ m.results = 0 => n.results = 0
    BY <2>1 DEF Drain, PathState
  <2> HIDE DEF n
  <2>4. Busy(n) = Busy(m) /\ Waiting(n) = Waiting(m)
    BY <2>3 DEF Busy, FreeSlots, Waiting
  <2>5. PathFlow(n)
    <3>1. /\ n.gen \in {"yield", "await", "done"}
          /\ n.gen = "await" => n.running /\ n.results = 0
          /\ n.gen = "done" => ~n.running
      BY <2>1, <2>3
    <3>2. /\ Waiting(n) # {} => Busy(n) = Slots
          /\ n.running => Busy(n) # {}
      BY <1>2, <2>1, <2>3, <2>4 DEF PathFlow
    <3> QED
      BY <3>1, <3>2 DEF PathFlow
  <2>6. QuietFlow(m) => QuietFlow(n)
    BY <2>1, <2>3, <2>4 DEF QuietFlow
  <2> QED
    BY <2>1, <2>2, <2>5, <2>6, FlowOne
<1>12. CASE UNCHANGED vars
  BY <1>12 DEF vars, FlowInv
<1>13. CASE Abort
  <2>1. aborted' /\ \A p \in Paths : path'[p] = OnAbort(path[p])
    BY <1>13 DEF Abort
  <2>2. ASSUME NEW p \in Paths
        PROVE  PathFlow(OnAbort(path[p]))
    BY <1>1, <1>2, ListenerFlow
  <2> QED
    BY <2>1, <2>2 DEF FlowInv
<1>14. CASE Take
  BY <1>14 DEF Take, FlowInv
<1>15. CASE Break \/ Return \/ Throw
  <2>1. /\ \A p \in Paths : path'[p] = OnCleanUp(path[p])
        /\ aborted' = aborted
    BY <1>15 DEF Break, Return, Throw, CleanUpPaths
  <2>2. ASSUME NEW p \in Paths
        PROVE  PathFlow(OnCleanUp(path[p]))
    BY <1>1, <1>2, ListenerFlow
  <2>3. CASE aborted
    BY <2>1, <2>2, <2>3 DEF FlowInv
  <2>4. CASE Break
    BY <2>1, <2>2, <2>4 DEF FlowInv, Break
  <2>5. CASE ~aborted /\ Throw
    BY <2>5 DEF FlowInv, QuietFlow, Throw, MergeFailed
  <2>6. CASE ~aborted /\ Return
    <3>1. \A p \in Paths : path[p].gen = "done" /\ QuietFlow(path[p])
      BY <2>6 DEF Return, MergeEnded, FlowInv
    <3>2. ASSUME NEW p \in Paths
          PROVE  QuietFlow(OnCleanUp(path[p])) /\ OnCleanUp(path[p]).gen = "done"
      BY <1>1, <1>2, <3>1, QuietCleanUp
    <3> QED
      BY <2>1, <2>2, <2>6, <3>2 DEF FlowInv, Return
  <2> QED
    BY <1>15, <2>3, <2>4, <2>5, <2>6
<1> QED
  BY <1>3, <1>4, <1>5, <1>6, <1>7, <1>8, <1>9, <1>10, <1>11, <1>12, <1>13, <1>14, <1>15
     DEF Next, JobStep, CallerStep

LEMMA FlowInit == Init => FlowInv
<1> SUFFICES ASSUME Init, NEW p \in Paths
             PROVE  Untouched(path[p]) /\ path[p].gen = "init"
  BY DEF FlowInv, PathFlow, QuietFlow, Init, Untouched
<1>1. /\ path[p].queue = EmptyQueue /\ \A s \in Slots : path[p].job[s] = Free
      /\ path[p].gen = "init" /\ path[p].running /\ path[p].results = 0
      /\ path[p].deferred = "pending"
  BY DEF Init
<1> QED
  BY <1>1 DEF Untouched, Waiting, Busy, FreeSlots, EmptyQueue, Free

LEMMA FlowInvariant == Spec => [](TypeOK /\ FlowInv)
  BY TypeInit, TypeStep, FlowInit, FlowStep, PTL DEF Spec

\* A generator that waits for its promise is always woken, for any number of
\* paths, workers and events (query-path.ts:216-251).
THEOREM WakeUpsAreNotLost == Spec => []NoLostWakeUp
<1>1. FlowInv => NoLostWakeUp
  BY DEF FlowInv, PathFlow, NoLostWakeUp
<1> QED
  BY <1>1, FlowInvariant, PTL

\* A run that returns without having been aborted has asked every peer it queued
\* and handed over every event (manager.ts:168-174, query-path.ts:225-264).
THEOREM ReturnMeansExhausted == Spec => []ReturnsOnlyWhenExhausted
<1>1. TypeOK /\ FlowInv => ReturnsOnlyWhenExhausted
  <2> SUFFICES ASSUME TypeOK, FlowInv, caller = "returned", ~aborted, NEW p \in Paths
               PROVE  Busy(path[p]) = {} /\ Waiting(path[p]) = {} /\ path[p].results = 0
    BY DEF ReturnsOnlyWhenExhausted
  <2>1. path[p].gen = "done" /\ PathFlow(path[p]) /\ QuietFlow(path[p])
    BY DEF FlowInv
  <2>2. Busy(path[p]) = {} /\ path[p].results = 0
    BY <2>1 DEF PathFlow, QuietFlow
  <2> QED
    BY <2>1, <2>2, AlphaPositive DEF PathFlow
<1> QED
  BY <1>1, FlowInvariant, PTL

\* Peers that fail, time out or never answer cannot make a run throw
\* (query-path.ts:165-175).
THEOREM ErrorsNeedAnAbort == Spec => []ThrowsOnlyIfAborted
<1>1. FlowInv => ThrowsOnlyIfAborted
  BY DEF FlowInv, ThrowsOnlyIfAborted
<1> QED
  BY <1>1, FlowInvariant, PTL
-----------------------------------------------------------------------------
(* What is named gets asked, and nobody is asked too often.                *)

\* The job still has to look at a peer that its responder named and that is
\* nearer than the responder.
Pursues(j, q) ==
  j.at = "hash" /\ q \in {j.cand} \cup j.rest /\ Dist[q] < Dist[j.peer]

\* The slots that may still call queryPeer for a peer without looking at the
\* seen peers again: those that hash it, and those of a path that starts at it.
Claims(q) ==
  {k \in Paths \X Slots :
     \/ path[k[1]].gen = "init" /\ start[k[1]] = q
     \/ path[k[1]].job[k[2]].at = "hash" /\ path[k[1]].job[k[2]].cand = q}

SeenIsVisited == \A q \in Peers : q \in seen <=> visits[q] > 0

NamedIsPursued ==
  \A q \in named \ {Self} :
    q \in seen \/ \E p \in Paths, s \in Slots : Pursues(path[p].job[s], q)

VisitsAreClaimed ==
  \A q \in Peers : visits[q] + Cardinality(Claims(q)) <= Cardinality(Paths \X Slots)

\* No job hashes ourselves, and we are only seen if a path starts at us.
SelfIsSpared ==
  /\ Self \in seen => \E p \in Paths : start[p] = Self
  /\ \A p \in Paths, s \in Slots :
       path[p].job[s].at = "hash" => path[p].job[s].cand # Self

ReachInv == SeenIsVisited /\ NamedIsPursued /\ VisitsAreClaimed /\ SelfIsSpared

\* The two agree on whether they hash, and on what.
SameHash(j, k) ==
  /\ j.at = "hash" <=> k.at = "hash"
  /\ j.at = "hash" => k.peer = j.peer /\ k.cand = j.cand /\ k.rest = j.rest

\* A path that neither starts nor hashes anything else than before.
NothingNew(r, n) ==
  /\ n.gen = "init" => r.gen = "init"
  /\ \A t \in Slots : SameHash(r.job[t], n.job[t])

LEMMA SlotsAreFinite ==
  /\ IsFiniteSet(Paths \X Slots)
  /\ \A K \in SUBSET (Paths \X Slots) : IsFiniteSet(K) /\ Cardinality(K) \in Nat
<1>1. IsFiniteSet(Slots)
  BY BoundsAssumption, FS_Interval
<1>2. IsFiniteSet(Paths \X Slots)
  BY <1>1, PathsAssumption, FS_Product
<1> QED
  BY <1>2, FS_Subset, FS_CardinalityType

\* A visit is paid for with a claim; the first one may make any claims on other
\* slots, the later ones make none.
LEMMA ClaimsPay ==
  ASSUME NEW A \in SUBSET (Paths \X Slots), NEW B \in SUBSET (Paths \X Slots),
         NEW v \in Nat, NEW w \in Nat,
         v + Cardinality(A) <= Cardinality(Paths \X Slots),
         \/ w = 0
         \/ w = v /\ B \subseteq A
         \/ w = v + 1 /\ \E k \in A : k \notin B /\ (v = 0 \/ B \subseteq A)
  PROVE  w + Cardinality(B) <= Cardinality(Paths \X Slots)
<1> DEFINE All == Paths \X Slots
<1>1. /\ IsFiniteSet(All) /\ Cardinality(All) \in Nat
      /\ IsFiniteSet(A) /\ Cardinality(A) \in Nat
      /\ IsFiniteSet(B) /\ Cardinality(B) \in Nat
  BY SlotsAreFinite
<1>2. CASE w = 0
  <2>1. Cardinality(B) <= Cardinality(All)
    BY <1>1, FS_Subset
  <2> QED
    BY <1>1, <1>2, <2>1
<1>3. CASE w = v /\ B \subseteq A
  <2>1. Cardinality(B) <= Cardinality(A)
    BY <1>1, <1>3, FS_Subset
  <2> QED
    BY <1>1, <1>3, <2>1
<1>4. ASSUME w = v + 1, NEW k \in A, k \notin B, v = 0 \/ B \subseteq A
      PROVE  w + Cardinality(B) <= Cardinality(All)
  <2>1. CASE v = 0
    <3>1. Cardinality(All \ {k}) = Cardinality(All) - 1 /\ IsFiniteSet(All \ {k})
      BY <1>1, FS_RemoveElement
    <3>2. B \in SUBSET (All \ {k})
      BY <1>4
    <3>3. Cardinality(B) <= Cardinality(All \ {k})
      BY <3>1, <3>2, FS_Subset
    <3> QED
      BY <1>1, <1>4, <2>1, <3>1, <3>3
  <2>2. CASE B \subseteq A
    <3>1. Cardinality(A \ {k}) = Cardinality(A) - 1 /\ IsFiniteSet(A \ {k})
      BY <1>1, <1>4, FS_RemoveElement
    <3>2. B \in SUBSET (A \ {k})
      BY <1>4, <2>2
    <3>3. Cardinality(B) <= Cardinality(A \ {k})
      BY <3>1, <3>2, FS_Subset
    <3> QED
      BY <1>1, <1>4, <3>1, <3>3
  <2> QED
    BY <1>4, <2>1, <2>2
<1> QED
  BY <1>2, <1>3, <1>4

-----------------------------------------------------------------------------
(* What the operators on a path do to its hashes.                          *)

LEMMA HashAdd ==
  ASSUME NEW r \in PathState, NEW q \in Peers
  PROVE  NothingNew(r, Add(r, q)) /\ Add(r, q).gen = r.gen
<1>1. CASE Add(r, q) = [r EXCEPT !.queue[q] = @ + 1]
  BY <1>1 DEF NothingNew, SameHash, PathState
<1>2. ASSUME NEW t \in FreeSlots(r), Add(r, q) = [r EXCEPT !.job[t] = Asking(q)]
      PROVE  NothingNew(r, Add(r, q)) /\ Add(r, q).gen = r.gen
  <2>1. /\ Add(r, q).job[t] = Asking(q) /\ Add(r, q).gen = r.gen
        /\ \A s \in Slots \ {t} : Add(r, q).job[s] = r.job[s]
    BY <1>2 DEF PathState, FreeSlots
  <2>2. r.job[t].at = "free" /\ Asking(q).at = "ask"
    BY DEF FreeSlots, Asking
  <2> QED
    BY <2>1, <2>2 DEF NothingNew, SameHash
<1> QED
  BY <1>1, <1>2, AddCases

LEMMA HashJobDone ==
  ASSUME NEW r \in PathState, NEW s \in Slots, r.job[s].at = "ask",
         NEW n \in JobDone(r, s)
  PROVE  NothingNew(r, n)
<1>1. PICK m \in StartNext(r, s) :
        n = [m EXCEPT !.deferred = Resolve(@), !.running = @ /\ Busy(m) # {}]
  BY DEF JobDone
<1>2. m \in PathState
  BY StartNextType
<1>3. n.job = m.job /\ n.gen = m.gen
  BY <1>1, <1>2 DEF PathState
<1>4. /\ m.job[s].at # "hash" /\ m.gen = r.gen
      /\ \A t \in Slots \ {s} : m.job[t] = r.job[t]
  <2>1. CASE m = [r EXCEPT !.job[s] = Free]
    BY <2>1 DEF PathState, Free
  <2>2. ASSUME NEW q \in Waiting(r),
               m = [r EXCEPT !.job[s] = Asking(q), !.queue[q] = @ - 1]
        PROVE  /\ m.job[s].at # "hash" /\ m.gen = r.gen
               /\ \A t \in Slots \ {s} : m.job[t] = r.job[t]
    BY <2>2 DEF PathState, Asking
  <2> QED
    BY <2>1, <2>2 DEF StartNext, Nearest
<1> QED
  BY <1>3, <1>4 DEF NothingNew, SameHash

LEMMA HashListeners ==
  ASSUME NEW r \in PathState
  PROVE  /\ NothingNew(r, Completed(r))
         /\ NothingNew(r, Failed(r))
         /\ NothingNew(r, OnAbort(r))
         /\ NothingNew(r, OnCleanUp(r))
         /\ NothingNew(r, Drain(r))
<1>1. \A n : n.job = r.job => \A t \in Slots : SameHash(r.job[t], n.job[t])
  BY DEF SameHash
<1>2. Completed(r).gen = r.gen /\ Cleanup(r).gen = r.gen
  BY DEF Completed, Cleanup, PathState
<1>3. \A d : [Cleanup(r) EXCEPT !.deferred = d].gen = Cleanup(r).gen
  <2>1. Cleanup(r) \in PathState
    BY ListenerTypes
  <2> QED
    BY <2>1 DEF PathState
<1>4. Failed(r).gen = r.gen /\ OnAbort(r).gen = r.gen /\ OnCleanUp(r).gen = r.gen
  BY <1>2, <1>3 DEF Failed, OnAbort, OnCleanUp
<1>5. Drain(r).gen # "init"
  BY DEF Drain, PathState
<1> QED
  BY <1>1, <1>2, <1>4, <1>5, ListenersAndJobs DEF NothingNew

\* The job that goes on with a list takes up its fresh peers, all of them, and
\* no other job changes what it hashes.
TakesUp(r, n, s, list, set) ==
  /\ n.gen = r.gen
  /\ \A t \in Slots \ {s} : SameHash(r.job[t], n.job[t])
  /\ \/ n.job[s].at = "ask" /\ Fresh(list, set) = {}
     \/ /\ n.job[s].at = "hash" /\ n.job[s].peer = r.job[s].peer
        /\ {n.job[s].cand} \cup n.job[s].rest = Fresh(list, set)

LEMMA HashGoOn ==
  ASSUME NEW r \in PathState, NEW s \in Slots, NEW list \in SUBSET Peers, NEW set,
         r.job[s].at # "free", NEW n \in GoOn(r, s, list, set)
  PROVE  TakesUp(r, n, s, list, set)
<1> DEFINE fresh == Fresh(list, set)
<1>1. r.job[s] \in Job
  BY DEF PathState
<1>2. CASE fresh = {} /\ n = Completed([r EXCEPT !.job[s] = PassedOn(@)])
  <2> DEFINE m == [r EXCEPT !.job[s] = PassedOn(@)]
  <2>1. m \in PathState
    BY <1>1, PassedOnType DEF PathState
  <2>2. m.gen = r.gen /\ m.job = [r.job EXCEPT ![s] = PassedOn(@)]
    BY DEF PathState
  <2> HIDE DEF m
  <2>3. n.gen = m.gen /\ n.job = m.job
    BY <1>2, <2>1 DEF Completed, PathState, m
  <2>4. PassedOn(r.job[s]).at = "ask"
    BY <1>1 DEF PassedOn, Job
  <2>5. n.job[s].at = "ask" /\ \A t \in Slots \ {s} : n.job[t] = r.job[t]
    BY <2>2, <2>3, <2>4 DEF PathState
  <2> QED
    BY <1>2, <2>2, <2>3, <2>5 DEF SameHash, TakesUp
<1>3. ASSUME NEW c \in fresh, n = [r EXCEPT !.job[s] = Hashing(@, c, fresh \ {c})]
      PROVE  TakesUp(r, n, s, list, set)
  <2>1. /\ n.gen = r.gen /\ n.job[s] = Hashing(r.job[s], c, fresh \ {c})
        /\ \A t \in Slots \ {s} : n.job[t] = r.job[t]
    BY <1>3 DEF PathState
  <2>2. /\ n.job[s].at = "hash" /\ n.job[s].peer = r.job[s].peer
        /\ n.job[s].cand = c /\ n.job[s].rest = fresh \ {c}
    BY <1>1, <2>1 DEF Hashing, Job
  <2>3. {c} \cup (fresh \ {c}) = fresh
    OBVIOUS
  <2> QED
    BY <2>1, <2>2, <2>3 DEF SameHash, TakesUp
<1> QED
  BY <1>2, <1>3 DEF GoOn

-----------------------------------------------------------------------------
(* Each step keeps ReachInv.                                               *)

LEMMA ReachTypes ==
  ASSUME TypeOK
  PROVE  visits \in [Peers -> Nat] /\ named \subseteq Peers /\ seen \subseteq Peers
  BY DEF TypeOK

\* No claim comes up where no path starts and no hash does.
LEMMA ClaimsKept ==
  ASSUME NEW q, start' = start, \A p \in Paths : NothingNew(path[p], path'[p])
  PROVE  Claims(q)' \subseteq Claims(q)
<1> SUFFICES ASSUME NEW p \in Paths, NEW s \in Slots, <<p, s>> \in Claims(q)'
             PROVE  <<p, s>> \in Claims(q)
  BY DEF Claims
<1>1. NothingNew(path[p], path'[p])
  OBVIOUS
<1> QED
  BY <1>1 DEF Claims, NothingNew, SameHash

LEMMA PursuedKept ==
  ASSUME NEW q \in Peers, NEW p \in Paths, NEW s \in Slots, Pursues(path[p].job[s], q),
         SameHash(path[p].job[s], path'[p].job[s])
  PROVE  Pursues(path'[p].job[s], q)
  BY DEF Pursues, SameHash

LEMMA QuietReach ==
  ASSUME TypeOK, TypeOK', ReachInv, start' = start, seen' = seen, visits' = visits,
         named' = named, \A p \in Paths : NothingNew(path[p], path'[p])
  PROVE  ReachInv'
<1>1. SeenIsVisited'
  BY DEF ReachInv, SeenIsVisited
<1>2. NamedIsPursued'
  <2> SUFFICES ASSUME NEW q \in named \ {Self}, q \notin seen
               PROVE  \E p \in Paths, s \in Slots : Pursues(path'[p].job[s], q)
    BY DEF NamedIsPursued
  <2>1. PICK p \in Paths, s \in Slots : Pursues(path[p].job[s], q)
    BY DEF ReachInv, NamedIsPursued
  <2>2. q \in Peers /\ SameHash(path[p].job[s], path'[p].job[s])
    BY ReachTypes DEF NothingNew
  <2> QED
    BY <2>1, <2>2, PursuedKept
<1>3. VisitsAreClaimed'
  <2> SUFFICES ASSUME NEW q \in Peers
               PROVE  visits[q] + Cardinality(Claims(q)') <= Cardinality(Paths \X Slots)
    BY DEF VisitsAreClaimed
  <2>1. /\ Claims(q) \in SUBSET (Paths \X Slots)
        /\ Claims(q)' \in SUBSET (Paths \X Slots)
    BY DEF Claims
  <2>2. Claims(q)' \subseteq Claims(q)
    BY ClaimsKept
  <2>3. visits[q] \in Nat /\ visits[q] + Cardinality(Claims(q)) <= Cardinality(Paths \X Slots)
    BY ReachTypes DEF ReachInv, VisitsAreClaimed
  <2> QED
    BY <2>1, <2>2, <2>3, ClaimsPay
<1>4. SelfIsSpared'
  BY DEF ReachInv, SelfIsSpared, NothingNew, SameHash
<1> QED
  BY <1>1, <1>2, <1>3, <1>4 DEF ReachInv

\* The steps that change one path quietly.
LEMMA QuietPath ==
  ASSUME TypeOK, NEW p \in Paths, NEW n, path' = [path EXCEPT ![p] = n],
         NothingNew(path[p], n)
  PROVE  \A o \in Paths : NothingNew(path[o], path'[o])
<1>1. \A o \in Paths \ {p} : path'[o] = path[o]
  BY DEF TypeOK
<1>2. path'[p] = n
  BY DEF TypeOK
<1>3. \A r : NothingNew(r, r)
  BY DEF NothingNew, SameHash
<1> QED
  BY <1>1, <1>2, <1>3

LEMMA BeginReaches ==
  ASSUME TypeOK, TypeOK', FlowInv, ReachInv, NEW p \in Paths, Begin(p)
  PROVE  ReachInv'
<1> DEFINE a == Add(path[p], start[p])
           n == [a EXCEPT !.gen = "await"]
<1>1. start[p] \in Peers /\ path[p] \in PathState /\ path \in [Paths -> PathState]
  BY TypePaths DEF TypeOK
<1>2. a \in PathState /\ NothingNew(path[p], a)
  BY <1>1, AddType, HashAdd
<1>3. n.gen = "await" /\ n.job = a.job
  BY <1>2 DEF PathState
<1> HIDE DEF a, n
<1>4. path' = [path EXCEPT ![p] = n]
  BY DEF Begin, a, n
<1>5. /\ path[p].gen = "init" /\ start' = start /\ named' = named
      /\ seen' = seen \cup {start[p]}
      /\ visits' = [visits EXCEPT ![start[p]] = @ + 1]
  BY DEF Begin, MarkSeen
<1>6. NothingNew(path[p], n)
  BY <1>2, <1>3 DEF NothingNew
<1>7. \A o \in Paths : NothingNew(path[o], path'[o])
  BY <1>4, <1>6, QuietPath
<1>8. SeenIsVisited'
  <2> SUFFICES ASSUME NEW q \in Peers PROVE q \in seen' <=> visits'[q] > 0
    BY DEF SeenIsVisited
  <2>1. visits[q] \in Nat /\ (q \in seen <=> visits[q] > 0)
    BY ReachTypes DEF ReachInv, SeenIsVisited
  <2>2. visits'[q] = IF q = start[p] THEN visits[q] + 1 ELSE visits[q]
    BY <1>5, ReachTypes
  <2> QED
    BY <1>5, <2>1, <2>2
<1>9. NamedIsPursued'
  <2> SUFFICES ASSUME NEW q \in named \ {Self}, q \notin seen
               PROVE  \E o \in Paths, s \in Slots : Pursues(path'[o].job[s], q)
    BY <1>5 DEF NamedIsPursued
  <2>1. PICK o \in Paths, s \in Slots : Pursues(path[o].job[s], q)
    BY DEF ReachInv, NamedIsPursued
  <2>2. q \in Peers /\ SameHash(path[o].job[s], path'[o].job[s])
    BY <1>7, ReachTypes DEF NothingNew
  <2> QED
    BY <2>1, <2>2, PursuedKept
<1>10. VisitsAreClaimed'
  <2> SUFFICES ASSUME NEW q \in Peers
               PROVE  visits'[q] + Cardinality(Claims(q)') <= Cardinality(Paths \X Slots)
    BY DEF VisitsAreClaimed
  <2>1. /\ Claims(q) \in SUBSET (Paths \X Slots)
        /\ Claims(q)' \in SUBSET (Paths \X Slots)
    BY DEF Claims
  <2>2. Claims(q)' \subseteq Claims(q)
    BY <1>5, <1>7, ClaimsKept
  <2>3. visits[q] \in Nat /\ visits[q] + Cardinality(Claims(q)) <= Cardinality(Paths \X Slots)
    BY ReachTypes DEF ReachInv, VisitsAreClaimed
  <2>4. visits'[q] = IF q = start[p] THEN visits[q] + 1 ELSE visits[q]
    BY <1>5, ReachTypes
  <2>5. CASE q # start[p]
    BY <2>1, <2>2, <2>3, <2>4, <2>5, ClaimsPay
  <2>6. CASE q = start[p]
    <3>1. <<p, 1>> \in Claims(q)
      BY <1>5, <2>6, AlphaPositive DEF Claims
    <3>2. path[p].job[1].at = "free"
      <4>1. PathFlow(path[p])
        BY DEF FlowInv
      <4>2. Untouched(path[p])
        BY <1>5, <4>1 DEF PathFlow
      <4> QED
        BY <4>2, AlphaPositive DEF Untouched, Busy, FreeSlots
    <3>3. path'[p] = n
      BY <1>1, <1>4
    <3>4. <<p, 1>> \notin Claims(q)'
      BY <1>3, <1>6, <3>2, <3>3, AlphaPositive DEF Claims, NothingNew, SameHash
    <3>5. visits'[q] \in Nat
      BY <2>3, <2>4
    <3> QED
      BY <2>1, <2>2, <2>3, <2>4, <2>6, <3>1, <3>4, <3>5, ClaimsPay
  <2> QED
    BY <2>5, <2>6
<1>11. SelfIsSpared'
  BY <1>5, <1>7 DEF ReachInv, SelfIsSpared, NothingNew, SameHash
<1> QED
  BY <1>8, <1>9, <1>10, <1>11 DEF ReachInv

\* One job goes on with a list, and skips the peers of a set.
GoesOn(p, s, set) ==
  /\ start' = start
  /\ path[p].gen # "init"
  /\ \A o \in Paths : path'[o].gen = "init" => path[o].gen = "init"
  /\ \A o \in Paths, t \in Slots :
       o # p \/ t # s => SameHash(path[o].job[t], path'[o].job[t])
  /\ path'[p].job[s].at = "hash" => path'[p].job[s].cand \notin set \cup {Self}

LEMMA GoingOnClaims ==
  ASSUME NEW p \in Paths, NEW s \in Slots, NEW set, NEW q \in set, GoesOn(p, s, set)
  PROVE  Claims(q)' \subseteq Claims(q) /\ <<p, s>> \notin Claims(q)'
<1>1. <<p, s>> \notin Claims(q)'
  BY DEF Claims, GoesOn
<1>2. ASSUME NEW o \in Paths, NEW t \in Slots, <<o, t>> \in Claims(q)'
      PROVE  <<o, t>> \in Claims(q)
  <2>1. o # p \/ t # s
    BY <1>1, <1>2
  <2>2. SameHash(path[o].job[t], path'[o].job[t])
    BY <2>1 DEF GoesOn
  <2> QED
    BY <1>2, <2>2 DEF Claims, GoesOn, SameHash
<1>3. Claims(q)' \subseteq Claims(q)
  BY <1>2 DEF Claims
<1> QED
  BY <1>1, <1>3

\* A job of a path goes on after the path's queue may have grown.
LEMMA GoOnGoesOn ==
  ASSUME NEW p \in Paths, NEW s \in Slots, path[p].gen # "init",
         NEW r \in PathState, NothingNew(path[p], r), r.gen = path[p].gen,
         r.job[s].at # "free", NEW list \in SUBSET Peers, NEW set,
         NEW n \in GoOn(r, s, list, set), path'[p] = n,
         \A o \in Paths \ {p} : path'[o] = path[o], start' = start
  PROVE  GoesOn(p, s, set) /\ TakesUp(r, n, s, list, set)
<1>1. TakesUp(r, n, s, list, set)
  BY HashGoOn
<1>2. \A t \in Slots \ {s} : SameHash(path[p].job[t], n.job[t])
  BY <1>1 DEF TakesUp, NothingNew, SameHash
<1>3. \A o \in Paths \ {p} : \A t \in Slots : SameHash(path[o].job[t], path'[o].job[t])
  BY DEF SameHash
<1>4. path'[p].job[s].at = "hash" => path'[p].job[s].cand \notin set \cup {Self}
  BY <1>1 DEF TakesUp, Fresh
<1>5. \A o \in Paths : path'[o].gen = "init" => path[o].gen = "init"
  BY <1>1 DEF TakesUp
<1>6. \A o \in Paths, t \in Slots :
        o # p \/ t # s => SameHash(path[o].job[t], path'[o].job[t])
  BY <1>2, <1>3
<1> QED
  BY <1>1, <1>4, <1>5, <1>6 DEF GoesOn

LEMMA GoingOnSparesSelf ==
  ASSUME SelfIsSpared, NEW p \in Paths, NEW s \in Slots, NEW set, GoesOn(p, s, set)
  PROVE  \A o \in Paths, t \in Slots :
           path'[o].job[t].at = "hash" => path'[o].job[t].cand # Self
<1> SUFFICES ASSUME NEW o \in Paths, NEW t \in Slots, path'[o].job[t].at = "hash"
             PROVE  path'[o].job[t].cand # Self
  OBVIOUS
<1>1. CASE o = p /\ t = s
  BY <1>1 DEF GoesOn
<1>2. CASE o # p \/ t # s
  <2>1. SameHash(path[o].job[t], path'[o].job[t])
    BY <1>2 DEF GoesOn
  <2> QED
    BY <2>1 DEF SelfIsSpared, SameHash
<1> QED
  BY <1>1, <1>2

LEMMA ResponseReaches ==
  ASSUME TypeOK, TypeOK', FlowInv, ReachInv, NEW p \in Paths, NEW s \in Slots,
         PeerResponse(p, s)
  PROVE  ReachInv'
<1> DEFINE j == path[p].job[s]
<1>1. path[p] \in PathState
  BY TypePaths
<1>2. j.at = "ask" /\ j.peer \in Peers
  BY <1>1 DEF PeerResponse, PathState, Job
<1>3. PICK closer \in Answers[j.peer] :
        /\ \E n \in GoOn(path[p], s, closer, seen) : path' = [path EXCEPT ![p] = n]
        /\ named' = named \cup {c \in closer : Dist[c] < Dist[j.peer]}
  BY DEF PeerResponse
<1>4. closer \in SUBSET Peers
  BY <1>2, AnswersAssumption
<1>5. PICK n \in GoOn(path[p], s, closer, seen) : path' = [path EXCEPT ![p] = n]
  BY <1>3
<1>6. start' = start /\ seen' = seen /\ visits' = visits
  BY DEF PeerResponse
<1>7. path[p].gen # "init"
  BY <1>2, BusyStarted DEF FlowInv
<1>8. NothingNew(path[p], path[p])
  BY DEF NothingNew, SameHash
<1>9. /\ path[p].job[s].at # "free" /\ path[p].job[s].peer = j.peer
      /\ path'[p] = n /\ \A o \in Paths \ {p} : path'[o] = path[o]
  BY <1>2, <1>5 DEF TypeOK
<1>10. GoesOn(p, s, seen) /\ TakesUp(path[p], n, s, closer, seen)
  BY <1>1, <1>4, <1>6, <1>7, <1>8, <1>9, GoOnGoesOn
<1>11. SeenIsVisited'
  BY <1>6 DEF ReachInv, SeenIsVisited
<1>12. NamedIsPursued'
  <2> SUFFICES ASSUME NEW q \in named', q # Self, q \notin seen
               PROVE  \E o \in Paths, t \in Slots : Pursues(path'[o].job[t], q)
    BY <1>6 DEF NamedIsPursued
  <2>1. CASE q \in named
    <3>1. PICK o \in Paths, t \in Slots : Pursues(path[o].job[t], q)
      BY <2>1 DEF ReachInv, NamedIsPursued
    <3>2. o # p \/ t # s
      BY <1>2, <3>1 DEF Pursues
    <3>3. SameHash(path[o].job[t], path'[o].job[t])
      BY <1>10, <3>2 DEF GoesOn
    <3> QED
      BY <2>1, <3>1, <3>3, PursuedKept, ReachTypes
  <2>2. CASE q \notin named
    <3>1. q \in closer /\ Dist[q] < Dist[j.peer]
      BY <1>3, <2>2
    <3>2. q \in Fresh(closer, seen)
      BY <3>1 DEF Fresh
    <3>3. Pursues(path'[p].job[s], q)
      BY <1>9, <1>10, <3>1, <3>2 DEF Pursues, TakesUp
    <3> QED
      BY <3>3
  <2> QED
    BY <2>1, <2>2
<1>13. VisitsAreClaimed'
  <2> SUFFICES ASSUME NEW q \in Peers
               PROVE  visits[q] + Cardinality(Claims(q)') <= Cardinality(Paths \X Slots)
    BY <1>6 DEF VisitsAreClaimed
  <2>1. /\ Claims(q) \in SUBSET (Paths \X Slots)
        /\ Claims(q)' \in SUBSET (Paths \X Slots)
    BY DEF Claims
  <2>2. visits[q] \in Nat /\ visits[q] + Cardinality(Claims(q)) <= Cardinality(Paths \X Slots)
    BY ReachTypes DEF ReachInv, VisitsAreClaimed
  <2>3. CASE q \in seen
    BY <1>10, <2>1, <2>2, <2>3, GoingOnClaims, ClaimsPay
  <2>4. CASE q \notin seen
    <3>1. visits[q] = 0
      BY <2>2, <2>4 DEF ReachInv, SeenIsVisited
    <3> QED
      BY <2>1, <2>2, <3>1, ClaimsPay
  <2> QED
    BY <2>3, <2>4
<1>14. SelfIsSpared'
  BY <1>6, <1>10, GoingOnSparesSelf DEF ReachInv, SelfIsSpared
<1> QED
  BY <1>11, <1>12, <1>13, <1>14 DEF ReachInv

LEMMA HashedReaches ==
  ASSUME TypeOK, TypeOK', FlowInv, ReachInv, NEW p \in Paths, NEW s \in Slots,
         Hashed(p, s)
  PROVE  ReachInv'
<1> DEFINE j == path[p].job[s]
           follow == IsCloser(j.cand, j.peer)
           r == IF follow THEN Add(path[p], j.cand) ELSE path[p]
<1>1. path[p] \in PathState
  BY TypePaths
<1>2. /\ j.at = "hash" /\ j.peer \in Peers /\ j.cand \in Peers
      /\ j.rest \in SUBSET Peers
  BY <1>1 DEF Hashed, PathState, Job
<1>3. /\ start' = start /\ named' = named
      /\ seen' = IF follow THEN seen \cup {j.cand} ELSE seen
      /\ visits' = IF follow THEN [visits EXCEPT ![j.cand] = @ + 1] ELSE visits
  BY DEF Hashed, MarkSeen
<1>4. path[p].gen # "init"
  BY <1>2, BusyStarted DEF FlowInv
<1>5. r \in PathState /\ r.job[s].at # "free" /\ r.gen = path[p].gen
      /\ NothingNew(path[p], r)
  <2>1. NothingNew(path[p], path[p])
    BY DEF NothingNew, SameHash
  <2> QED
    BY <1>1, <1>2, <2>1, AddType, AddKeepsJobs, HashAdd
<1>6. r.job[s].peer = j.peer
  BY <1>2, <1>5 DEF NothingNew, SameHash
<1>7. PICK n \in GoOn(r, s, j.rest, seen') : path' = [path EXCEPT ![p] = n]
  BY DEF Hashed
<1> HIDE DEF r
<1>8. path'[p] = n /\ \A o \in Paths \ {p} : path'[o] = path[o]
  BY <1>7 DEF TypeOK
<1>9. GoesOn(p, s, seen') /\ TakesUp(r, n, s, j.rest, seen')
  BY <1>2, <1>3, <1>4, <1>5, <1>7, <1>8, GoOnGoesOn
<1>10. \A q \in Peers :
        /\ visits[q] \in Nat /\ (q \in seen <=> visits[q] > 0)
        /\ visits'[q] = IF follow /\ q = j.cand THEN visits[q] + 1 ELSE visits[q]
  BY <1>2, <1>3, ReachTypes DEF ReachInv, SeenIsVisited
<1>11. SeenIsVisited'
  <2> SUFFICES ASSUME NEW q \in Peers PROVE q \in seen' <=> visits'[q] > 0
    BY DEF SeenIsVisited
  <2> QED
    BY <1>3, <1>10
<1>12. NamedIsPursued'
  <2> SUFFICES ASSUME NEW q \in named, q # Self, q \notin seen'
               PROVE  \E o \in Paths, t \in Slots : Pursues(path'[o].job[t], q)
    BY <1>3 DEF NamedIsPursued
  <2>1. PICK o \in Paths, t \in Slots : Pursues(path[o].job[t], q)
    BY <1>3 DEF ReachInv, NamedIsPursued
  <2>2. CASE o # p \/ t # s
    <3>1. SameHash(path[o].job[t], path'[o].job[t])
      BY <1>9, <2>2 DEF GoesOn
    <3> QED
      BY <2>1, <3>1, PursuedKept, ReachTypes
  <2>3. CASE o = p /\ t = s
    <3>1. q \in {j.cand} \cup j.rest /\ Dist[q] < Dist[j.peer]
      BY <2>1, <2>3 DEF Pursues
    <3>2. q # j.cand
      <4>1. Dist[q] \in Nat /\ Dist[j.peer] \in Nat
        BY <1>2, ReachTypes, DistAssumption
      <4> QED
        BY <1>3, <3>1, <4>1 DEF IsCloser
    <3>3. q \in Fresh(j.rest, seen')
      BY <3>1, <3>2 DEF Fresh
    <3>4. Pursues(path'[p].job[s], q)
      BY <1>6, <1>8, <1>9, <3>1, <3>3 DEF Pursues, TakesUp
    <3> QED
      BY <3>4
  <2> QED
    BY <2>2, <2>3
<1>13. VisitsAreClaimed'
  <2> SUFFICES ASSUME NEW q \in Peers
               PROVE  visits'[q] + Cardinality(Claims(q)') <= Cardinality(Paths \X Slots)
    BY DEF VisitsAreClaimed
  <2>1. /\ Claims(q) \in SUBSET (Paths \X Slots)
        /\ Claims(q)' \in SUBSET (Paths \X Slots)
    BY DEF Claims
  <2>2. visits[q] \in Nat /\ visits[q] + Cardinality(Claims(q)) <= Cardinality(Paths \X Slots)
    BY ReachTypes DEF ReachInv, VisitsAreClaimed
  <2>3. visits'[q] \in Nat
    BY <1>10
  <2>4. CASE q \notin seen'
    <3>1. visits'[q] = 0
      BY <1>11, <2>3, <2>4 DEF SeenIsVisited
    <3> QED
      BY <2>1, <2>2, <2>3, <3>1, ClaimsPay
  <2>5. CASE q \in seen'
    <3>1. Claims(q)' \subseteq Claims(q) /\ <<p, s>> \notin Claims(q)'
      BY <1>9, <2>5, GoingOnClaims
    <3>2. CASE follow /\ q = j.cand
      <4>1. <<p, s>> \in Claims(q)
        BY <1>2, <3>2 DEF Claims
      <4>2. visits'[q] = visits[q] + 1
        BY <1>10, <3>2
      <4> QED
        BY <2>1, <2>2, <2>3, <3>1, <4>1, <4>2, ClaimsPay
    <3>3. CASE ~(follow /\ q = j.cand)
      <4>1. visits'[q] = visits[q]
        BY <1>10, <3>3
      <4> QED
        BY <2>1, <2>2, <2>3, <3>1, <4>1, ClaimsPay
    <3> QED
      BY <3>2, <3>3
  <2> QED
    BY <2>4, <2>5
<1>14. SelfIsSpared'
  <2>1. j.cand # Self
    BY <1>2 DEF ReachInv, SelfIsSpared
  <2> QED
    BY <1>3, <1>9, <2>1, GoingOnSparesSelf DEF ReachInv, SelfIsSpared
<1> QED
  BY <1>11, <1>12, <1>13, <1>14 DEF ReachInv

LEMMA ReachStep == TypeOK /\ FlowInv /\ ReachInv /\ [Next]_vars => ReachInv'
<1> SUFFICES ASSUME TypeOK, FlowInv, ReachInv, [Next]_vars
             PROVE  ReachInv'
  OBVIOUS
<1>1. TypeOK'
  BY TypeStep
<1>2. \A p \in Paths : path[p] \in PathState
  BY TypePaths
<1>3. \A r, m, n : NothingNew(r, m) /\ NothingNew(m, n) => NothingNew(r, n)
  BY DEF NothingNew, SameHash
<1> DEFINE Quiet == /\ start' = start /\ seen' = seen
                    /\ visits' = visits /\ named' = named
<1>4. ASSUME NEW p \in Paths, Begin(p) PROVE ReachInv'
  BY <1>1, <1>4, BeginReaches
<1>5. ASSUME NEW p \in Paths, NEW s \in Slots, OtherEvent(p, s) PROVE ReachInv'
  <2> DEFINE j == path[p].job[s]
             m == [path[p] EXCEPT !.job[s] = Counted(j)]
  <2>1. path' = [path EXCEPT ![p] = Completed(m)] /\ Quiet
    BY <1>5 DEF OtherEvent
  <2>2. j \in Job
    BY <1>2 DEF PathState
  <2>3. m \in PathState /\ SameHash(j, Counted(j))
    <3>1. Counted(j) \in Job
      BY <2>2, JobUpdateTypes
    <3>2. m \in PathState
      BY <1>2, <3>1 DEF PathState
    <3>3. SameHash(j, Counted(j))
      BY <2>2 DEF SameHash, Counted, Job
    <3> QED
      BY <3>2, <3>3
  <2>4. m.gen = path[p].gen /\ m.job = [path[p].job EXCEPT ![s] = Counted(j)]
    BY <1>2 DEF PathState
  <2>5. NothingNew(path[p], m)
    <3>1. path[p].job \in [Slots -> Job]
      BY <1>2 DEF PathState
    <3> HIDE DEF m
    <3> QED
      BY <2>3, <2>4, <3>1 DEF NothingNew, SameHash
  <2> HIDE DEF m
  <2>6. NothingNew(path[p], Completed(m))
    BY <1>3, <2>3, <2>5, HashListeners
  <2> QED
    BY <1>1, <2>1, <2>6, QuietPath, QuietReach
<1>6. ASSUME NEW p \in Paths, NEW s \in Slots, PeerResponse(p, s) PROVE ReachInv'
  BY <1>1, <1>6, ResponseReaches
<1>7. ASSUME NEW p \in Paths, NEW s \in Slots, Hashed(p, s) PROVE ReachInv'
  BY <1>1, <1>7, HashedReaches
<1>8. ASSUME NEW p \in Paths, NEW s \in Slots, JobEnds(p, s) PROVE ReachInv'
  <2>1. PICK n \in JobDone(path[p], s) : path' = [path EXCEPT ![p] = n]
    BY <1>8 DEF JobEnds
  <2>2. Quiet /\ path[p].job[s].at = "ask"
    BY <1>8 DEF JobEnds
  <2>3. NothingNew(path[p], n)
    BY <1>2, <2>2, HashJobDone
  <2> QED
    BY <1>1, <2>1, <2>2, <2>3, QuietPath, QuietReach
<1>9. ASSUME NEW p \in Paths, NEW s \in Slots, JobThrows(p, s) PROVE ReachInv'
  <2> DEFINE m == IF aborted THEN Failed(path[p]) ELSE Completed(path[p])
  <2>1. PICK n \in JobDone(m, s) : path' = [path EXCEPT ![p] = n]
    BY <1>9 DEF JobThrows
  <2>2. Quiet /\ path[p].job[s].at = "ask"
    BY <1>9 DEF JobThrows
  <2>3. m \in PathState /\ m.job = path[p].job /\ NothingNew(path[p], m)
    BY <1>2, ListenerTypes, ListenersAndJobs, HashListeners
  <2> HIDE DEF m
  <2>4. NothingNew(m, n)
    BY <2>2, <2>3, HashJobDone
  <2>5. NothingNew(path[p], n)
    BY <1>3, <2>3, <2>4
  <2> QED
    BY <1>1, <2>1, <2>2, <2>5, QuietPath, QuietReach
<1>10. ASSUME NEW p \in Paths, NEW s \in Slots, JobTimeout(p, s) PROVE ReachInv'
  <2> DEFINE n == [path[p] EXCEPT !.job[s].expired = TRUE]
  <2>1. path' = [path EXCEPT ![p] = n] /\ Quiet
    BY <1>10 DEF JobTimeout
  <2>2. path[p].job \in [Slots -> Job] /\ path[p].job[s] \in Job
    BY <1>2 DEF PathState
  <2>3. n.gen = path[p].gen
        /\ n.job = [path[p].job EXCEPT ![s] = [@ EXCEPT !.expired = TRUE]]
    BY <1>2 DEF PathState
  <2> HIDE DEF n
  <2>4. SameHash(path[p].job[s], [path[p].job[s] EXCEPT !.expired = TRUE])
    BY <2>2 DEF SameHash, Job
  <2>5. NothingNew(path[p], n)
    BY <2>2, <2>3, <2>4 DEF NothingNew, SameHash
  <2> QED
    BY <1>1, <2>1, <2>5, QuietPath, QuietReach
<1>11. ASSUME NEW p \in Paths, Wake(p) \/ Resume(p) PROVE ReachInv'
  <2> DEFINE m == [path[p] EXCEPT !.deferred = "pending"]
             e == [path[p] EXCEPT !.gen = "threw"]
  <2>1. m \in PathState /\ NothingNew(path[p], m)
    BY <1>2 DEF PathState, NothingNew, SameHash
  <2>2. NothingNew(path[p], e)
    BY <1>2 DEF PathState, NothingNew, SameHash
  <2>3. /\ NothingNew(m, Drain(m))
        /\ NothingNew(path[p], Drain(path[p]))
    BY <1>2, <2>1, HashListeners
  <2>4. PICK n \in {e, Drain(m), Drain(path[p])} : Continue(p, n)
    BY <1>11 DEF Wake, Resume
  <2>5. NothingNew(path[p], n)
    BY <1>3, <2>1, <2>2, <2>3
  <2>6. path' = [path EXCEPT ![p] = n] /\ Quiet
    BY <2>4 DEF Continue
  <2> QED
    BY <1>1, <2>5, <2>6, QuietPath, QuietReach
<1>12. CASE Abort
  <2>1. Quiet /\ \A p \in Paths : path'[p] = OnAbort(path[p])
    BY <1>12 DEF Abort
  <2>2. \A p \in Paths : NothingNew(path[p], path'[p])
    BY <1>2, <2>1, HashListeners
  <2> QED
    BY <1>1, <2>1, <2>2, QuietReach
<1>13. CASE Break \/ Return \/ Throw
  <2>1. Quiet /\ \A p \in Paths : path'[p] = OnCleanUp(path[p])
    BY <1>13 DEF Break, Return, Throw, CleanUpPaths
  <2>2. \A p \in Paths : NothingNew(path[p], path'[p])
    BY <1>2, <2>1, HashListeners
  <2> QED
    BY <1>1, <2>1, <2>2, QuietReach
<1>14. CASE Take \/ UNCHANGED vars
  <2>1. Quiet /\ path' = path
    BY <1>14 DEF Take, vars
  <2>2. \A p \in Paths : NothingNew(path[p], path'[p])
    BY <2>1 DEF NothingNew, SameHash
  <2> QED
    BY <1>1, <2>1, <2>2, QuietReach
<1> QED
  BY <1>4, <1>5, <1>6, <1>7, <1>8, <1>9, <1>10, <1>11, <1>12, <1>13, <1>14
     DEF Next, JobStep, CallerStep

LEMMA ReachInit == Init => ReachInv
<1> SUFFICES ASSUME Init PROVE ReachInv
  OBVIOUS
<1>1. seen = {} /\ named = {} /\ visits = [q \in Peers |-> 0]
  BY DEF Init
<1>2. ASSUME NEW q \in Peers
      PROVE  visits[q] + Cardinality(Claims(q)) <= Cardinality(Paths \X Slots)
  <2>1. Claims(q) \in SUBSET (Paths \X Slots)
    BY DEF Claims
  <2>2. Cardinality(Claims(q)) <= Cardinality(Paths \X Slots)
    BY <2>1, SlotsAreFinite, FS_Subset
  <2>3. Cardinality(Claims(q)) \in Nat
    BY <2>1, SlotsAreFinite
  <2> QED
    BY <1>1, <2>2, <2>3
<1>3. SeenIsVisited /\ NamedIsPursued
  BY <1>1 DEF SeenIsVisited, NamedIsPursued
<1>4. SelfIsSpared
  BY <1>1 DEF Init, SelfIsSpared, Free
<1> QED
  BY <1>2, <1>3, <1>4 DEF ReachInv, VisitsAreClaimed

LEMMA ReachInvariant == Spec => [](TypeOK /\ FlowInv /\ ReachInv)
  BY TypeInit, TypeStep, FlowInit, FlowStep, ReachInit, ReachStep, PTL DEF Spec

\* When a run returns unaborted, every peer that some responder named, nearer to
\* the key than itself, has been asked, whichever job skipped it because another
\* had it in hand (query-path.ts:135-157).
THEOREM NearerPeersGetAsked == Spec => []NearerPeersAsked
<1>1. TypeOK /\ FlowInv /\ ReachInv => NearerPeersAsked
  <2> SUFFICES ASSUME TypeOK, FlowInv, ReachInv, caller = "returned", ~aborted,
                      NEW q \in named \ {Self}
               PROVE  visits[q] > 0
    BY DEF NearerPeersAsked
  <2>1. \A p \in Paths : path[p].gen = "done" /\ PathFlow(path[p]) /\ QuietFlow(path[p])
    BY DEF FlowInv
  <2>2. \A p \in Paths : Busy(path[p]) = {}
    BY <2>1 DEF PathFlow, QuietFlow
  <2>3. \A p \in Paths, s \in Slots : ~Pursues(path[p].job[s], q)
    BY <2>2 DEF Pursues, Busy, FreeSlots
  <2>4. q \in seen /\ q \in Peers
    BY <2>3, ReachTypes DEF ReachInv, NamedIsPursued
  <2> QED
    BY <2>4 DEF ReachInv, SeenIsVisited
<1> QED
  BY <1>1, ReachInvariant, PTL

\* However the hashes of the paths interleave with the marks in peersSeen, a peer
\* is asked at most as often as there are jobs (query-path.ts:136-156).
THEOREM PeersAreAskedBoundedly == Spec => []VisitsBounded
<1>1. TypeOK /\ ReachInv => VisitsBounded
  <2> SUFFICES ASSUME TypeOK, ReachInv, NEW q \in Peers
               PROVE  visits[q] <= Cardinality(Paths \X Slots)
    BY DEF VisitsBounded
  <2>1. Claims(q) \in SUBSET (Paths \X Slots)
    BY DEF Claims
  <2>2. Cardinality(Claims(q)) \in Nat /\ Cardinality(Paths \X Slots) \in Nat
    BY <2>1, SlotsAreFinite
  <2>3. visits[q] \in Nat /\ visits[q] + Cardinality(Claims(q)) <= Cardinality(Paths \X Slots)
    BY ReachTypes DEF ReachInv, VisitsAreClaimed
  <2> QED
    BY <2>2, <2>3
<1> QED
  BY <1>1, ReachInvariant, PTL

\* Whatever others answer, we never ask ourselves, unless the routing table gave
\* us ourselves as a starting peer (query-path.ts:141).
THEOREM WeAreNotAsked == Spec => []NeverAskSelf
<1>1. TypeOK /\ ReachInv => NeverAskSelf
  BY PeersAssumption DEF ReachInv, SeenIsVisited, SelfIsSpared, NeverAskSelf
<1> QED
  BY <1>1, ReachInvariant, PTL

=============================================================================
