# Specifications of the Kademlia DHT

TLA+ specifications of `@libp2p/kad-dht` (the TypeScript under `src/src/`; paths below
are relative to it), with TLC configurations that check them on small instances and
TLAPS proofs for all instances.

The code runs on one JavaScript thread. Nothing is preempted, so an **action is the code
between two awaits** of a handler, a job or a listener. All concurrency comes from what
else may run at an await: other jobs, timers, aborts, a stop and a restart, other nodes.

## 1. Inventory

| Part | State | Operations | Talks to | What is hard, and what must hold |
|---|---|---|---|---|
| Query walk `query/query-path.ts`, the loop of `query/manager.ts` | per path a p-queue, running jobs, a generator with a promise and a buffer; a set of seen peers shared by the paths | begin a path, query function yields / ends / throws, hash of a closer peer, wake, yield, abort, clean-up | network (query functions), it-merge, the caller's loop | `peersSeen` is read before an await and written after it; promise replaced after each wake-up; jobs outlive the run. No lost wake-up or event, no peer missed, only towards the key, errors only after an abort |
| Query manager `query/manager.ts` | running flag, abort controllers, query count, a timer per run, the caller's options object | start, stop, run, the four ways a run ends | walk, every caller of a query | options objects are written to and shared; stop and restart race with runs. Stops reach all runs, timers and counts are released once |
| Providers `providers.ts` | datastore entries; per DHT an LRU cache of maps, a task queue, a cleanup interval | addProvider, getProviders, cleanup, start, stop | datastore, which the managers of the LAN and the WAN DHT share; RPC handlers, content routing | cache set before the write; cleanup in several steps; eviction; crashes; a cache that knows nothing of the other manager's writes and deletes. Announcements survive, a cache hides nothing that came through it, a cleanup spares what its own manager renews |
| Routing table `routing-table/index.ts` | k-bucket, ping queue, running flag | add, remove, find, closest, start, stop, ping | k-bucket, connection manager, every caller of a query | pings and hashes cross stops and restarts; pings of one contact overlap. A contact that answers stays, a dead contact makes room |
| Peer tags `_tagPeers` | set of tagged peers, debounce timer, chains of calls | update after a change | peer store, which the tables of both DHTs tag with one name | chains overlap, fail, outlive the table; two tables tag and untag the same peer. The closest contacts should have the tag |
| Value records `content-fetching/`, handlers of GET_VALUE and PUT_VALUE | a record per key and node, the answers of a get | put, get, corrections, the two handlers | datastore, query walk, other nodes | read, check and delete with awaits between; answers are old when corrections are sent. A get leaves everyone who answered with the best value; invalid values do not spread |
| Life cycle `kad-dht.ts`, `query-self.ts`, `routing-table/refresh.ts`, `topology-listener.ts` | running flags, mode, two re-armed timers, registrations | start, stop, setMode, peer and ping events, self query, refresh | all parts above, registrar | timers re-armed by work that is in progress at a stop; awaits inside start and stop |
| Dual DHT `dual-kad-dht.ts` | none of its own | put, get, provide, findProviders, findPeer, getClosestPeers, refreshRoutingTable | LAN and WAN DHT | one verdict from two streams of events, either of which may fail. It is true of both DHTs |
| Network `network.ts`, RPC `rpc/` | open streams | send a request or a message, answer a stream of messages | registrar, handlers, routing table | failures at each step; success without an answer. A provider vouches for itself, a success is a stored record that others find, calls end |
| Content routing, peer routing `content-routing/`, `peer-routing/` | none of their own | provide, findProviders, findPeer, getClosestPeers, getValueOrPeers | walk, network, providers, peer store | limits on results; local results before the walk; sends side by side after it. The nearest are told, providers come once |
| Peer lists `peer-list/` | a sorted bounded list | add, anyCloser | peer routing | adds overlap at a hash. The nearest peers stay |
| Refresh `routing-table/refresh.ts` with the generated prefixes | a timer id | start, stop, refreshTable; peer ids and prefix lengths bit by bit | peer routing, routing table | edges at every bucket; lookups that fail. A round reaches its buckets and ends |
| Messages `message/` | none | encode, decode | network, RPC | what the reader takes for the next field |
| Utilities | none | hashes, key formats, address filters | all | - |

How they interact: a caller of `KadDHT` or `DualKadDHT` starts a query through content
fetching, content routing or peer routing. The query manager walks with a query function
that sends requests through the network. Each peer that answers is reported as an event
and enters the routing table, which gives the next query its starting peers. Incoming
streams go through the RPC dispatcher to a handler, which reads or changes providers,
records or the routing table. All parts share the datastore and the peer store, and so do
the two DHTs: `index.ts:77-90` builds LAN and WAN on the same components, and neither the
prefixes of the datastore nor the tag of the peer store tell them apart.

`PROJECT.json` lists the hazards of the code at their lines, with the properties that
would catch each.

## 2. Plan

1. **Done:** the parts with the most interleavings, each on its own: `Query`,
   `QueryManager`, `Providers` with the abstract `ProviderMap`, `RoutingTable`, `Tags`,
   `Records`, `Lifecycle`; proofs about `Query`, `Providers` and `Lifecycle`.
2. **Done:** the parts between them and what they compose. `DualDHT` composes two `Lookup`
   (the generators of the routing modules, over `PeerList`) with `Refresh` (over `KadIds`);
   `Rpc` composes the network of one node with the streams and handlers of another, over
   the codec of `Messages`; proofs about `Refresh`, `DualDHT` and `Rpc`.
3. **Done:** proofs for the rest of the safety properties: `QueryManager`, `Records`,
   `RoutingTable`, what was open of `Query`, the lists of `DualDHT`, the round
   trip through the codec of `Messages` and what it gives for `Rpc`.
4. **Done:** what the LAN and the WAN DHT share: two managers of `Providers` on one
   datastore, with the proofs for any number of them, and two tables of `Tags` on one peer
   store.
5. Left to model: an `Rpc` in which a stopped node starts again; the adds of `Rpc` with the
   bounded buckets of `RoutingTable`; the records of both DHTs in one datastore.
6. Left to prove: `Query` shown to implement the walk of `Lookup` (the walk asks each peer
   once, the jobs of a path may ask it twice, see `Query!AskedOnce`, so this needs a walk
   that may repeat).

## 3. The modules

### Query - one run

`Init` is the state when `QueryManager.run` has created its paths. `path[p]` holds what a
path keeps: its queue (how often each peer waits - the order is by distance, and distances
differ), its jobs, and `running`, `results` and `deferred` of `toGenerator`. Each listener
of `toGenerator` is an operator on this record (`Completed`, `Failed`, `OnAbort`,
`OnCleanUp`, `JobDone` for idle). An action is a step of

* a job: `OtherEvent`, `PeerResponse`, `Hashed` (the loop over the closer peers is
  suspended at each hash, which is where `peersSeen` goes stale), `JobEnds`, `JobThrows`,
  `JobTimeout`;
* a generator: `Begin`, `Wake` (after the promise) and `Resume` (after a yield);
* the run and its caller: `Abort`, `Take`, `Break`, `Return`, `Throw`; the last three run
  the finally block and emit the clean-up event.

Abstracted: what events contain (only how many wait is kept), and the order of the closer
peers in a response (any). p-queue, p-defer and it-merge are modelled from their use; of
it-merge the model keeps that it drains its sources eagerly into a buffer, throws at the
first error after what was buffered, and ends when all sources have.

### QueryManager - many runs

Two managers as in the dual DHT, runs that share options objects, the timer that a run
writes into the options (`ChosenSignal`), controllers and the count. `Finally` is the
finally block, reached by `Return`, `AbortError` or `OtherError`.

### Providers and ProviderMap

The managers of the LAN and the WAN DHT. `cache`, `due` and `work` are per manager (`work`
per worker of a queue: `Concurrency` is the code's 1); `store`, the datastore, is shared, as
both write below `/dht/provider` (`constants.ts:22`, `kad-dht.ts:105`). `work` says what a
running task awaits: `StartHit`, `StartMiss`, `Load` (an entry of the query), `Loaded`,
`Wrote` and `Answered` are addProvider and getProviders; `StartCleanup`, `Scan` (an entry),
`EndScan`, `Delete` (an entry of the batch) and `Committed` are the cleanup. Between any two
of them the other manager may do a step. External to `src/`, and assumed: a query gives each
entry as it is when it comes up, and a batch deletes in any order. hashlru may evict any
other key when a key is read or set, which covers every cache size of at least one.
`StoreFails` ends any task, in a commit after any part of the deletes; `Crash` leaves the
datastore only. Calls wait in the queue unseen: which one starts next is any. `asked`, `by`,
`latest` and `raced` are history: what was announced, through whom, when, and whether the
other manager was putting, or going to delete, the entry when it was put.

`ProviderMap` is what the users of both see: one map. An expired provider is condemned by a
manager and then forgotten; between the two another manager may renew it, and it is
forgotten all the same, but the one that has condemned it does not renew it. A lookup finds
all that was announced through the manager that is asked, and nothing that nobody announced.
The refinement maps `known` to the datastore, `condemned` to what the scan or the batch of
each manager holds, and `answer` to the map a getProviders answers with.

### RoutingTable

`kb` is the k-bucket: per bucket a list of contacts, the least recently seen first. The
external k-bucket keeps a list per bucket and splits only on the path to our own id, so
when no more split is possible the buckets are the common prefix lengths: `BucketOf`. A
new contact of a full bucket is not added but reported with the oldest contact (`KadAdd`),
which queues a ping (`OnPing`). A ping awaits the dial, then `Promise.all`
(`AddNewcomer`). `add` and `remove` await a hash between their test of `kb` and its use.
`Start` and `Started` are the two halves of start().

### Tags

The tables of the LAN and the WAN DHT. Each start of a table has its own k-bucket and its
own debounced update. An update computes the change of the closest contacts and starts a
chain of awaited calls; chains run side by side. `tags` is the one peer store: both tables
use the same name of the tag, and a peer with private and public addresses is a contact of
both (`kad-dht.ts:214-233`). The peer store is assumed to do calls in the order in which they
are made and to take a second tag of the same name for the first one, which is the best case.

### Records

Puts and gets of one key on several nodes, and the two handlers. Values are numbers and
the selector prefers the greater. The peers that a call reaches are any set, because the
walk is `Query`'s business. `mine`, `misled`, `failed` and `disturbed` are history.

### Lifecycle

One `KadDHT`. A call of start or setMode is a small process: `CallSetMode` takes the
handler away and awaits, `Unhandled` sets the mode and the handler, `StartParts` starts
the parts and registers the topology, `Registered` keeps the id, `StartRefresh` begins a
refresh loop. Calls overlap freely, and `Stop` may come at any time. `self` and `refresh`
are the loops that re-arm their timer when a query is done, or, for the refresh, a round of
the timer, which is not forced and so looks up nothing; `Cleared` is clearTimeout of
the one timer id each of them keeps.

### DualDHT, Lookup and PeerList

One call of an operation of `DualKadDHT`. `walk[d]` is the generator of DHT `d`: its `stage`
is where it is (`local` answers first, `sanity` for the second look of findPeer, `walk`,
`final` for the peers that getClosestPeers ends with, `ended`, `threw`), the other fields
are its variables. `StartClosest`, `FindLocal`, `NotFoundLocal`, `StoredProviders` and
`StoredValue` come before the walk, `Answers` has one operator per query function
(`ClosestAnswer`, `PeerAnswer`, `ProvidersAnswer`, `ValueAnswer`), and
`SendFinal`/`SendSucceeds`/`SendFails` are the messages of put and provide, up to `Alpha` at a
time. `AddAll` of `PeerList` is what the calls of `PeerDistanceList.add` for one response do
together: each looks into the list before it awaits a hash. it-merge drains both generators
whether or not anyone listens, so `events` is the set of kinds that have come out, and
`Get`, `Provide`, `FindPeer` and the others are the end of the caller's loop, which computes
the `verdict`. A request is one step here: `Query` and `Rpc` have what happens in it.

### Refresh and KadIds

`KadIds` has `_makePeerId` and `_generateRandomPeerId` with the 32-bit operators of
JavaScript on words of bits, and the table of generated prefixes: entry `i` is a peer id
whose hash begins with `i` (both lists have this property: all 65536 entries of the one agree
with their hashes in 16 bits, all 16384 of the other in 14). `Refresh` has the rounds: which
lengths are tracked (`_maxCommonPrefix` counts zero *bytes*), one task per length, the loop
over a gap, `RoundIsDone` re-arms the timer. The ids that a task may look up are summarised
by the buckets they belong to (`Aims`).

### Rpc and Messages

Calls of `sendRequest` and `sendMessage` between nodes of which some run this code, and
streams that strangers open with messages of their own. Client: `Call`, `Connected`,
`Opened` (the message is written, and that side closed), `Aborted`, `Answered`, `Drained`,
`NoAnswer`. Server: `Incoming` (`onIncomingStream`), `Receive` (decode), `Handle` with an
operator per handler, `EndOfMessages`, `Throw`. A provider whose entry cannot be written is
in the cache although the handler throws (`AddProvider`). A connection may be `Lost` at any time and a
node may `Stop`, without its streams. `Messages` is the codec number by number, as its
protobuf code reads: a tag, a length, and the reader's position, from which errors follow.
`claims` is history: who has said over its own stream that it provides what.

## 4. What is checked

Runs that pass:

| Run | Instance | Question |
|---|---|---|
| `query` | 5 peers with ourselves, 2 paths, 2 jobs each, a signal of the caller; answers name the same nearer peers, ourselves and farther peers | the seven safety properties of a run |
| `query_live` | 4 peers, 2 paths, 1 job each, timeouts of single queries, no signal of the caller | a run ends; after an abort its jobs die out |
| `query_manager` | 2 managers, 3 runs, one options object shared by two of them, one with a signal | counts, controllers, timers, drained stops |
| `providers` | 2 managers, 1 entry, 1 failure, any number of crashes, clock to 2, validity 0 | caches hide nothing of their own, announcements survive, cleanups spare what their manager renews, expired providers go, and the two are a `ProviderMap` |
| `routing_table` | 3 peers for a bucket of 2, one reliable, one dead; 2 pings at a time, 2 starts | who answers stays, the dead contact makes room |
| `lifecycle` | 2 starts, 1 setMode, 1 refresh by hand, any number of stops | a server has its handler, a running DHT a topology whose id it keeps, its self queries and the rounds of the timer |
| `dual` | every operation, 4 peers by distance, lists of 2, 3 providers, 1 message at a time; prefixes of 4 bits in bytes of 2 with 3 contacts | verdicts, nearest peers, providers once; rounds that look up an id in each bucket they count, and end |
| `rpc` | a server, a client and a stranger; 3 calls and a stream of the stranger, two at a time | who provides, what success means, what is found, that calls end |
| `records` | 3 nodes, 2 puts, one of which may put an invalid value, 1 get, failures, records that age | corrections reach everyone; the invalid value stays where it was put |

Why these bounds are enough: the races of `Query` are between two jobs that know the same
peer, so two jobs on a path and two paths suffice, and a walk of three hops lets a peer be
skipped, passed over as farther, and reached again. `MaxEvents = 1` lets each job yield one
event before it ends or fails. `query_live` has one job per path, because the timeouts
multiply the states: what has to end there is a generator, and its jobs one by one. A run
and its neighbour through a shared options object take two runs, a stop in between and a
third on the same manager. What two managers of
`Providers` do to each other they do to one entry; with a validity of 0 the clock values 1 and
2 are enough for one that is valid, expired and renewed, in the datastore, in a cache, and as
the time of a put that is late. One failure may hit any await of any task, and crashes are
not bounded. `ExpiredGoAway` has its premise as soon as the clock is 2. Larger instances
without liveness were checked once: validity 1 with a clock to 3 (396 thousand states) and
two providers (3 million, up to symmetry); evictions by other keys and purged maps that are
not empty are in the proofs, which hold for any sets. A bucket of two that three peers want, with two pings at once, is the smallest
where a contact moves behind another while it is pinged. `MaxCalls = 1` and
`MaxWaiting = 1` bound the adds and removes in progress and the pings that wait; a ping, an
add and a remove can still overlap. In `lifecycle`
two starts make a restart and overlap with each other; a start calls setMode itself, so one
more setMode suffices for an overlap. In `records` three nodes let a correction, a put and a
get involve different peers, and the clock only has to pass `MaxAge` once. Bounds:
`MaxEvents`, `Starts`, `SetModes`, `Refreshes`, `MaxNow`, `MaxFailures`, `MaxCalls`, `MaxWaiting`, `MaxSessions`, `MaxChains`,
`Sessions`.

In `dual` a table is empty or has one contact, and an answer names nobody, two nearer peers
and ourselves, or one peer twice (`Tables`, `Closer`): with `K = 2` that is enough for a full
list, a peer pushed out of it, a duplicate, and a walk of two hops. With `K = 2` and three
providers one response may carry the set past `K`. `Width = 4` and `ByteBits = 2` have two
bytes, so a prefix may end inside of a byte, at its edge and at the end of the word; one
contact shares no bit with us, one shares three, one all of them. In `rpc` the calls and
streams of one behaviour are a member of `Together`: announce and look up, either of them
beside a stranger, and a request of the server to the stranger. `Scripts` and `Replies` hold
what the stranger may write: providers it is and is not, several messages on a stream, a
handler that throws in the middle, messages that cannot be read. `Book` gives the server an
address of the client for its DHT and none of the stranger.

`CHECK_DEADLOCK FALSE` appears where the system stops: a run or a set of calls ends.

Fairness. Hashes and promise continuations always come; timers fire; a query function
ends once the signal it was given is aborted, because it hands it to every request; a dial
ends because it has a timeout; the datastore answers; the caller of a run keeps reading.
Nothing is assumed of peers that do not answer, of stops, or of callers that abort.
In `Providers` an interval that runs fires again (weak fairness of `CleanupDue`), a task that
runs goes on (`Running`), and a cleanup that waits starts some time although calls keep
coming: strong fairness of `StartCleanup`, because the queue is first in, first out.
In `dual` the fairness is that of `RefreshProgress` only: lookups have the timeout of the
refresh. In `Rpc` a dial ends and so does a call with a signal, because both have a timeout,
and a server with something to read, an end or a reset of its stream goes on, because
handlers only await stores; a call without a signal to a node that keeps silent has no
fairness. `CanGoOn` writes out when such a step is possible, which TLC evaluates faster than
ENABLED.

Runs in which the code does not do what a comment says, each of which is a `finding`:

| Run | What happens |
|---|---|
| `rpc_schema` | an answer laid out as `message/dht.proto` says, with the connection type of a peer in field 3, cannot be read: the codec takes field 3 for bytes and the type for their length |
| `providers_expired` | LAN and WAN have a map cached; the cleanup of one deletes an expired entry from the datastore, and the other, which looks for what has expired in the datastore, keeps the provider in its cache and answers with it (1 entry, validity 1, clock to 3, no failures) |
| `tags` | a peer is the closest contact of both tables; it leaves one of them, which takes away the tag, and the other one believes that it is tagged (2 peers, 1 of them close, 2 starts). The property only counts behaviours in which no call fails and no updates of one table overlap: those that do leave wrong tags with one table alone |

The last section of each module states what a comment of the code says, including these
disagreements that have no run of their own; add the property to the configuration of its
module to see the trace:

| Property | What happens |
|---|---|
| `Query!AskedOnce` | two jobs hash the same unseen peer at the same time, and both ask it (`query-path.ts:136`) |
| `Query!NothingStartsAfterLeaving` | after the caller left, a job that is answered adds jobs to the cleared queue (`query-path.ts:244`) |
| `Query!AbortIsThrown` | an abort during a yield rejects a promise nobody awaits; the generator returns normally (`query-path.ts:231`) |
| `QueryManager!NoRunForever` | a run takes the timer of another one for a signal of its caller; it is cleared when the other ends (`manager.ts:92`) |
| `QueryManager!ShutdownIsSilent` | a run aborted by a shutdown throws after a restart, or if its path fails first (`manager.ts:176`) |
| `RoutingTable!PingsDoNotOverlap` | one contact is pinged for two newcomers at the same time (`routing-table/index.ts:216`) |
| `RoutingTable!EvictsInItsSession` | a dial cancelled by a stop evicts a contact from the next table (`routing-table/index.ts:241`) |
| `Lifecycle!StoppedDoesNotAnswer` | a server that is stopped keeps its protocol handler, and so goes on answering (`kad-dht.ts:290`) |
| `Lifecycle!StopReachesStart` | a start that awaits setMode at a stop goes on to start the parts of a stopped DHT (`kad-dht.ts:275`) |
| `Lifecycle!ClientsDoNotAnswer` | two overlapping setMode leave a client with its handler (`kad-dht.ts:253`) |
| `Lifecycle!OneSelfLoop` | a self query that ends after a stop arms its timer, and a restart begins a second loop (`query-self.ts:97`) |
| `Records!DeletesOnlyOld` | a record stored between the check of an old one and its deletion is deleted (`get-value.ts:124`) |
| `Records!OwnRecordsKept` | a node deletes an old record of its own (`get-value.ts:121`) |
| `Records!LocalGetIsFresh` | a get uses a local record of any age (`content-fetching/index.ts:78`) |
| `Records!CorrectsOnlyOutdated` | a correction replaces a better record that came after the answer (`content-fetching/index.ts:117`) |
| `Records!PutErrorsAreReported` | a peer that stored nothing answers as if it had, and no error is reported (`content-fetching/index.ts:172`) |
| `Refresh!OnlyTargetBitsMatch` | with the short list of browsers most ids made up for a length share fewer bits (`refresh.ts:192`; set `Browser = TRUE`) |
| `Refresh!LongestPrefixIsFound` | the lengths of the table are counted in bytes, so buckets with contacts are not tracked (`refresh.ts:213`) |
| `Refresh!TimersRefresh` | a round of the timer looks up nothing, because no date of a refresh is ever kept (`refresh.ts:36`) |
| `DualDHT!UpToKProviders` | one response carries the providers past `K`, and the walk goes on (`content-routing/index.ts:190`) |
| `DualDHT!ListsEachOnce` | a peer named twice by a response is twice in the list (`peer-distance-list.ts:51`) |
| `DualDHT!FoundMeansNoError` | one DHT finds the peer, the other one reports that it was not found, and the caller sees both (`dual-kad-dht.ts:206`) |
| `Rpc!AllCallsEnd` | a call without a signal waits for a silent node forever (`network.ts:173`) |
| `Rpc!NeverInOwnTable` | a node that provides is named in the answer to its own request and adds itself to its table (`query-path.ts:97`) |

Seen while modelling, and in the models as they are in the code, but without a property:

* A cleanup of one DHT may delete an entry that the other has renewed after the first had
  found it expired, and a map that one has cached hides what the other writes. The properties
  of `Providers` except these two cases, by `raced` and by `by` (`providers.ts:147,179`).
* A topology whose registration overlaps a stop stays registered beside the next one, and no
  stop ends it: `PeersAreObserved` says that the id at hand is good, not that it is the only
  one (`topology-listener.ts:62-75`).
* `const stream` in `sendRequest` and `sendMessage` shadows the variable that the finally
  block closes, so that block closes nothing (`network.ts:94,100,119,138,142,149`).
* A server ignores an announcement without addresses, and the sender still gets a
  `PEER_RESPONSE`; `SuccessMeansStored` has this as a condition (`add-provider.ts:45`).
* GET_PROVIDERS reads the hash of a content id as a content id, which only works for
  SHA-256; for other hashes the handler throws (`get-providers.ts:44`).
* Closer peers that come with an invalid record are lost (`peer-routing/index.ts:273`).
* The test for a gap counts the contacts of the longest prefix of the table, not of the
  bucket at hand (`refresh.ts:98`).
* `getPublicKeyFromNode` always ends in an error (`peer-routing/index.ts:130`), `isIPNSKey`
  compares four bytes with six (`utils.ts:98`); nothing in `src` depends on either.

Each module states a type invariant where it has one; it is proved for `Query`,
`QueryManager`, `Providers`, `RoutingTable`, `Records` and `Lifecycle`, and the runs spend
their time on the other properties.

## 5. What is proved

**`QueryProofs`**, for any finite or infinite set of peers, any finite set of paths, any
`Alpha > 0`, any answers; assumed are only the named assumptions of `Query` (distances differ,
starting peers of different paths differ, we are a peer).

* `TypeCorrect`, by induction on types alone; the lemmas are about the helpers (`Add`,
  `StartNext`, the listeners).
* `HandledSeen`: a peer enters a queue only together with the set, and no step shrinks it.
* `WalkApproachesKey`: needs the invariant that a peer being hashed came from a job whose
  own peer is no farther than the start, so `IsCloser` chains along the walk.
* `WakeUpsAreNotLost`, `ReturnMeansExhausted`, `ErrorsNeedAnAbort` share `FlowInv`, the
  invariant of the generator: while it is running some job is busy; nothing waits in the
  queue while a slot is free; a pending promise means no result; a rejection or an early
  end of `running` needs an abort or an ended caller. None of the three is inductive
  without it.
* `NearerPeersGetAsked`, `PeersAreAskedBoundedly` and `WeAreNotAsked` from `ReachInv`: a peer
  has been seen if and only if it has been asked; a peer that a responder named is seen or is
  still to be looked at by a job; the times a peer was asked and the claims on it (jobs that
  hash it, paths that will begin with it) are together no more than there are jobs, which is
  why `Paths` is finite; no job hashes ourselves. `NeverAskSelf`, which `WeAreNotAsked`
  states, is proved and has no run.

**`QueryManagerProofs`**, for any managers, runs and options, shared or not.

* `ManagerTypes`, `EveryQueryCounted`, `StopReaches`, `NoTimerOutlivesItsRun` and
  `OwnTimerStays` from `ManagerInv`: the count is the number of live runs, a live run that no
  stop has reached is among the controllers of its manager, a stopped manager keeps no
  controllers, and a run that made its own timer keeps it while it lives. That the count is a
  number at all rests on the live runs being finite, which is part of the invariant.
  `StoppedRunsAreAborted` is what a stop relies on: while a manager is stopped, each run of it
  that is not over has been aborted.

**`ProvidersProofs`**, for any managers, content ids, providers and validity; assumed is
`ProvidersAssumption` (the bounds are numbers, "nobody" is no manager).

* `TypeCorrect`, `CacheCovers`, `AnnouncementsSurvive` from `Inv`. What a cache covers and
  what survives are not inductive: a task has looked at the datastore some steps ago. So
  `TaskKnows` says of each running task what it knows is still so, whatever the other managers
  have done meanwhile: the entries put through its own manager are still to be loaded or have
  been found (`LoadKnows`), the provider being written is in the cache if there is a map
  (`WriteKnows`), what a batch has deleted and not yet purged is not its manager's own
  (`CommitKnows`), and what a scan or a batch is going to delete has expired or was put in a
  race (`DeleteKnows`). `Behind`: the datastore never has a later time than was put.
* `OwnAreSpared`, an action property, from `Inv`: a cleanup that deletes a valid entry deletes
  one that another manager has put, because its own manager can put nothing meanwhile.
* `ActsAsMap`: the managers implement `ProviderMap`, with failures and crashes. `Asked` is
  added to the invariant: stored, cached, found or being written are only providers whose
  announcement was asked for. Each action is mapped to one of the map or to a stutter.

**`RoutingTableProofs`**, for any peers, buckets, bucket sizes and numbers of pings.

* `TableTypes` and the action property `ReliableContactsStay` from `TableInv`: a bucket holds
  each of its contacts once and no more than `K`, and what waits or is pinged is a peer of the
  bucket. The steps are those of helpers on a record of the table and the queue, so the
  lemmas say of each helper which contacts it may take away.

**`RecordsProofs`**, for any nodes, values, ages, puts and gets; assumed is that "no record"
is none of the values.

* `RecordsTypes` and `InvalidRecordsStay`: only the node of a put can have an invalid value
  (`InvalidIsOwn`), because answers and what is sent on are valid (`Sound`).
* `CorrectionsReach` from `Current`: while a get that has lost nothing and was not disturbed
  asks, whoever answered still holds the answer; while it sends corrections, whoever answered
  holds the best one or is still to be corrected.

**`LifecycleProofs`**, for any number of calls of start, stop, setMode and refresh;
assumed is `CallsAssumption` (calls have different names).

* `TypeCorrect`, `ServersAnswer`, `PeersAreSeen` from `IInv`, which adds to the types:
  `Registrations` (a start that awaits the registrar is registered, and the kept id is
  another one's), `ListenerHasId` (while the parts run, the listener has an id or awaits
  one) and `HandlerComesBack` (a server lacks its handler only between the two halves of a
  setMode). Without the last two, a call in progress could leave a settled state without a
  handler or an id.

**`DualProofs`**, for any peers, tables, responses, providers, `K` and `Alpha`, any width of
prefixes and bytes, any contacts. Its first part is about `Refresh`; assumed there are the
assumptions of `KadIds` and `Refresh`, and that the build is not the one for browsers.

* `MadeUpIdsMatch`: with the full table, every id made up for a length is in the bucket of
  that length. `ToggledBit` and `MaskOfPrefix` say what the shifts and the mask leave of each
  bit; a mask off by one fails there.
* `RoundsReachTheirBuckets` from `RefreshInv`, which says the same of a round in progress: a
  forced round has chosen an id of each tracked bucket, and steps only add to them. The
  tracked buckets go up to a number of zero bytes: contacts may be in others
  (`Refresh!LongestPrefixIsFound`). That a
  round tracks no more buckets than there are follows from the types of the two lengths
  (`PrefixLengthType`, `MaxCommonPrefixType`), which are CHOOSEn and need a greatest element.

The second part is about `DualDHT` and `Lookup`; tables are finite.

* `CallersAreToldTheTruth`, `EachProviderOnce` from `DualInv`: what a generator has asked,
  found and sent is among the kinds of events (`Accounted`), and a kind that decides a
  verdict has been caused by some generator (`Caused`). A generator that threw may go on
  sending in silence, so `Accounted` excepts it; it also says that nothing is being sent
  when a generator has ended, so that a verdict stays true (`NothingAfterTheEnd`).
* `DualRoundsReachTheirBuckets` carries `RoundsReachTheirBuckets` over to the composition.
* `TheNearestAreKept` and `EveryNearestIsTold` from `ListsInv`: a list is in order, and whoever
  was heard of and is not in it is no nearer than all of a full list (`Keeps`). A list may have
a peer twice, so these need not be the `K` nearest (`DualDHT!ListsEachOnce`). `InsertKeeps`
  shows it for one insertion - the place that `NoFarther` counts, the cut at `K` - and
  `AddAllKeeps` for a response of any length. Inductions over numbers are done with the
  greatest element of the set of indices up to which all is well (`UpTo`), because the
  induction theorems of the library take an operator.

**`RpcProofs`**, for any finite set of peers, any calls, streams, scripts and replies; assumed
is only `RpcAssumption`: what the constants are, that addresses are finitely many, and that
`Peers` has every peer that a reply names.

* `RoundTrip`: what `Encode` writes, `Decode` reads, for every message with peers, addresses,
  keys and records of any number and length. The encoder is a row of parts, the decoder a
  loop. `PairsUp` says which field each part is read as, `ReadsParts` that a reader which
  takes each field from its part takes all of them, however they lie in the whole
  (`Flattened`, `ReadsFields`); `Values` then gives back what was put in (`ValuesConcat`).
  Peers are such a row inside a part, so the argument is used twice. Recursion over lengths
  is replaced with functions that satisfy its equations (`Recursion`, `CountUp`). Numbers
  stand for varints, which are not split into bytes.
* `NoForeignProviders`, from `RpcInv`: all that is under way to a server, and the message in
  its hands, has been claimed by the peer at the other end (`Vouched`).
* `AnnouncementsArrive`, from `RpcInv`: an announcement is written, in the hands of the
  server, stored or lost, and if it is lost the stream does not end (`Delivery`).
* `AnnouncedAreFound`, from `FindInv` on top of `RpcInv`: whoever had told the callee before
  a call is stored there (`KnownAreStored`); the server holds the request itself; each answer
  on its way to the call names all that are known (`IsAnswer`), because the key of the
  request is the hash of the announced content id, `GetPeers` drops only peers without usable
  addresses, and no step removes a provider. It needs `RoundTrip` in both directions.

**Only model-checked**: all liveness properties (`RunEnds`, `AbortStopsWalk`, `StopDrains`,
`TimedRunsEnd`, `ExpiredGoAway`, `DeadMakeRoom`, `SelfQueriesGoOn`, `RefreshTimerGoesOn`,
`RoundsEnd`, `CallsEnd`): TLAPS does not reason about fairness. Every safety property of a
passing run is proved. `Tags`, whose property fails, has no proofs.

## 6. What is not modelled, and why

* The codec of records in `message/dht.ts`: nothing in `src` calls it.
* The class `PeerList` and `getPublicKeyFromNode`: nothing in `src` calls them either.
* start, stop, getMode and setMode of the dual DHT, which call those of both parts; the parts
  are in `Lifecycle`.
* Hashing, key formats, logging and metrics: stateless, or without an effect on the others
  (the query count is kept, because it is state). Of the generated prefix tables the model
  keeps what their entries have in common.
* Libraries (p-queue, p-defer, it-merge, k-bucket, hashlru, timeout-abort-controller, the
  datastore and the peer store) are modelled from their use and marked external.
* What the LAN and the WAN DHT share is in `Providers` and `Tags`. Elsewhere a node has one
  DHT. In `Records` the two would be two callers on one datastore, where a put of both is two
  puts of the same record; in `Rpc` a provider announced to one DHT of a node may also be
  named by the other, which only adds to `providers`; in `RoutingTable`, `Lifecycle` and
  `Query` nothing is shared.
* In `Records`: records of public keys, the closer peers of an answer, and expiry checks
  of the validators. In `Rpc`: capacity of routing tables and expiry of providers, which are
  in `RoutingTable` and `Providers`, and nodes that start again.
