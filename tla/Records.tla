------------------------------ MODULE Records ------------------------------
(***************************************************************************)
(* Value records of one key: put() and get() of several nodes, the GET_    *)
(* VALUE and PUT_VALUE handlers of the nodes they talk to, and the         *)
(* correction of outdated records that ends a get.                         *)
(*                                                                         *)
(* A value is a number, and the selector prefers the greater.  Whom a call *)
(* reaches is module Query's business: here it is any set of other nodes.  *)
(* An action is the code between two awaits; a handler of PUT_VALUE        *)
(* changes the datastore once, one of GET_VALUE reads it and may delete.   *)
(***************************************************************************)
EXTENDS Naturals, FiniteSets, FiniteSetsExt

CONSTANTS
  Nodes,
  Puts, Gets,   \* the calls of put() and get()
  NodeOf,       \* the node of each call
  ValuesOf,     \* the values each put may be called with
  Valid,        \* the values the validator accepts
  MaxAge,       \* MAX_RECORD_AGE
  MaxNow,       \* bound: the clock
  MayFail,      \* can requests and datastores fail?
  NoRecord

Calls == Puts \cup Gets

ASSUME RecordsAssumption ==
  /\ NodeOf \in [Calls -> Nodes] /\ ValuesOf \in [Puts -> SUBSET Nat]
  /\ Valid \subseteq Nat /\ MaxAge \in Nat /\ MaxNow \in Nat
  /\ MayFail \in BOOLEAN
  /\ NoRecord \notin [value : Nat, time : Nat, mine : BOOLEAN]

VARIABLES
  now,
  store,      \* per node: its record of the key
  call,       \* per call: where it is
  disturbed   \* history: gets during which someone else changed a datastore

vars == <<now, store, call, disturbed>>

\* `mine' is history: the record was put by the node itself.
Record(value, mine) == [value |-> value, time |-> now, mine |-> mine]
Old(n) == store[n] # NoRecord /\ now - store[n].time > MaxAge

-----------------------------------------------------------------------------
\* `misled' is history: the peers that acknowledged a record they did not store.
Idle == [at |-> "idle", value |-> 0, todo |-> {}, deleting |-> {}, vals |-> {},
         misled |-> {}, failed |-> FALSE]

Answers(c) == {v.value : v \in call[c].vals}
Best(c) == Max(Answers(c))
Others(c) == Nodes \ {NodeOf[c]}

Init ==
  /\ now = 0
  /\ store = [n \in Nodes |-> NoRecord]
  /\ call = [c \in Calls |-> Idle]
  /\ disturbed = {}

\* Call c goes on, and the record of node n becomes rec; other calls that are going
\* on notice.
Becomes(c, next) == call' = [call EXCEPT ![c] = next]
Writes(c, n, rec) ==
  /\ store' = [store EXCEPT ![n] = rec]
  /\ disturbed' = disturbed \cup {g \in Gets \ {c} : call[g].at # "idle"}
NoWrite == UNCHANGED <<store, disturbed>>

Tick == now < MaxNow /\ now' = now + 1 /\ UNCHANGED <<store, call, disturbed>>

-----------------------------------------------------------------------------
(* A PUT_VALUE request from call c to node n.  The handler stores a valid  *)
(* record, whatever it has, and echoes the request even if it did not.     *)

Mut_Accepts(value) == TRUE
Accepts(value) == value \in Valid

Reached(c, n) == [call[c] EXCEPT !.todo = @ \ {n}]
NotReached(c, n) == [call[c] EXCEPT !.todo = @ \ {n}, !.failed = TRUE]

PutAccepted(c, n, value) ==
  /\ Accepts(value)
  /\ Writes(c, n, Record(value, FALSE))
  /\ \/ Becomes(c, Reached(c, n))
     \/ MayFail /\ Becomes(c, NotReached(c, n))

PutRejected(c, n, value) ==
  /\ ~Accepts(value) \/ MayFail
  /\ NoWrite
  /\ Becomes(c, [NotReached(c, n) EXCEPT !.misled = @ \cup {n}])

RequestLost(c, n) ==
  /\ MayFail
  /\ NoWrite
  /\ Becomes(c, NotReached(c, n))

PutValue(c, n, value) ==
  \/ PutAccepted(c, n, value)
  \/ PutRejected(c, n, value)
  \/ RequestLost(c, n)

-----------------------------------------------------------------------------
(* put()                                                                   *)

\* The record is stored here first, unverified, and then sent to the closest
\* peers.  If it cannot be stored the call ends.
PutLocal(c) ==
  /\ c \in Puts /\ call[c].at = "idle"
  /\ \/ \E peers \in SUBSET Others(c), value \in ValuesOf[c] :
          /\ Writes(c, NodeOf[c], Record(value, TRUE))
          /\ Becomes(c, [Idle EXCEPT !.at = "send", !.value = value, !.todo = peers])
     \/ MayFail /\ NoWrite /\ Becomes(c, [Idle EXCEPT !.at = "done", !.failed = TRUE])
  /\ UNCHANGED now

PutSend(c, n) ==
  /\ c \in Puts /\ call[c].at = "send" /\ n \in call[c].todo
  /\ PutValue(c, n, call[c].value)
  /\ UNCHANGED now

-----------------------------------------------------------------------------
(* get()                                                                   *)

\* getMany: the record of the node itself, however old, and then the query.  An
\* invalid record, or none that can be read, is passed over.
GetLocal(c) ==
  LET rec == store[NodeOf[c]]
      found == rec # NoRecord /\ rec.value \in Valid
  IN
  /\ c \in Gets /\ call[c].at = "idle"
  /\ \E peers \in SUBSET Others(c), read \in {TRUE, ~MayFail} :
       Becomes(c, [Idle EXCEPT !.at = "ask", !.todo = peers,
                     !.vals = IF found /\ read
                                THEN {[from |-> NodeOf[c], value |-> rec.value]}
                                ELSE {}])
  /\ NoWrite
  /\ UNCHANGED now

\* The GET_VALUE handler of n reads its record.  It answers without one, with one,
\* or is about to delete an old one; an invalid answer is discarded.
Ask(c, n) ==
  LET rec == store[n] IN
  /\ c \in Gets /\ call[c].at = "ask" /\ n \in call[c].todo \ call[c].deleting
  /\ \/ Old(n) /\ Becomes(c, [call[c] EXCEPT !.deleting = @ \cup {n}])
     \/ /\ ~Old(n)
        /\ Becomes(c, [call[c] EXCEPT !.todo = @ \ {n},
                         !.vals = IF rec # NoRecord /\ rec.value \in Valid
                                    THEN @ \cup {[from |-> n, value |-> rec.value]} ELSE @])
  /\ NoWrite
  /\ UNCHANGED now

\* The request, the read or the delete fails.
AskLost(c, n) ==
  /\ MayFail
  /\ c \in Gets /\ call[c].at = "ask" /\ n \in call[c].todo
  /\ Becomes(c, [call[c] EXCEPT !.todo = @ \ {n}, !.deleting = @ \ {n}])
  /\ NoWrite
  /\ UNCHANGED now

\* The handler deletes what is there by now, and answers without a record.
DeleteOld(c, n) ==
  /\ c \in Gets /\ call[c].at = "ask" /\ n \in call[c].deleting
  /\ Writes(c, n, NoRecord)
  /\ Becomes(c, [call[c] EXCEPT !.todo = @ \ {n}, !.deleting = @ \ {n}])
  /\ UNCHANGED now

\* The query is over: choose the best value, and correct those who had another.
Mut_Choose(c) ==
  /\ c \in Gets /\ call[c].at = "ask" /\ call[c].todo = {}
  /\ Becomes(c, [call[c] EXCEPT !.at = "correct",
                   !.todo = {v.from : v \in {v \in call[c].vals : v.value > Best(c)}}])
  /\ NoWrite
  /\ UNCHANGED now
Choose(c) ==
  /\ c \in Gets /\ call[c].at = "ask" /\ call[c].todo = {}
  /\ Becomes(c, [call[c] EXCEPT !.at = "correct",
                   !.todo = {v.from : v \in {v \in call[c].vals : v.value # Best(c)}}])
  /\ NoWrite
  /\ UNCHANGED now

\* Our own record is corrected in the datastore, the others' with PUT_VALUE.
CorrectSelf(c) ==
  /\ c \in Gets /\ call[c].at = "correct" /\ NodeOf[c] \in call[c].todo
  /\ \/ /\ Writes(c, NodeOf[c], Record(Best(c), FALSE))
        /\ Becomes(c, Reached(c, NodeOf[c]))
     \/ MayFail /\ NoWrite /\ Becomes(c, NotReached(c, NodeOf[c]))
  /\ UNCHANGED now

CorrectPeer(c, n) ==
  /\ c \in Gets /\ call[c].at = "correct" /\ n \in call[c].todo \ {NodeOf[c]}
  /\ PutValue(c, n, Best(c))
  /\ UNCHANGED now

\* A call is over when it has nothing left to do.
Done(c) ==
  /\ call[c].at \in {"send", "correct"} /\ call[c].todo = {}
  /\ Becomes(c, [call[c] EXCEPT !.at = "done"])
  /\ NoWrite
  /\ UNCHANGED now

Step(c) ==
  \/ PutLocal(c) \/ GetLocal(c) \/ Choose(c) \/ CorrectSelf(c) \/ Done(c)
  \/ \E n \in Nodes : PutSend(c, n) \/ Ask(c, n) \/ AskLost(c, n)
                        \/ DeleteOld(c, n) \/ CorrectPeer(c, n)

Next == Tick \/ \E c \in Calls : Step(c)

Spec == Init /\ [][Next]_vars

-----------------------------------------------------------------------------
Stored == [value : Nat, time : 0..now, mine : BOOLEAN]

CallStates ==
  [at : {"idle", "send", "ask", "correct", "done"}, value : Nat,
   todo : SUBSET Nodes, deleting : SUBSET Nodes, misled : SUBSET Nodes,
   vals : SUBSET [from : Nodes, value : Nat], failed : BOOLEAN]

TypeOK ==
  /\ now \in 0..MaxNow
  /\ store \in [Nodes -> {NoRecord} \cup Stored]
  /\ call \in [Calls -> CallStates]
  /\ disturbed \subseteq Gets
  /\ \A c \in Calls : call[c].deleting \subseteq call[c].todo

\* An invalid value stays where it was put: no other node stores it and no get
\* considers it, its own node's included (put-value.ts:46, content-fetching/index.ts:83,
\* peer-routing/index.ts:287-293).
InvalidStaysPut ==
  /\ \A n \in Nodes :
       store[n] # NoRecord /\ store[n].value \notin Valid => store[n].mine
  /\ \A c \in Gets : Answers(c) \subseteq Valid

\* Unless something else was stored meanwhile or a request failed, everyone who
\* answered a get, the node itself included, holds the best value of all the
\* answers when the get is over (content-fetching/index.ts:91-134).
CorrectionReachesAll ==
  \A c \in Gets \ disturbed :
    call[c].at = "done" /\ ~call[c].failed =>
      \A v \in call[c].vals :
        store[v.from] # NoRecord /\ store[v.from].value = Best(c)

-----------------------------------------------------------------------------
(* What the comments of the code say, and the code does not do.            *)

\* get-value.ts:95 "it was either authored by this node": a node does not delete
\* a record it has put itself.
OwnRecordsKept ==
  [][\A n \in Nodes :
       store[n] # NoRecord /\ store'[n] = NoRecord => ~store[n].mine]_vars

\* get-value.ts:123 "If record is bad delete it": nothing else is deleted.
DeletesOnlyOld ==
  [][\A n \in Nodes :
       store[n] # NoRecord /\ store'[n] = NoRecord => Old(n)]_vars

\* constants.ts:1 "the maximum time that any node will hold onto a record": a
\* node's own get does not use an older one.
LocalGetIsFresh ==
  [][\A c \in Gets :
       call[c].at = "idle" /\ call'[c].vals # {} => ~Old(NodeOf[c])]_vars

\* content-fetching/index.ts:89 "Send the best record found to any peers that have an
\* out of date record": a correction replaces no better record.
CorrectsOnlyOutdated ==
  [][\A c \in Gets, n \in Nodes :
       /\ call[c].at = "correct" /\ call'[c] # call[c]
       /\ store[n] # NoRecord /\ store'[n] # store[n]
       => store[n].value <= store'[n].value]_vars

\* content-fetching/index.ts:173 "value not put correctly": a put reports an error for
\* each peer that answered without having stored the value.
PutErrorsAreReported == \A c \in Puts : call[c].misled = {}
=============================================================================
