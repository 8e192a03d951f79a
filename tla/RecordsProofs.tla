--------------------------- MODULE RecordsProofs ---------------------------
(***************************************************************************)
(* What holds of value records for any nodes, calls and values: where an   *)
(* invalid value can be, and what a get leaves behind when it is over.     *)
(***************************************************************************)
EXTENDS Records, TLAPS

-----------------------------------------------------------------------------
(* The inductive invariant, as predicates on the state r of a call.        *)

BestOf(r) == Max({v.value : v \in r.vals})

Holds(st, n, value) == st[n] # NoRecord /\ st[n].value = value

\* What is true of any call.  The answers come one by one, so there is a best one.
Sound(r) ==
  /\ r \in CallStates
  /\ r.deleting \subseteq r.todo /\ (r.at # "ask" => r.deleting = {})
  /\ \A v \in r.vals : v.value \in Valid
  /\ r.vals # {} => \E best \in r.vals : \A v \in r.vals : v.value <= best.value
  /\ r.at \in {"idle", "send"} => r.vals = {}
  /\ r.at = "correct" => r.todo \subseteq {v.from : v \in r.vals}
  /\ r.at = "done" => r.todo = {}

\* What is true of a get that has lost nothing and that nobody has disturbed: who
\* has answered still holds the answer, and then, unless still to be corrected, the
\* best of the answers.
Current(r, st) ==
  ~r.failed =>
    /\ r.at = "ask" => \A v \in r.vals : v.from \notin r.todo /\ Holds(st, v.from, v.value)
    /\ r.at \in {"correct", "done"} =>
         \A v \in r.vals : v.from \in r.todo \/ Holds(st, v.from, BestOf(r))

StoreOK == store \in [Nodes -> {NoRecord} \cup Stored]

InvalidIsOwn ==
  \A n \in Nodes : store[n] # NoRecord /\ store[n].value \notin Valid => store[n].mine

RecordsInv ==
  /\ now \in 0..MaxNow /\ StoreOK /\ InvalidIsOwn
  /\ call \in [Calls -> CallStates]
  /\ \A c \in Calls : Sound(call[c])
  /\ disturbed \subseteq Gets
  /\ \A c \in Gets \ disturbed : Current(call[c], store)

-----------------------------------------------------------------------------
(* Lemmas about the state of one call.                                     *)

\* The best of the answers is one of them.
LEMMA BestIsAnAnswer ==
  ASSUME NEW r, Sound(r), r.vals # {}
  PROVE  /\ \E v \in r.vals : v.value = BestOf(r)
         /\ BestOf(r) \in Valid /\ BestOf(r) \in Nat
<1> DEFINE S == {v.value : v \in r.vals}
<1>1. PICK best \in r.vals : \A v \in r.vals : v.value <= best.value BY DEF Sound
<1>2. \A v \in r.vals : v.value \in Nat BY DEF Sound, CallStates
<1>3. best.value \in S /\ \A y \in S : best.value >= y BY <1>1, <1>2
<1>4. BestOf(r) \in S
  <2> HIDE DEF S
  <2>1. \E x \in S : \A y \in S : x >= y BY <1>3
  <2>2. Max(S) \in S BY <2>1 DEF Max
  <2> QED BY <2>2 DEF BestOf, S
<1> QED BY <1>2, <1>4 DEF Sound

LEMMA IdleIsSound == Sound(Idle) /\ \A st : Current(Idle, st)
BY DEF Sound, Idle, CallStates, Current
\* The best answer only depends on the answers.
LEMMA BestKept ==
  ASSUME NEW r, NEW w, w.vals = r.vals
  PROVE  BestOf(w) = BestOf(r)
BY DEF BestOf

-----------------------------------------------------------------------------
(* A step of one call, with and without a change of a datastore.           *)

LEMMA QuietMove ==
  ASSUME RecordsInv, NEW c \in Calls, NEW r, Becomes(c, r), NoWrite, UNCHANGED now,
         Sound(r), c \in Gets \ disturbed => Current(r, store)
  PROVE  RecordsInv'
<1>1. r \in CallStates BY DEF Sound
<1>2. call' \in [Calls -> CallStates] BY <1>1 DEF RecordsInv, Becomes
<1>3. call'[c] = r /\ \A d \in Calls \ {c} : call'[d] = call[d]
  BY DEF RecordsInv, Becomes
<1>4. \A d \in Calls : Sound(call'[d]) BY <1>3 DEF RecordsInv
<1>5. \A d \in Gets \ disturbed : Current(call'[d], store)
  BY <1>3 DEF RecordsInv, Calls
<1> QED BY <1>2, <1>4, <1>5 DEF RecordsInv, NoWrite, StoreOK, Stored, InvalidIsOwn

\* Record rec is written on node n.
LEMMA WritingMove ==
  ASSUME RecordsInv, NEW c \in Calls, NEW r, NEW n \in Nodes, NEW rec,
         Becomes(c, r), Writes(c, n, rec), UNCHANGED now,
         rec \in {NoRecord} \cup Stored,
         rec # NoRecord /\ rec.value \notin Valid => rec.mine,
         Sound(r), c \in Gets \ disturbed => Current(r, store')
  PROVE  RecordsInv'
<1>1. r \in CallStates BY DEF Sound
<1>2. call' \in [Calls -> CallStates] BY <1>1 DEF RecordsInv, Becomes
<1>3. call'[c] = r /\ \A d \in Calls \ {c} : call'[d] = call[d]
  BY DEF RecordsInv, Becomes
<1>4. \A d \in Calls : Sound(call'[d]) BY <1>3 DEF RecordsInv
<1>5. StoreOK' BY DEF RecordsInv, StoreOK, Stored, Writes
<1>6. InvalidIsOwn' BY DEF RecordsInv, StoreOK, InvalidIsOwn, Writes
<1>7. ASSUME NEW d \in Gets \ disturbed' PROVE Current(call'[d], store')
  <2>1. d \in Calls BY DEF Calls
  <2>2. d \notin disturbed BY DEF Writes
  <2>3. CASE d = c BY <1>3, <2>2, <2>3
  <2>4. CASE d # c
    <3>1. call[d].at = "idle" BY <2>2, <2>4 DEF Writes
    <3>2. call'[d] = call[d] BY <1>3, <2>1, <2>4
    <3> QED BY <3>1, <3>2 DEF Current
  <2> QED BY <2>3, <2>4
<1> QED BY <1>2, <1>4, <1>5, <1>6, <1>7 DEF RecordsInv, Writes

LEMMA RecordType ==
  ASSUME RecordsInv, NEW value \in Nat, NEW mine \in BOOLEAN
  PROVE  /\ Record(value, mine) \in Stored /\ Record(value, mine) # NoRecord
         /\ Record(value, mine).value = value /\ Record(value, mine).mine = mine
<1>1. now \in 0..now /\ now \in Nat BY RecordsAssumption DEF RecordsInv
<1>2. Record(value, mine) \in Stored BY <1>1 DEF Record, Stored
<1>3. Record(value, mine) \in [value : Nat, time : Nat, mine : BOOLEAN]
  BY <1>1 DEF Record
<1> QED BY <1>2, <1>3, RecordsAssumption DEF Record

-----------------------------------------------------------------------------
(* A PUT_VALUE request to a node that is still to be reached.  The record  *)
(* is valid or not; a get sends the best of its answers.                   *)

LEMMA PutValueKeeps ==
  ASSUME RecordsInv, NEW c \in Calls, NEW n \in call[c].todo, NEW value \in Nat,
         call[c].at \in {"send", "correct"},
         call[c].at = "correct" => value = BestOf(call[c]),
         PutValue(c, n, value), UNCHANGED now
  PROVE  RecordsInv'
<1> DEFINE old == call[c]
<1>1. Sound(old) /\ old \in CallStates BY DEF RecordsInv, Sound
<1>2. n \in Nodes BY <1>1 DEF CallStates
<1>3. c \in Gets \ disturbed => Current(old, store) BY DEF RecordsInv
<1>4. CASE PutAccepted(c, n, value)
  <2> DEFINE rec == Record(value, FALSE)
  <2>1. rec \in Stored /\ rec # NoRecord /\ rec.value = value BY RecordType
  <2>2. value \in Valid /\ Writes(c, n, rec) BY <1>4 DEF PutAccepted, Accepts
  <2>3. store' = [store EXCEPT ![n] = rec] /\ DOMAIN store = Nodes
    BY <2>2 DEF Writes, RecordsInv, StoreOK
  <2> HIDE DEF rec
  <2>4. Holds(store', n, value) BY <1>2, <2>1, <2>3 DEF Holds
  <2>5. \A m \in Nodes \ {n} : store'[m] = store[m] BY <2>3
  <2>6. PICK r \in {Reached(c, n), NotReached(c, n)} : Becomes(c, r)
    BY <1>4 DEF PutAccepted
  <2>7. /\ r.at = old.at /\ r.vals = old.vals /\ r.todo = old.todo \ {n}
        /\ r.failed \/ r.failed = old.failed
        /\ r \in CallStates /\ r.deleting = old.deleting
    BY <1>1 DEF Reached, NotReached, CallStates
  <2>8. Sound(r) /\ BestOf(r) = BestOf(old) BY <1>1, <2>7, BestKept DEF Sound
  <2>9. Current(old, store) => Current(r, store')
    <3> SUFFICES ASSUME Current(old, store), ~r.failed, old.at = "correct",
                        NEW v \in old.vals, v.from \notin r.todo
                 PROVE  Holds(store', v.from, BestOf(old))
      BY <2>7, <2>8 DEF Current
    <3>1. v.from \in Nodes BY <1>1 DEF CallStates
    <3>2. CASE v.from = n BY <2>4, <3>2
    <3>3. CASE v.from # n
      <4>1. Holds(store, v.from, BestOf(old)) BY <2>7, <3>3 DEF Current
      <4> QED BY <2>5, <3>1, <3>3, <4>1 DEF Holds
    <3> QED BY <3>2, <3>3
  <2> QED BY <1>2, <1>3, <2>1, <2>2, <2>6, <2>8, <2>9, WritingMove
<1>5. CASE PutRejected(c, n, value) \/ RequestLost(c, n)
  <2>1. PICK r \in {[NotReached(c, n) EXCEPT !.misled = @ \cup {n}], NotReached(c, n)} :
          Becomes(c, r)
    BY <1>5 DEF PutRejected, RequestLost
  <2>2. NoWrite BY <1>5 DEF PutRejected, RequestLost
  <2>3. /\ r.failed /\ r.at = old.at /\ r.vals = old.vals /\ r.todo = old.todo \ {n}
        /\ r \in CallStates /\ r.deleting = old.deleting
    <3> DEFINE w == NotReached(c, n)
    <3>1. /\ w.failed /\ w.at = old.at /\ w.vals = old.vals /\ w.todo = old.todo \ {n}
          /\ w \in CallStates /\ w.deleting = old.deleting
      BY <1>1, <1>2 DEF NotReached, CallStates
    <3> HIDE DEF w
    <3>2. r = w \/ r = [w EXCEPT !.misled = w.misled \cup {n}] BY <2>1 DEF w
    <3> QED BY <1>2, <3>1, <3>2 DEF CallStates
  <2>5. Sound(r) BY <1>1, <2>3 DEF Sound
  <2>4. Current(r, store) BY <2>3 DEF Current
  <2> QED BY <2>1, <2>2, <2>4, <2>5, QuietMove
<1> QED BY <1>4, <1>5 DEF PutValue
-----------------------------------------------------------------------------
(* The steps of put().                                                     *)

LEMMA PutLocalKeeps ==
  ASSUME RecordsInv, NEW c \in Calls, PutLocal(c)
  PROVE  RecordsInv'
<1>1. NodeOf[c] \in Nodes /\ c \in Puts BY RecordsAssumption DEF PutLocal
<1>2. CASE \E peers \in SUBSET Others(c), value \in ValuesOf[c] :
             /\ Writes(c, NodeOf[c], Record(value, TRUE))
             /\ Becomes(c, [Idle EXCEPT !.at = "send", !.value = value, !.todo = peers])
  <2>1. PICK peers \in SUBSET Others(c), value \in ValuesOf[c] :
             /\ Writes(c, NodeOf[c], Record(value, TRUE))
             /\ Becomes(c, [Idle EXCEPT !.at = "send", !.value = value, !.todo = peers])
    BY <1>2
  <2> DEFINE r == [Idle EXCEPT !.at = "send", !.value = value, !.todo = peers]
             rec == Record(value, TRUE)
  <2>2. value \in Nat /\ peers \subseteq Nodes BY <1>1, RecordsAssumption DEF Others
  <2>3. Sound(r) /\ \A st : Current(r, st)
    BY <2>2 DEF Idle, Sound, CallStates, Current
  <2>4. rec \in Stored /\ rec.mine BY <2>2, RecordType
  <2>5. Becomes(c, r) /\ Writes(c, NodeOf[c], rec) /\ UNCHANGED now BY <2>1 DEF PutLocal
  <2> HIDE DEF r, rec
  <2> QED BY <1>1, <2>3, <2>4, <2>5, WritingMove
<1>3. CASE NoWrite /\ Becomes(c, [Idle EXCEPT !.at = "done", !.failed = TRUE])
  <2> DEFINE r == [Idle EXCEPT !.at = "done", !.failed = TRUE]
  <2>1. Sound(r) /\ Current(r, store) BY DEF Idle, Sound, CallStates, Current
  <2>2. UNCHANGED now BY DEF PutLocal
  <2> QED BY <1>3, <2>1, <2>2, QuietMove
<1> QED BY <1>2, <1>3 DEF PutLocal

LEMMA PutSendKeeps ==
  ASSUME RecordsInv, NEW c \in Calls, NEW n \in Nodes, PutSend(c, n)
  PROVE  RecordsInv'
<1>1. call[c].value \in Nat BY DEF RecordsInv, CallStates
<1> QED BY <1>1, PutValueKeeps DEF PutSend

-----------------------------------------------------------------------------
(* The steps of get().                                                     *)

LEMMA GetLocalKeeps ==
  ASSUME RecordsInv, NEW c \in Calls, GetLocal(c)
  PROVE  RecordsInv'
<1> DEFINE n == NodeOf[c]
           rec == store[n]
           found == rec # NoRecord /\ rec.value \in Valid
<1>1. n \in Nodes BY RecordsAssumption
<1>2. rec \in {NoRecord} \cup Stored BY <1>1 DEF RecordsInv, StoreOK
<1>3. PICK peers \in SUBSET Others(c), read \in {TRUE, ~MayFail} :
        Becomes(c, [Idle EXCEPT !.at = "ask", !.todo = peers,
                      !.vals = IF found /\ read THEN {[from |-> n, value |-> rec.value]}
                                                ELSE {}])
  BY DEF GetLocal
<1> DEFINE vals == IF found /\ read THEN {[from |-> n, value |-> rec.value]} ELSE {}
           r == [Idle EXCEPT !.at = "ask", !.todo = peers, !.vals = vals]
<1>4. \/ vals = {}
      \/ found /\ rec.value \in Nat /\ vals = {[from |-> n, value |-> rec.value]}
  BY <1>2, RecordsAssumption
<1>5. peers \subseteq Nodes /\ n \notin peers BY DEF Others
<1>6. vals \subseteq [from : Nodes, value : Nat] BY <1>1, <1>4
<1>7. \A v \in vals : v.from = n /\ v.value = rec.value /\ found /\ v.value \in Nat BY <1>4
<1> HIDE DEF vals
<1>8. /\ r \in CallStates /\ r.at = "ask" /\ r.todo = peers /\ r.vals = vals
      /\ r.deleting = {}
  BY <1>5, <1>6 DEF Idle, CallStates
<1>9. Becomes(c, r) /\ NoWrite /\ UNCHANGED now BY <1>3 DEF GetLocal, vals
<1> HIDE DEF r
<1>10. Sound(r) BY <1>7, <1>8 DEF Sound
<1>11. Current(r, store) BY <1>5, <1>7, <1>8 DEF Current, Holds
<1> QED BY <1>9, <1>10, <1>11, QuietMove

LEMMA AskKeeps ==
  ASSUME RecordsInv, NEW c \in Calls, NEW n \in Nodes, Ask(c, n)
  PROVE  RecordsInv'
<1> DEFINE old == call[c]
           rec == store[n]
<1>1. Sound(old) /\ old \in CallStates /\ old.at = "ask" /\ n \in old.todo
  BY DEF RecordsInv, Sound, Ask
<1>2. c \in Gets \ disturbed => Current(old, store) BY DEF RecordsInv
<1>3. NoWrite /\ UNCHANGED now BY DEF Ask
<1>4. rec \in {NoRecord} \cup Stored BY DEF RecordsInv, StoreOK
<1>5. CASE Becomes(c, [old EXCEPT !.deleting = @ \cup {n}])
  <2> DEFINE r == [old EXCEPT !.deleting = @ \cup {n}]
  <2>1. /\ r \in CallStates /\ r.at = "ask" /\ r.todo = old.todo /\ r.vals = old.vals
        /\ r.deleting = old.deleting \cup {n} /\ r.failed = old.failed
    BY <1>1 DEF CallStates
  <2> HIDE DEF r
  <2>2. Sound(r) BY <1>1, <2>1 DEF Sound
  <2>3. Current(old, store) => Current(r, store) BY <1>1, <2>1 DEF Current
  <2>4. Becomes(c, r) BY <1>5 DEF r
  <2> QED BY <1>2, <1>3, <2>2, <2>3, <2>4, QuietMove
<1>6. CASE Becomes(c, [old EXCEPT !.todo = @ \ {n},
                         !.vals = IF rec # NoRecord /\ rec.value \in Valid
                                    THEN @ \cup {[from |-> n, value |-> rec.value]}
                                    ELSE @])
           /\ n \notin old.deleting
  <2> DEFINE found == rec # NoRecord /\ rec.value \in Valid
             new == [from |-> n, value |-> rec.value]
             vals == IF found THEN old.vals \cup {new} ELSE old.vals
             r == [old EXCEPT !.todo = @ \ {n}, !.vals = vals]
  <2>1. Becomes(c, r) BY <1>6
  <2>2. found => new.value \in Nat /\ new \in [from : Nodes, value : Nat]
    BY <1>4, RecordsAssumption
  <2>3. /\ new.from = n /\ new.value = rec.value
        /\ vals \subseteq [from : Nodes, value : Nat]
        /\ \A v \in vals : v \in old.vals \/ (v = new /\ found)
        /\ found => vals = old.vals \cup {new}
        /\ ~found => vals = old.vals
    BY <1>1, <2>2 DEF CallStates
  <2> HIDE DEF new, vals
  <2>4. /\ r \in CallStates /\ r.at = "ask" /\ r.todo = old.todo \ {n} /\ r.vals = vals
        /\ r.deleting = old.deleting /\ r.failed = old.failed
    BY <1>1, <2>3 DEF CallStates
  <2> HIDE DEF r
  <2>5. vals # {} => \E best \in vals : \A v \in vals : v.value <= best.value
    <3>1. old.vals # {} =>
            \E best \in old.vals : \A v \in old.vals : v.value <= best.value
      BY <1>1 DEF Sound
    <3>2. \A v \in old.vals : v.value \in Nat BY <1>1 DEF CallStates
    <3>3. CASE old.vals = {} BY <2>2, <2>3, <3>3
    <3>4. CASE old.vals # {}
      <4>1. PICK best \in old.vals : \A v \in old.vals : v.value <= best.value
        BY <3>1, <3>4
      <4>2. CASE ~found BY <2>3, <4>1, <4>2
      <4>3. CASE found /\ new.value <= best.value BY <2>3, <4>1, <4>3
      <4>4. CASE found /\ ~(new.value <= best.value)
        <5>1. \A v \in vals : v.value <= new.value BY <2>2, <2>3, <3>2, <4>1, <4>4
        <5> QED BY <2>3, <4>4, <5>1
      <4> QED BY <4>2, <4>3, <4>4
    <3> QED BY <3>3, <3>4
  <2>6. Sound(r) BY <1>1, <1>6, <2>3, <2>4, <2>5 DEF Sound
  <2>7. Current(old, store) => Current(r, store)
    BY <1>1, <2>3, <2>4 DEF Current, Holds
  <2> QED BY <1>2, <1>3, <2>1, <2>6, <2>7, QuietMove
<1>7. n \notin old.deleting BY DEF Ask
<1> QED BY <1>5, <1>6, <1>7 DEF Ask

\* The request ends without an answer, with or without the record deleted.
LEMMA AskLostKeeps ==
  ASSUME RecordsInv, NEW c \in Calls, NEW n \in Nodes, AskLost(c, n) \/ DeleteOld(c, n)
  PROVE  RecordsInv'
<1> DEFINE old == call[c]
           r == [old EXCEPT !.todo = @ \ {n}, !.deleting = @ \ {n}]
<1>1. Sound(old) /\ old \in CallStates /\ old.at = "ask"
  BY DEF RecordsInv, Sound, AskLost, DeleteOld
<1>2. n \in old.todo BY <1>1 DEF Sound, AskLost, DeleteOld
<1>3. c \in Gets \ disturbed => Current(old, store) BY DEF RecordsInv
<1>4. Becomes(c, r) /\ UNCHANGED now BY DEF AskLost, DeleteOld
<1>5. /\ r \in CallStates /\ r.at = "ask" /\ r.todo = old.todo \ {n}
      /\ r.vals = old.vals /\ r.deleting = old.deleting \ {n} /\ r.failed = old.failed
  BY <1>1 DEF CallStates
<1> HIDE DEF r
<1>6. Sound(r) BY <1>1, <1>5 DEF Sound
<1>7. CASE AskLost(c, n)
  <2>1. Current(old, store) => Current(r, store) BY <1>1, <1>5 DEF Current
  <2>2. NoWrite BY <1>7 DEF AskLost
  <2> QED BY <1>3, <1>4, <1>6, <2>1, <2>2, QuietMove
<1>8. CASE DeleteOld(c, n)
  <2>1. Writes(c, n, NoRecord) BY <1>8 DEF DeleteOld
  <2>2. \A m \in Nodes \ {n} : store'[m] = store[m]
    BY <2>1 DEF Writes, RecordsInv, StoreOK
  <2>3. Current(old, store) => Current(r, store')
    <3> SUFFICES ASSUME Current(old, store), ~r.failed, NEW v \in r.vals
                 PROVE  v.from \notin r.todo /\ Holds(store', v.from, v.value)
      BY <1>5 DEF Current
    <3>1. v.from \in Nodes BY <1>1, <1>5 DEF CallStates
    <3>2. v.from \notin old.todo /\ Holds(store, v.from, v.value)
      BY <1>1, <1>5 DEF Current
    <3> QED BY <1>2, <1>5, <2>2, <3>1, <3>2 DEF Holds
  <2> QED BY <1>3, <1>4, <1>6, <2>1, <2>3, WritingMove
<1> QED BY <1>7, <1>8
-----------------------------------------------------------------------------
(* The correction that ends a get.                                         *)

LEMMA ChooseKeeps ==
  ASSUME RecordsInv, NEW c \in Calls, Choose(c)
  PROVE  RecordsInv'
<1> DEFINE old == call[c]
           todo == {v.from : v \in {v \in old.vals : v.value # BestOf(old)}}
           r == [old EXCEPT !.at = "correct", !.todo = todo]
<1>1. Sound(old) /\ old \in CallStates /\ old.at = "ask" /\ old.todo = {}
  BY DEF RecordsInv, Sound, Choose
<1>2. c \in Gets \ disturbed => Current(old, store) BY DEF RecordsInv
<1>3. Best(c) = BestOf(old) BY DEF Best, Answers, BestOf
<1>4. Becomes(c, r) /\ NoWrite /\ UNCHANGED now BY <1>3 DEF Choose
<1>5. /\ todo \subseteq Nodes /\ todo \subseteq {v.from : v \in old.vals}
      /\ \A v \in old.vals : v.from \in todo \/ v.value = BestOf(old)
  BY <1>1 DEF CallStates
<1> HIDE DEF todo
<1>6. /\ r \in CallStates /\ r.at = "correct" /\ r.todo = todo /\ r.vals = old.vals
      /\ r.deleting = {} /\ r.failed = old.failed
  BY <1>1, <1>5 DEF CallStates, Sound
<1> HIDE DEF r
<1>7. BestOf(r) = BestOf(old) BY <1>6, BestKept
<1>8. Sound(r) BY <1>1, <1>5, <1>6 DEF Sound
<1>9. Current(old, store) => Current(r, store)
  BY <1>1, <1>5, <1>6, <1>7 DEF Current
<1> QED BY <1>2, <1>4, <1>8, <1>9, QuietMove

\* A node that still has to be corrected has answered, so there is a best value.
LEMMA CorrectionHasValue ==
  ASSUME RecordsInv, NEW c \in Calls, NEW n \in call[c].todo, call[c].at = "correct"
  PROVE  Best(c) = BestOf(call[c]) /\ Best(c) \in Nat /\ Best(c) \in Valid
<1>1. Sound(call[c]) BY DEF RecordsInv
<1>2. call[c].vals # {} BY <1>1 DEF Sound
<1>3. Best(c) = BestOf(call[c]) BY DEF Best, Answers, BestOf
<1> QED BY <1>1, <1>2, <1>3, BestIsAnAnswer

LEMMA CorrectPeerKeeps ==
  ASSUME RecordsInv, NEW c \in Calls, NEW n \in Nodes, CorrectPeer(c, n)
  PROVE  RecordsInv'
BY CorrectionHasValue, PutValueKeeps DEF CorrectPeer

\* Our own record is replaced as by a PUT_VALUE that is accepted, or it is not.
LEMMA CorrectSelfKeeps ==
  ASSUME RecordsInv, NEW c \in Calls, CorrectSelf(c)
  PROVE  RecordsInv'
<1> DEFINE n == NodeOf[c]
<1>1. /\ n \in call[c].todo /\ call[c].at = "correct" /\ UNCHANGED now
  BY DEF CorrectSelf
<1>2. Best(c) = BestOf(call[c]) /\ Best(c) \in Nat /\ Best(c) \in Valid
  BY <1>1, CorrectionHasValue
<1>3. PutValue(c, n, Best(c))
  BY <1>2 DEF CorrectSelf, PutValue, PutAccepted, RequestLost, Accepts
<1> QED BY <1>1, <1>2, <1>3, PutValueKeeps

LEMMA DoneKeeps ==
  ASSUME RecordsInv, NEW c \in Calls, Done(c)
  PROVE  RecordsInv'
<1> DEFINE old == call[c]
           r == [old EXCEPT !.at = "done"]
<1>1. Sound(old) /\ old \in CallStates /\ old.at \in {"send", "correct"} /\ old.todo = {}
  BY DEF RecordsInv, Sound, Done
<1>2. c \in Gets \ disturbed => Current(old, store) BY DEF RecordsInv
<1>3. Becomes(c, r) /\ NoWrite /\ UNCHANGED now BY DEF Done
<1>4. /\ r \in CallStates /\ r.at = "done" /\ r.todo = {} /\ r.vals = old.vals
      /\ r.deleting = {} /\ r.failed = old.failed
  BY <1>1 DEF CallStates, Sound
<1> HIDE DEF r
<1>5. BestOf(r) = BestOf(old) BY <1>4, BestKept
<1>6. Sound(r) BY <1>1, <1>4 DEF Sound
<1>7. Current(old, store) => Current(r, store)
  BY <1>1, <1>4, <1>5 DEF Current, Sound
<1> QED BY <1>2, <1>3, <1>6, <1>7, QuietMove

-----------------------------------------------------------------------------
(* All steps.                                                              *)

LEMMA InitRecords == Init => RecordsInv
<1> SUFFICES ASSUME Init PROVE RecordsInv OBVIOUS
<1>1. \A c \in Calls : call[c] = Idle BY DEF Init
<1>2. Idle \in CallStates BY IdleIsSound DEF Sound
<1>3. call \in [Calls -> CallStates] BY <1>2 DEF Init
<1>4. \A c \in Calls : Sound(call[c]) /\ Current(call[c], store)
  BY <1>1, IdleIsSound
<1>5. 0 \in 0..MaxNow BY RecordsAssumption
<1> QED BY <1>3, <1>4, <1>5 DEF Init, RecordsInv, StoreOK, InvalidIsOwn, Calls

LEMMA TickKeeps ==
  ASSUME RecordsInv, Tick \/ UNCHANGED vars
  PROVE  RecordsInv'
<1>1. UNCHANGED <<store, call, disturbed>> /\ now' \in 0..MaxNow /\ now <= now'
  BY RecordsAssumption DEF RecordsInv, Tick, vars
<1>2. \A t \in 0..now : t \in 0..now' BY <1>1, RecordsAssumption DEF RecordsInv
<1>3. Stored \subseteq Stored' BY <1>2 DEF Stored
<1>4. StoreOK' BY <1>1, <1>3 DEF RecordsInv, StoreOK
<1>5. InvalidIsOwn' BY <1>1 DEF RecordsInv, InvalidIsOwn
<1> QED BY <1>1, <1>4, <1>5 DEF RecordsInv

LEMMA StepKeeps ==
  ASSUME RecordsInv, NEW c \in Calls, Step(c)
  PROVE  RecordsInv'
<1>1. CASE PutLocal(c) BY <1>1, PutLocalKeeps
<1>2. CASE GetLocal(c) BY <1>2, GetLocalKeeps
<1>3. CASE Choose(c) BY <1>3, ChooseKeeps
<1>4. CASE CorrectSelf(c) BY <1>4, CorrectSelfKeeps
<1>5. CASE Done(c) BY <1>5, DoneKeeps
<1>6. ASSUME NEW n \in Nodes, PutSend(c, n) PROVE RecordsInv' BY <1>6, PutSendKeeps
<1>7. ASSUME NEW n \in Nodes, Ask(c, n) PROVE RecordsInv' BY <1>7, AskKeeps
<1>8. ASSUME NEW n \in Nodes, AskLost(c, n) \/ DeleteOld(c, n) PROVE RecordsInv'
  BY <1>8, AskLostKeeps
<1>9. ASSUME NEW n \in Nodes, CorrectPeer(c, n) PROVE RecordsInv'
  BY <1>9, CorrectPeerKeeps
<1> QED BY <1>1, <1>2, <1>3, <1>4, <1>5, <1>6, <1>7, <1>8, <1>9 DEF Step

LEMMA NextKeeps == RecordsInv /\ [Next]_vars => RecordsInv'
BY StepKeeps, TickKeeps DEF Next

LEMMA RecordsInvariant == Spec => []RecordsInv
BY InitRecords, NextKeeps, PTL DEF Spec

LEMMA Consequences ==
  ASSUME RecordsInv
  PROVE  TypeOK /\ InvalidStaysPut /\ CorrectionReachesAll
<1>1. TypeOK BY DEF RecordsInv, TypeOK, StoreOK, Sound
<1>2. InvalidStaysPut
  <2>1. \A c \in Gets : Sound(call[c]) BY DEF RecordsInv, Calls
  <2>2. \A c \in Gets : Answers(c) \subseteq Valid BY <2>1 DEF Answers, Sound
  <2> QED BY <2>2 DEF RecordsInv, InvalidIsOwn, InvalidStaysPut
<1>3. CorrectionReachesAll
  <2> SUFFICES ASSUME NEW c \in Gets \ disturbed, call[c].at = "done",
                      ~call[c].failed, NEW v \in call[c].vals
               PROVE  Holds(store, v.from, Best(c))
    BY DEF CorrectionReachesAll, Holds
  <2>1. Best(c) = BestOf(call[c]) BY DEF Best, Answers, BestOf
  <2>2. Sound(call[c]) /\ Current(call[c], store) BY DEF RecordsInv, Calls
  <2> QED BY <2>1, <2>2 DEF Sound, Current
<1> QED BY <1>1, <1>2, <1>3

-----------------------------------------------------------------------------
(* The theorems.                                                           *)

\* All variables keep their types; in particular, whenever a get sends a correction
\* there is a best value to send (content-fetching/index.ts:91-134).
THEOREM RecordsTypes == Spec => []TypeOK
BY RecordsInvariant, Consequences, PTL

\* A record that the validator refuses is only ever found at a node that put it
\* itself, and no get counts it among its answers (put-value.ts:46,
\* content-fetching/index.ts:83, peer-routing/index.ts:287-293).
THEOREM InvalidRecordsStay == Spec => []InvalidStaysPut
BY RecordsInvariant, Consequences, PTL

\* A get that lost no request and that no other call disturbed leaves the best value
\* with everyone who answered it (content-fetching/index.ts:91-134).
THEOREM CorrectionsReach == Spec => []CorrectionReachesAll
BY RecordsInvariant, Consequences, PTL
=============================================================================
