------------------------- MODULE RoutingTableProofs ------------------------
(***************************************************************************)
(* What holds of the routing table and its queue of pings for any peers,   *)
(* buckets and bucket size, and any number of concurrent pings.            *)
(***************************************************************************)
EXTENDS RoutingTable, SequenceTheorems, TLAPS

-----------------------------------------------------------------------------
(* Removing from a sequence.                                               *)

\* Without cuts one occurrence out of a sequence, if there is one.
LEMMA WithoutCuts ==
  ASSUME NEW s, NEW e, Contains(s, e)
  PROVE  \E k \in 1..Len(s) : s[k] = e /\ Without(s, e) = RemoveAt(s, k)
BY DEF Contains, Without, IndexOf

\* The elements of a sequence with one position cut out.
LEMMA RemoveAtProperties ==
  ASSUME NEW S, NEW s \in Seq(S), NEW k \in 1..Len(s)
  PROVE  /\ RemoveAt(s, k) \in Seq(S) /\ Len(RemoveAt(s, k)) = Len(s) - 1
         /\ \A i \in 1..(Len(s) - 1) :
              RemoveAt(s, k)[i] = IF i < k THEN s[i] ELSE s[i + 1]
<1> DEFINE left == SubSeq(s, 1, k - 1)
           right == SubSeq(s, k + 1, Len(s))
<1>1. Len(s) \in Nat /\ \A i \in 1..Len(s) : s[i] \in S
  BY LenProperties, ElementOfSeq
<1>2. /\ left \in Seq(S) /\ Len(left) = k - 1
      /\ \A i \in 1..(k - 1) : left[i] = s[i]
  <2>1. \A i \in 1..(k - 1) : s[i] \in S BY <1>1
  <2>2. 1 \in Int /\ k - 1 \in Int BY <1>1
  <2>3. /\ left \in Seq(S) /\ Len(left) = IF 1 <= k - 1 THEN k - 1 - 1 + 1 ELSE 0
        /\ \A i \in 1..(k - 1 - 1 + 1) : left[i] = s[1 + i - 1]
    BY <2>1, <2>2, SubSeqProperties
  <2> HIDE DEF left
  <2> QED BY <1>1, <2>3
<1>3. /\ right \in Seq(S) /\ Len(right) = Len(s) - k
      /\ \A i \in 1..(Len(s) - k) : right[i] = s[k + i]
  <2>1. \A i \in (k + 1)..Len(s) : s[i] \in S BY <1>1
  <2>2. k + 1 \in Int /\ Len(s) \in Int BY <1>1
  <2>3. /\ right \in Seq(S)
        /\ Len(right) = IF k + 1 <= Len(s) THEN Len(s) - (k + 1) + 1 ELSE 0
        /\ \A i \in 1..(Len(s) - (k + 1) + 1) : right[i] = s[k + 1 + i - 1]
    BY <2>1, <2>2, SubSeqProperties
  <2> HIDE DEF right
  <2> QED BY <1>1, <2>3
<1>4. RemoveAt(s, k) = left \o right BY DEF RemoveAt
<1> HIDE DEF left, right
<1>5. /\ left \o right \in Seq(S) /\ Len(left \o right) = Len(left) + Len(right)
      /\ \A i \in 1..(Len(left) + Len(right)) :
           (left \o right)[i] = IF i <= Len(left) THEN left[i] ELSE right[i - Len(left)]
  BY <1>2, <1>3, ConcatProperties, Zenon
<1> QED BY <1>1, <1>2, <1>3, <1>4, <1>5

\* What is left when an element is removed.
Elements(s) == {s[i] : i \in 1..Len(s)}

LEMMA WithoutKeeps ==
  ASSUME NEW S, NEW s \in Seq(S), NEW e
  PROVE  /\ Without(s, e) \in Seq(S)
         /\ Len(Without(s, e)) <= Len(s)
         /\ Contains(s, e) => Len(Without(s, e)) = Len(s) - 1
         /\ Elements(s) \ {e} \subseteq Elements(Without(s, e))
         /\ Elements(Without(s, e)) \subseteq Elements(s)
<1>1. Len(s) \in Nat BY LenProperties
<1>2. CASE ~Contains(s, e)
  <2>1. Without(s, e) = s BY <1>2 DEF Without
  <2> QED BY <1>1, <1>2, <2>1
<1>3. CASE Contains(s, e)
  <2>1. PICK k \in 1..Len(s) : s[k] = e /\ Without(s, e) = RemoveAt(s, k)
    BY <1>3, WithoutCuts
  <2> DEFINE r == RemoveAt(s, k)
             n == Len(s)
  <2>2. /\ r \in Seq(S) /\ Len(r) = n - 1
        /\ \A i \in 1..(n - 1) : r[i] = IF i < k THEN s[i] ELSE s[i + 1]
    BY RemoveAtProperties
  <2>3. n \in Nat /\ k \in 1..n BY <1>1
  <2> HIDE DEF r, n
  <2>4. ASSUME NEW i \in 1..n, s[i] # e PROVE s[i] \in {r[j] : j \in 1..(n - 1)}
    <3>1. CASE i < k
      <4>1. i \in 1..(n - 1) BY <2>3, <3>1
      <4>2. r[i] = s[i] BY <2>2, <3>1, <4>1
      <4> QED BY <4>1, <4>2
    <3>2. CASE i > k
      <4>1. i - 1 \in 1..(n - 1) /\ ~(i - 1 < k) /\ i - 1 + 1 = i BY <2>3, <3>2
      <4>2. r[i - 1] = s[i] BY <2>2, <4>1
      <4> QED BY <4>1, <4>2
    <3> QED BY <2>1, <2>3, <2>4, <3>1, <3>2
  <2>5. ASSUME NEW j \in 1..(n - 1) PROVE r[j] \in {s[i] : i \in 1..n}
    BY <2>2, <2>3
  <2>6. Elements(s) = {s[i] : i \in 1..n} /\ Elements(r) = {r[j] : j \in 1..(n - 1)}
    BY <2>2 DEF Elements, n
  <2>7. Elements(s) \ {e} \subseteq Elements(r) /\ Elements(r) \subseteq Elements(s)
    BY <2>4, <2>5, <2>6
  <2>8. Without(s, e) = r BY <2>1 DEF r
  <2> QED BY <2>2, <2>3, <2>7, <2>8 DEF n
<1> QED BY <1>2, <1>3

\* A contact occurs once, and not at all when it has been removed.
LEMMA WithoutInjective ==
  ASSUME NEW S, NEW s \in Seq(S), NEW e, IsInjective(s)
  PROVE  IsInjective(Without(s, e)) /\ e \notin Elements(Without(s, e))
<1>1. Len(s) \in Nat /\ DOMAIN s = 1..Len(s) BY LenProperties
<1>2. CASE ~Contains(s, e)
  <2>1. Without(s, e) = s BY <1>2 DEF Without
  <2> QED BY <1>2, <2>1 DEF Contains, Elements
<1>3. CASE Contains(s, e)
  <2>1. PICK k \in 1..Len(s) : s[k] = e /\ Without(s, e) = RemoveAt(s, k)
    BY <1>3, WithoutCuts
  <2> DEFINE r == RemoveAt(s, k)
             n == Len(s)
             at(i) == IF i < k THEN i ELSE i + 1
  <2>2. /\ r \in Seq(S) /\ Len(r) = n - 1
        /\ \A i \in 1..(n - 1) : r[i] = IF i < k THEN s[i] ELSE s[i + 1]
    BY RemoveAtProperties
  <2>3. n \in Nat /\ k \in 1..n /\ DOMAIN r = 1..(n - 1) BY <1>1, <2>2, LenProperties
  <2>4. \A i, j \in 1..n : s[i] = s[j] => i = j BY <1>1 DEF IsInjective
  <2> HIDE DEF r, n
  <2>5. \A i \in 1..(n - 1) : at(i) \in 1..n /\ at(i) # k /\ r[i] = s[at(i)]
    BY <2>2, <2>3
  <2>6. \A i, j \in 1..(n - 1) : at(i) = at(j) => i = j BY <2>3
  <2> HIDE DEF at
  <2>7. \A i, j \in 1..(n - 1) : r[i] = r[j] => i = j BY <2>4, <2>5, <2>6
  <2>8. \A i \in 1..(n - 1) : r[i] # e BY <2>1, <2>3, <2>4, <2>5
  <2> QED BY <2>1, <2>2, <2>3, <2>7, <2>8 DEF r, IsInjective, Elements
<1> QED BY <1>2, <1>3

-----------------------------------------------------------------------------
(* The k-bucket and the ping queue.  IsFit is what holds of them between   *)
(* any two operations.                                                     *)

InBucket(b) == {p \in Peers : BucketOf[p] = b}

\* A bucket holds each of its contacts once.
IsBucket(held, b) ==
  held \in Seq(InBucket(b)) /\ Len(held) <= K /\ IsInjective(held)

Tables ==
  {table \in [Buckets -> Seq(Peers)] : \A b \in Buckets : IsBucket(table[b], b)}

RunningPings == [at : {"dial", "settle"}, old : Peers, new : Peers, session : Nat]

States ==
  [kb : {NoTable} \cup Tables, slots : [Slots -> {Free} \cup RunningPings],
   waiting : Seq(JobSet)]

IsFit(t) == t \in States

\* The contacts of table u, but for those in gone, are contacts of table v.
Keeps(u, v, gone) ==
  \A p \in Peers \ gone :
    p \in Elements(u[BucketOf[p]]) => p \in Elements(v[BucketOf[p]])

\* Pings that run keep their slots.
BusyStay(t, u) == \A s \in Slots : t.slots[s] # Free => u.slots[s] = t.slots[s]

LEMMA PingsAreNotFree ==
  /\ \A r \in RunningPings : r # Free
  /\ \A job \in JobSet : session \in Nat => Dial(job) \in RunningPings
BY DEF RunningPings, Free, JobSet, Dial

LEMMA OnPingIsFit ==
  ASSUME NEW t, NEW job \in JobSet, IsFit(t), session \in Nat
  PROVE  IsFit(OnPing(t, job)) /\ OnPing(t, job).kb = t.kb /\ BusyStay(t, OnPing(t, job))
<1>1. CASE FreeSlots(t) = {}
  <2> DEFINE u == [t EXCEPT !.waiting = Append(@, job)]
  <2>1. OnPing(t, job) = u BY <1>1 DEF OnPing
  <2>2. Append(t.waiting, job) \in Seq(JobSet) BY AppendProperties DEF IsFit, States
  <2>3. u \in States /\ u.kb = t.kb /\ u.slots = t.slots BY <2>2 DEF IsFit, States
  <2> HIDE DEF u
  <2> QED BY <2>1, <2>3 DEF IsFit, BusyStay
<1>2. CASE FreeSlots(t) # {} /\ ~running
  BY <1>2 DEF OnPing, IsFit, BusyStay
<1>3. CASE FreeSlots(t) # {} /\ running
  <2> DEFINE f == CHOOSE f \in FreeSlots(t) : TRUE
             u == [t EXCEPT !.slots[f] = Dial(job)]
  <2>1. OnPing(t, job) = u BY <1>3 DEF OnPing
  <2>2. f \in Slots /\ t.slots[f] = Free BY <1>3 DEF FreeSlots
  <2>3. Dial(job) \in RunningPings /\ Dial(job) # Free BY PingsAreNotFree
  <2> HIDE DEF f
  <2>4. /\ u \in States /\ u.kb = t.kb /\ u.waiting = t.waiting
        /\ u.slots = [t.slots EXCEPT ![f] = Dial(job)]
    BY <2>2, <2>3 DEF IsFit, States
  <2> HIDE DEF u
  <2>5. /\ u.slots[f] = Dial(job)
        /\ \A s \in Slots \ {f} : u.slots[s] = t.slots[s]
    BY <2>2, <2>4 DEF IsFit, States
  <2> QED BY <2>1, <2>2, <2>3, <2>4, <2>5 DEF IsFit, BusyStay
<1> QED BY <1>1, <1>2, <1>3

\* In one bucket: what adding and removing do.
LEMMA BucketChanges ==
  ASSUME NEW b \in Buckets, NEW held, IsBucket(held, b), NEW p \in InBucket(b)
  PROVE  /\ IsBucket(Without(held, p), b)
         /\ Elements(held) \ {p} \subseteq Elements(Without(held, p))
         /\ Contains(held, p) \/ Len(held) < K =>
              /\ IsBucket(Append(Without(held, p), p), b)
              /\ Elements(held) \subseteq Elements(Append(Without(held, p), p))
<1> DEFINE S == InBucket(b)
           r == Without(held, p)
<1>1. held \in Seq(S) /\ Len(held) \in Nat /\ K \in Nat
  BY LenProperties, RoutingTableAssumption DEF IsBucket
<1>2. /\ r \in Seq(S) /\ Len(r) <= Len(held)
      /\ Contains(held, p) => Len(r) = Len(held) - 1
      /\ Elements(held) \ {p} \subseteq Elements(r)
  BY <1>1, WithoutKeeps
<1>3. IsInjective(r) /\ p \notin Elements(r)
  BY <1>1, WithoutInjective DEF IsBucket
<1> HIDE DEF r
<1>4. Len(r) \in Nat /\ DOMAIN r = 1..Len(r) BY <1>2, LenProperties
<1>5. IsBucket(r, b) BY <1>1, <1>2, <1>3, <1>4 DEF IsBucket
<1>6. ASSUME Contains(held, p) \/ Len(held) < K
      PROVE  /\ IsBucket(Append(r, p), b)
             /\ Elements(held) \subseteq Elements(Append(r, p))
  <2> DEFINE a == Append(r, p)
  <2>1. /\ a \in Seq(S) /\ Len(a) = Len(r) + 1
        /\ \A i \in 1..Len(r) : a[i] = r[i]
        /\ a[Len(r) + 1] = p
    BY <1>2, AppendProperties
  <2> HIDE DEF a
  <2>2. DOMAIN a = 1..(Len(r) + 1) BY <2>1, LenProperties
  <2>3. IsInjective(a)
    <3>1. \A i \in 1..Len(r) : r[i] # p BY <1>3 DEF Elements
    <3> QED BY <1>3, <1>4, <2>1, <2>2, <3>1 DEF IsInjective
  <2>4. Len(a) <= K
    BY <1>1, <1>2, <1>4, <1>6, <2>1 DEF IsBucket
  <2>5. Elements(held) \subseteq Elements(a)
    <3>1. Elements(r) \subseteq Elements(a) BY <1>4, <2>1 DEF Elements
    <3>2. Len(r) + 1 \in 1..Len(a) BY <1>4, <2>1
    <3>3. p \in Elements(a) BY <2>1, <3>2 DEF Elements
    <3> QED BY <1>2, <3>1, <3>3
  <2> QED BY <2>1, <2>3, <2>4, <2>5 DEF IsBucket, a
<1> QED BY <1>2, <1>5, <1>6 DEF r

\* One bucket of a table is replaced.
LEMMA BucketReplaced ==
  ASSUME NEW t, IsFit(t), t.kb # NoTable, NEW p \in Peers, NEW held,
         IsBucket(held, BucketOf[p]), NEW gone,
         Elements(t.kb[BucketOf[p]]) \ gone \subseteq Elements(held)
  PROVE  /\ IsFit([t EXCEPT !.kb[BucketOf[p]] = held])
         /\ Keeps(t.kb, [t EXCEPT !.kb[BucketOf[p]] = held].kb, gone)
         /\ [t EXCEPT !.kb[BucketOf[p]] = held].slots = t.slots
         /\ [t EXCEPT !.kb[BucketOf[p]] = held].waiting = t.waiting
<1> DEFINE b == BucketOf[p]
           u == [t EXCEPT !.kb[b] = held]
           table == [t.kb EXCEPT ![b] = held]
<1>1. t.kb \in Tables /\ t \in States BY DEF IsFit, States
<1>2. b \in Buckets BY DEF Buckets
<1>3. held \in Seq(Peers)
  BY SeqMonotonic DEF IsBucket, InBucket
<1>4. table \in Tables /\ table[b] = held
      /\ \A d \in Buckets \ {b} : table[d] = t.kb[d]
  BY <1>1, <1>2, <1>3 DEF Tables
<1>5. Keeps(t.kb, table, gone)
  <2> SUFFICES ASSUME NEW q \in Peers \ gone, q \in Elements(t.kb[BucketOf[q]])
               PROVE  q \in Elements(table[BucketOf[q]])
    BY DEF Keeps
  <2>1. BucketOf[q] \in Buckets BY DEF Buckets
  <2> QED BY <1>4, <2>1
<1> HIDE DEF table
<1>6. u \in States /\ u.kb = table /\ u.slots = t.slots /\ u.waiting = t.waiting
  BY <1>1, <1>4 DEF States, table
<1> HIDE DEF u
<1>7. IsFit(u) BY <1>6 DEF IsFit
<1> QED BY <1>5, <1>6, <1>7 DEF u

\* Adding a contact never costs another its place: a full bucket pings instead.
LEMMA KadAddIsFit ==
  ASSUME NEW t, IsFit(t), t.kb # NoTable, NEW p \in Peers, session \in Nat
  PROVE  IsFit(KadAdd(t, p)) /\ Keeps(t.kb, KadAdd(t, p).kb, {}) /\ BusyStay(t, KadAdd(t, p))
<1> DEFINE b == BucketOf[p]
           held == t.kb[b]
<1>1. b \in Buckets /\ p \in InBucket(b) BY DEF Buckets, InBucket
<1>2. IsBucket(held, b) BY <1>1 DEF IsFit, States, Tables
<1>3. CASE Contains(held, p) \/ Len(held) < K
  <2> DEFINE new == Append(Without(held, p), p)
             u == [t EXCEPT !.kb[b] = new]
  <2>1. KadAdd(t, p) = u BY <1>3 DEF KadAdd
  <2>2. IsBucket(new, b) /\ Elements(held) \ {} \subseteq Elements(new)
    BY <1>1, <1>2, <1>3, BucketChanges
  <2> HIDE DEF new
  <2>3. IsFit(u) /\ Keeps(t.kb, u.kb, {}) /\ u.slots = t.slots
    BY <2>2, BucketReplaced
  <2> HIDE DEF u
  <2> QED BY <2>1, <2>3 DEF BusyStay
<1>4. CASE ~(Contains(held, p) \/ Len(held) < K)
  <2> DEFINE job == [old |-> Head(held), new |-> p]
  <2>1. held \in Seq(InBucket(b)) /\ Len(held) \in Nat /\ K \in Nat \ {0}
    BY <1>2, LenProperties, RoutingTableAssumption DEF IsBucket
  <2>2. held # <<>> BY <1>4, <2>1, EmptySeq
  <2>3. Head(held) \in InBucket(b) BY <2>1, <2>2, HeadTailProperties
  <2>4. job \in JobSet BY <2>3 DEF JobSet, InBucket
  <2>5. KadAdd(t, p) = OnPing(t, job) BY <1>4 DEF KadAdd
  <2> HIDE DEF job
  <2>6. IsFit(OnPing(t, job)) /\ OnPing(t, job).kb = t.kb /\ BusyStay(t, OnPing(t, job))
    BY <2>4, OnPingIsFit
  <2> QED BY <2>5, <2>6 DEF Keeps
<1> QED BY <1>3, <1>4

LEMMA KadRemoveIsFit ==
  ASSUME NEW t, IsFit(t), t.kb # NoTable, NEW p \in Peers
  PROVE  /\ IsFit(KadRemove(t, p)) /\ Keeps(t.kb, KadRemove(t, p).kb, {p})
         /\ KadRemove(t, p).slots = t.slots /\ KadRemove(t, p).waiting = t.waiting
<1> DEFINE b == BucketOf[p]
           new == Without(t.kb[b], p)
<1>1. b \in Buckets /\ p \in InBucket(b) BY DEF Buckets, InBucket
<1>2. IsBucket(t.kb[b], b) BY <1>1 DEF IsFit, States, Tables
<1>3. IsBucket(new, b) /\ Elements(t.kb[b]) \ {p} \subseteq Elements(new)
  BY <1>1, <1>2, BucketChanges
<1>4. KadRemove(t, p) = [t EXCEPT !.kb[b] = new] BY DEF KadRemove
<1> HIDE DEF new
<1> QED BY <1>3, <1>4, BucketReplaced

LEMMA ReleaseIsFit ==
  ASSUME NEW t, IsFit(t), NEW s \in Slots, session \in Nat
  PROVE  IsFit(Release(t, s)) /\ Release(t, s).kb = t.kb
<1>1. CASE t.waiting = <<>> \/ ~running
  <2> DEFINE u == [t EXCEPT !.slots[s] = Free, !.waiting = <<>>]
  <2>1. Release(t, s) = u BY <1>1 DEF Release
  <2>2. <<>> \in Seq(JobSet) BY EmptySeq
  <2>3. u \in States /\ u.kb = t.kb /\ u.waiting = <<>>
    BY <2>2 DEF IsFit, States
  <2> HIDE DEF u
  <2> QED BY <2>1, <2>3 DEF IsFit
<1>2. CASE t.waiting # <<>> /\ running
  <2> DEFINE job == Head(t.waiting)
             rest == Tail(t.waiting)
             u == [t EXCEPT !.slots[s] = Dial(job), !.waiting = rest]
  <2>1. Release(t, s) = u BY <1>2 DEF Release
  <2>2. t.waiting \in Seq(JobSet) BY DEF IsFit, States
  <2>3. job \in JobSet /\ rest \in Seq(JobSet) BY <1>2, <2>2, HeadTailProperties
  <2>4. Dial(job) \in RunningPings BY <2>3, PingsAreNotFree
  <2> HIDE DEF job, rest
  <2>5. u \in States /\ u.kb = t.kb /\ u.slots = [t.slots EXCEPT ![s] = Dial(job)]
    BY <2>3, <2>4 DEF IsFit, States
  <2> HIDE DEF u
  <2> QED BY <2>1, <2>5 DEF IsFit
<1> QED BY <1>1, <1>2

-----------------------------------------------------------------------------
(* The inductive invariant, and what a step may do to the contacts.        *)

TableInv ==
  /\ running \in BOOLEAN /\ starting \in BOOLEAN
  /\ IsFit(State)
  /\ calls \subseteq [kind : {"add", "remove"}, peer : Peers]
  /\ session \in Nat

\* p is taken out by a call of remove().
RemovedByHand(p) == [kind |-> "remove", peer |-> p] \in calls \ calls'

\* The step in ReliableStay.
ReliableKept ==
  \A p \in Reliable \cap Contacts :
    \/ p \in Contacts'
    \/ kb' = NoTable \/ session' # session
    \/ RemovedByHand(p)

LEMMA StateIs ==
  /\ State.kb = kb /\ State.slots = slots /\ State.waiting = waiting
  /\ (State.kb)' = kb' /\ (State.slots)' = slots' /\ (State.waiting)' = waiting'
BY DEF State

LEMMA BecomeState ==
  ASSUME NEW t, t \in States, Become(t)
  PROVE  State' = t
BY DEF Become, State, States

LEMMA ContactsAre ==
  ASSUME NEW table \in Tables
  PROVE  \A p : p \in UNION {ToSet(table[b]) : b \in Buckets}
                  <=> p \in Peers /\ p \in Elements(table[BucketOf[p]])
<1>1. \A b \in Buckets : /\ table[b] \in Seq(InBucket(b))
                         /\ ToSet(table[b]) = Elements(table[b])
  <2> SUFFICES ASSUME NEW b \in Buckets
               PROVE  /\ table[b] \in Seq(InBucket(b))
                      /\ ToSet(table[b]) = Elements(table[b])
    OBVIOUS
  <2>1. table[b] \in Seq(InBucket(b)) BY DEF Tables, IsBucket
  <2>2. DOMAIN table[b] = 1..Len(table[b]) BY <2>1, LenProperties
  <2> QED BY <2>1, <2>2 DEF ToSet, Elements
<1>2. ASSUME NEW b \in Buckets, NEW p \in ToSet(table[b])
      PROVE  p \in Peers /\ BucketOf[p] = b
  <2>1. PICK i \in 1..Len(table[b]) : p = table[b][i] BY <1>1, <1>2 DEF Elements
  <2>2. p \in InBucket(b) BY <1>1, <2>1, ElementOfSeq
  <2> QED BY <2>2 DEF InBucket
<1>3. \A p \in Peers : BucketOf[p] \in Buckets BY DEF Buckets
<1> QED BY <1>1, <1>2, <1>3

\* A contact of the table before the step that is not in gone is one after it.
LEMMA ContactsKept ==
  ASSUME TableInv, TableInv', kb # NoTable, kb' # NoTable, NEW gone,
         Keeps(kb, kb', gone)
  PROVE  \A p \in Contacts \ gone : p \in Contacts'
<1>1. kb \in Tables /\ kb' \in Tables
  BY StateIs DEF TableInv, IsFit, States
<1>2. Contacts = UNION {ToSet(kb[b]) : b \in Buckets} BY DEF Contacts
<1>3. Contacts' = UNION {ToSet(kb'[b]) : b \in Buckets} BY DEF Contacts
<1>4. \A p : p \in Contacts <=> p \in Peers /\ p \in Elements(kb[BucketOf[p]])
  BY <1>1, <1>2, ContactsAre
<1>5. \A p : p \in Contacts' <=> p \in Peers /\ p \in Elements(kb'[BucketOf[p]])
  BY <1>1, <1>3, ContactsAre
<1> QED BY <1>4, <1>5 DEF Keeps

\* A step of the k-bucket and the queue, to state t.
LEMMA StepTo ==
  ASSUME TableInv, NEW t, IsFit(t), Become(t), UNCHANGED <<running, starting, session>>,
         calls' \subseteq calls,
         NEW gone, kb # NoTable => Keeps(kb, t.kb, gone), kb = NoTable => t.kb = NoTable,
         \A p \in gone \cap Reliable : RemovedByHand(p)
  PROVE  TableInv' /\ ReliableKept
<1>1. State' = t /\ kb' = t.kb BY BecomeState DEF IsFit, Become
<1>2. IsFit(State)' BY <1>1 DEF IsFit, States, Slots, Free, RunningPings, Tables, Buckets,
                              IsBucket, InBucket, JobSet
<1>3. TableInv' BY <1>2 DEF TableInv
<1>4. ReliableKept
  <2> SUFFICES ASSUME NEW p \in Reliable \cap Contacts, kb' # NoTable, ~RemovedByHand(p)
               PROVE  p \in Contacts'
    BY DEF ReliableKept
  <2>1. kb # NoTable /\ Keeps(kb, kb', gone) BY <1>1
  <2>2. p \in Contacts \ gone OBVIOUS
  <2> QED BY <1>3, <2>1, <2>2, ContactsKept
<1> QED BY <1>3, <1>4

LEMMA RunningPingIs ==
  ASSUME TableInv, NEW s \in Slots, slots[s].at \in {"dial", "settle"}
  PROVE  slots[s] \in RunningPings
BY StateIs DEF TableInv, IsFit, States, Free

\* The hash of an add() or a remove() is there.
LEMMA HashedKeeps ==
  ASSUME TableInv, NEW c \in calls, Hashed(c)
  PROVE  TableInv' /\ ReliableKept
<1> USE StateIs
<1>1. /\ UNCHANGED <<running, starting, session>> /\ calls' = calls \ {c}
      /\ IsFit(State) /\ c.peer \in Peers /\ c.kind \in {"add", "remove"}
      /\ session \in Nat /\ c = [kind |-> c.kind, peer |-> c.peer]
  BY DEF TableInv, Hashed
<1>2. CASE kb = NoTable
  <2>1. Become(State) /\ Keeps(kb, State.kb, {}) BY <1>2 DEF Hashed, Keeps
  <2> QED BY <1>1, <1>2, <2>1, StepTo
<1>3. CASE kb # NoTable /\ c.kind = "add"
  <2> DEFINE t == KadAdd(State, c.peer)
  <2>1. Become(t) BY <1>3 DEF Hashed
  <2>2. IsFit(t) /\ Keeps(kb, t.kb, {}) BY <1>1, <1>3, KadAddIsFit
  <2> HIDE DEF t
  <2> QED BY <1>1, <1>3, <2>1, <2>2, StepTo
<1>4. CASE kb # NoTable /\ c.kind = "remove"
  <2> DEFINE t == KadRemove(State, c.peer)
  <2>1. Become(t) BY <1>4 DEF Hashed
  <2>2. IsFit(t) /\ Keeps(kb, t.kb, {c.peer}) BY <1>1, <1>4, KadRemoveIsFit
  <2>3. RemovedByHand(c.peer) BY <1>1, <1>4 DEF RemovedByHand
  <2> HIDE DEF t
  <2> QED BY <1>1, <1>4, <2>1, <2>2, <2>3, StepTo
<1> QED BY <1>1, <1>2, <1>3, <1>4

LEMMA PingAnsweredKeeps ==
  ASSUME TableInv, NEW s \in Slots, PingAnswered(s)
  PROVE  TableInv' /\ ReliableKept
<1> USE StateIs
<1> DEFINE t == Release(State, s)
<1>1. /\ UNCHANGED <<running, starting, session, calls>> /\ Become(t)
      /\ IsFit(State) /\ session \in Nat
  BY DEF TableInv, PingAnswered
<1>2. IsFit(t) /\ t.kb = kb BY <1>1, ReleaseIsFit
<1> HIDE DEF t
<1>3. Keeps(kb, t.kb, {}) BY <1>2 DEF Keeps
<1> QED BY <1>1, <1>2, <1>3, StepTo

\* Only a contact that failed its own ping is evicted.
LEMMA PingFailsKeeps ==
  ASSUME TableInv, NEW s \in Slots, PingFails(s)
  PROVE  TableInv' /\ ReliableKept
<1> USE StateIs
<1> DEFINE old == slots[s].old
           t == [State EXCEPT !.slots[s] = Settle(@)]
<1>1. /\ UNCHANGED <<running, starting, session, calls>> /\ old \notin Reliable
      /\ IsFit(State) /\ session \in Nat /\ slots[s] \in RunningPings
  BY RunningPingIs DEF TableInv, PingFails
<1>2. Settle(slots[s]) \in RunningPings /\ Settle(slots[s]) # Free
  BY <1>1, PingsAreNotFree DEF Settle, RunningPings
<1>3. /\ t \in States /\ t.kb = kb /\ t.waiting = waiting
      /\ t.slots = [slots EXCEPT ![s] = Settle(slots[s])]
  BY <1>1, <1>2 DEF IsFit, States
<1>4. Become(IF running /\ kb # NoTable THEN KadRemove(t, old) ELSE t) BY DEF PingFails
<1> HIDE DEF t
<1>5. \A x \in Slots : t.slots[x] # Free \/ slots[x] = Free
  BY <1>1, <1>2, <1>3 DEF IsFit, States
<1>6. IsFit(t) BY <1>1, <1>3, <1>5 DEF IsFit
<1>7. CASE running /\ kb # NoTable
  <2>1. old \in Peers BY <1>1 DEF RunningPings
  <2>2. IsFit(KadRemove(t, old)) /\ Keeps(kb, KadRemove(t, old).kb, {old})
    BY <1>3, <1>6, <1>7, <2>1, KadRemoveIsFit
  <2>3. Become(KadRemove(t, old)) BY <1>4, <1>7
  <2> QED BY <1>1, <1>7, <2>2, <2>3, StepTo
<1>8. CASE ~(running /\ kb # NoTable)
  <2>1. Become(t) BY <1>4, <1>8
  <2>2. Keeps(kb, t.kb, {}) BY <1>3 DEF Keeps
  <2> QED BY <1>1, <1>3, <1>6, <2>1, <2>2, StepTo
<1> QED BY <1>7, <1>8

LEMMA AddNewcomerKeeps ==
  ASSUME TableInv, NEW s \in Slots, AddNewcomer(s)
  PROVE  TableInv' /\ ReliableKept
<1> USE StateIs
<1> DEFINE new == slots[s].new
           t == IF running /\ kb # NoTable THEN KadAdd(State, new) ELSE State
<1>1. /\ UNCHANGED <<running, starting, session, calls>> /\ Become(Release(t, s))
      /\ IsFit(State) /\ session \in Nat
  BY DEF TableInv, AddNewcomer
<1>2. new \in Peers BY RunningPingIs DEF AddNewcomer, RunningPings
<1>3. /\ IsFit(t)
      /\ kb # NoTable => Keeps(kb, t.kb, {})
      /\ kb = NoTable => t.kb = NoTable
  <2>1. CASE running /\ kb # NoTable BY <1>1, <1>2, <2>1, KadAddIsFit
  <2>2. CASE ~(running /\ kb # NoTable) BY <1>1, <2>2 DEF Keeps
  <2> QED BY <2>1, <2>2
<1> HIDE DEF t
<1>4. IsFit(Release(t, s)) /\ Release(t, s).kb = t.kb BY <1>1, <1>3, ReleaseIsFit
<1> QED BY <1>1, <1>3, <1>4, StepTo

\* Starting, stopping and the calls that begin.
LEMMA StartStopKeeps ==
  ASSUME TableInv,
         \/ Start \/ Started \/ Stop \/ UNCHANGED vars
         \/ \E kind \in {"add", "remove"}, p \in Peers : Call(kind, p)
  PROVE  TableInv' /\ ReliableKept
<1> USE StateIs
<1> DEFINE Fit(table, ping, queue) ==
             /\ table \in {NoTable} \cup Tables
             /\ ping \in [Slots -> {Free} \cup RunningPings] /\ queue \in Seq(JobSet)
<1>1. IsFit(State) <=> Fit(kb, slots, waiting)
  BY DEF IsFit, States, State
<1>2. IsFit(State)' <=> Fit(kb', slots', waiting')
  BY DEF IsFit, States, State, Slots, Free, RunningPings, Tables, Buckets, IsBucket,
         InBucket, JobSet
<1>3. Fit(kb, slots, waiting) BY <1>1 DEF TableInv
<1>4. CASE Start \/ UNCHANGED vars
           \/ \E kind \in {"add", "remove"}, p \in Peers : Call(kind, p)
  <2>1. UNCHANGED <<kb, slots, waiting, session>> BY <1>4 DEF Start, Call, vars
  <2>2. IsFit(State)' BY <1>2, <1>3, <2>1
  <2>3. Contacts' = Contacts BY <2>1 DEF Contacts
  <2>4. calls' \subseteq [kind : {"add", "remove"}, peer : Peers]
    BY <1>4 DEF Start, Call, vars, TableInv
  <2>5. running' \in BOOLEAN /\ starting' \in BOOLEAN
    BY <1>4 DEF Start, Call, vars, TableInv
  <2> QED BY <2>1, <2>2, <2>3, <2>4, <2>5 DEF TableInv, ReliableKept
<1>5. CASE Stop
  <2>1. <<>> \in Seq(JobSet) BY EmptySeq
  <2>2. Fit(kb', slots', waiting') BY <1>3, <1>5, <2>1 DEF Stop
  <2> QED BY <1>2, <1>5, <2>2 DEF Stop, TableInv, ReliableKept
<1>6. CASE Started
  <2>1. <<>> \in Seq(Peers) /\ \A b \in Buckets : <<>> \in Seq(InBucket(b))
    BY EmptySeq
  <2>2. Len(<<>>) = 0 /\ IsInjective(<<>>) BY DEF IsInjective
  <2>6. \A b \in Buckets : IsBucket(<<>>, b)
    BY <2>1, <2>2, RoutingTableAssumption DEF IsBucket
  <2>3. [b \in Buckets |-> <<>>] \in Tables BY <2>1, <2>6 DEF Tables
  <2>4. Fit(kb', slots', waiting') BY <1>3, <1>6, <2>3 DEF Started
  <2>5. session' # session /\ session' \in Nat BY <1>6 DEF Started, TableInv
  <2> QED BY <1>2, <1>6, <2>4, <2>5 DEF Started, TableInv, ReliableKept
<1> QED BY <1>4, <1>5, <1>6

LEMMA InitTable == Init => TableInv
<1> SUFFICES ASSUME Init PROVE TableInv OBVIOUS
<1>1. State \in States /\ waiting = <<>>
  BY EmptySeq DEF Init, State, States
<1> QED BY <1>1, StateIs DEF Init, TableInv, IsFit

LEMMA NextKeeps == TableInv /\ [Next]_vars => TableInv' /\ ReliableKept
<1> SUFFICES ASSUME TableInv, [Next]_vars PROVE TableInv' /\ ReliableKept OBVIOUS
<1>1. CASE \/ Start \/ Started \/ Stop \/ UNCHANGED vars
           \/ \E kind \in {"add", "remove"}, p \in Peers : Call(kind, p)
  BY <1>1, StartStopKeeps
<1>2. ASSUME NEW c \in calls, Hashed(c) PROVE TableInv' /\ ReliableKept
  BY <1>2, HashedKeeps
<1>3. ASSUME NEW s \in Slots, PingAnswered(s) PROVE TableInv' /\ ReliableKept
  BY <1>3, PingAnsweredKeeps
<1>4. ASSUME NEW s \in Slots, PingFails(s) PROVE TableInv' /\ ReliableKept
  BY <1>4, PingFailsKeeps
<1>5. ASSUME NEW s \in Slots, AddNewcomer(s) PROVE TableInv' /\ ReliableKept
  BY <1>5, AddNewcomerKeeps
<1> QED BY <1>1, <1>2, <1>3, <1>4, <1>5 DEF Next, PingStep

LEMMA TableInvariant == Spec => []TableInv
BY InitTable, NextKeeps, PTL DEF Spec

LEMMA Consequences ==
  ASSUME TableInv
  PROVE  TypeOK
<1> USE StateIs
<1>1. IsFit(State) BY DEF TableInv
<1>2. \A b \in Buckets : InBucket(b) = {p \in Peers : BucketOf[p] = b} BY DEF InBucket
<1> QED
  BY <1>1, <1>2 DEF TableInv, TypeOK, IsFit, States, Tables, IsBucket, RunningPings

-----------------------------------------------------------------------------
(* The theorems.                                                           *)

\* All variables keep their types: above all, a bucket never holds more than
\* kBucketSize contacts, holds each of them once, and only those at its distance,
\* whatever pings end in whatever order (routing-table/index.ts:212-274).
THEOREM TableTypes == Spec => []TypeOK
BY TableInvariant, Consequences, PTL

\* A contact that answers its pings keeps its place against any flood of newcomers:
\* no step but its own removal, a stop or a new table takes it out of the table
\* (routing-table/index.ts:212-274).
THEOREM ReliableContactsStay == Spec => ReliableStay
<1>1. TableInv /\ [Next]_vars => [\A p \in Reliable \cap Contacts :
       \/ p \in Contacts'
       \/ kb' = NoTable \/ session' # session
       \/ [kind |-> "remove", peer |-> p] \in calls \ calls']_vars
  BY NextKeeps DEF ReliableKept, RemovedByHand
<1> QED BY <1>1, TableInvariant, PTL DEF Spec, ReliableStay
=============================================================================
