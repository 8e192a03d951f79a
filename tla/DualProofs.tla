---------------------------- MODULE DualProofs -----------------------------
(***************************************************************************)
(* Theorems about DualDHT and the modules it is made of. First KadIds and  *)
(* Refresh: with the full table of prefixes, the ids a refresh makes up    *)
(* belong to the buckets they are made up for, for prefixes of any width,  *)
(* and a forced round leaves no bucket out. Then the two DHTs, for any     *)
(* peers, tables, responses and providers.                                 *)
(***************************************************************************)
EXTENDS DualDHT, TLAPS, FiniteSetTheorems, SequenceTheorems, WellFoundedInduction

\* A set of natural numbers that is not empty and has a bound has a greatest element.
LEMMA BoundedHasGreatest ==
  ASSUME NEW S \in SUBSET Nat, S # {}, NEW b \in Nat, \A n \in S : n <= b
  PROVE  \E m \in S : \A n \in S : n <= m
<1> DEFINE Above(m) == {n \in S : m < n}
           F == {U \in SUBSET S : \E m \in S : U = Above(m)}
<1>1. F \subseteq FiniteSubsetsOf(S) /\ F # {}
  <2>1. \A U \in SUBSET S : IsFiniteSet(U)
    BY FS_BoundedSetOfNaturals, FS_Subset
  <2>2. PICK m \in S : TRUE OBVIOUS
  <2>3. Above(m) \in F OBVIOUS
  <2> QED BY <2>1, <2>3 DEF FiniteSubsetsOf
<1>2. PICK U \in F : \A V \in F : ~(<<V, U>> \in StrictSubsetOrdering(S))
  <2> HIDE DEF F
  <2> QED BY <1>1, FS_StrictSubsetOrderingWellFounded, WFMin
<1>3. PICK m \in S : U = Above(m) OBVIOUS
<1>4. ASSUME NEW n \in S PROVE n <= m
  <2>1. SUFFICES ASSUME m < n PROVE FALSE OBVIOUS
  <2>2. Above(n) \in F OBVIOUS
  <2>3. \A k \in S : n < k => m < k BY <2>1
  <2>4. Above(n) \subseteq U BY <2>3, <1>3
  <2>5. n \in U /\ n \notin Above(n) BY <2>1, <1>3
  <2> QED BY <2>2, <2>4, <2>5, <1>2 DEF StrictSubsetOrdering
<1> QED BY <1>4
-----------------------------------------------------------------------------
(* The ids that are made up.                                               *)

\* A prefix is a word of bits.
LEMMA PrefixWordType ==
  ASSUME NEW w \in PrefixWords
  PROVE  /\ \A k \in Bits : w[k] \in BOOLEAN
         /\ \A k \in Bits : k >= Width => ~w[k]
<1>1. PICK ones \in SUBSET (0..(Width - 1)) : w = [k \in Bits |-> k \in ones]
  BY DEF PrefixWords
<1>2. \A k \in Bits : w[k] = (k \in ones) BY <1>1
<1>3. ASSUME NEW k \in Bits PROVE w[k] \in BOOLEAN
  <2>1. w[k] = (k \in ones) BY <1>2
  <2>2. (k \in ones) = TRUE \/ (k \in ones) = FALSE OBVIOUS
  <2> QED BY <2>1, <2>2
<1>4. \A k \in Bits : k >= Width => k \notin ones BY WidthAssumption DEF Bits
<1> QED BY <1>2, <1>3, <1>4

\* The mask keeps the first cpl + 1 bits of a prefix, of which the last is toggled.
LEMMA MaskOfPrefix ==
  ASSUME NEW cpl \in Cpls, NEW k \in Bits, k >= Width - (cpl + 1), k < Width
  PROVE  ShiftLeft(AllOnes, Width - (cpl + 1))[k]
<1> DEFINE n == Width - (cpl + 1)
<1>1. k >= n /\ k - n \in Bits /\ k - n < Width
  BY WidthAssumption DEF Bits, Cpls, MAX_COMMON_PREFIX_LENGTH
<1>2. AllOnes[k - n] BY <1>1 DEF AllOnes
<1> QED BY <1>1, <1>2 DEF ShiftLeft

\* Our own prefix with one bit toggled.
LEMMA ToggledBit ==
  ASSUME NEW cpl \in Cpls, NEW k \in Bits
  PROVE  ShiftRight(TopBit, cpl)[k] = (k = Width - 1 - cpl)
<1>1. ShiftRight(TopBit, cpl)[k] = (k + cpl \in Bits /\ TopBit[k + cpl])
  BY DEF ShiftRight
<1>2. CASE k = Width - 1 - cpl
  <2>1. k + cpl \in Bits /\ k + cpl = Width - 1
    BY <1>2, WidthAssumption DEF Bits, Cpls, MAX_COMMON_PREFIX_LENGTH
  <2> QED BY <1>1, <1>2, <2>1 DEF TopBit
<1>3. CASE k # Width - 1 - cpl
  <2>1. k + cpl # Width - 1
    BY <1>3, WidthAssumption DEF Bits, Cpls, MAX_COMMON_PREFIX_LENGTH
  <2> QED BY <1>1, <1>3, <2>1 DEF TopBit
<1> QED BY <1>2, <1>3

\* The bits of the prefix that is put together: ours up to the toggled one.
LEMMA TargetBits ==
  ASSUME NEW local \in PrefixWords, NEW random \in PrefixWords, NEW cpl \in Cpls,
         NEW k \in Bits
  PROVE  LET t == TargetPrefix(local, random, cpl) IN
         /\ k >= Width => ~t[k]
         /\ k < Width /\ k >= Width - cpl => t[k] = local[k]
         /\ k = Width - 1 - cpl => t[k] # local[k]
<1> DEFINE mask == ShiftLeft(AllOnes, Width - (cpl + 1))
           toggled == Xor(local, ShiftRight(TopBit, cpl))
           t == TargetPrefix(local, random, cpl)
<1>1. t[k] = ((toggled[k] /\ mask[k]) \/ (random[k] /\ ~mask[k]))
  BY DEF TargetPrefix, Or, And, Not
<1>2. toggled[k] = (local[k] # (k = Width - 1 - cpl))
  BY ToggledBit DEF Xor
<1>3. local[k] \in BOOLEAN BY PrefixWordType
<1>4. CASE k >= Width
  <2>1. ~local[k] /\ ~random[k] BY <1>4, PrefixWordType
  <2>2. k # Width - 1 - cpl
    BY <1>4, WidthAssumption DEF Bits, Cpls, MAX_COMMON_PREFIX_LENGTH
  <2>3. ~(k < Width) BY <1>4, WidthAssumption DEF Bits
  <2>4. ~t[k] BY <2>1, <2>2, <1>1, <1>2, <1>3, Zenon
  <2> QED BY <2>2, <2>3, <2>4
<1>5. CASE k < Width /\ k >= Width - cpl
  <2>1. k # Width - 1 - cpl /\ ~(k >= Width) /\ k >= Width - (cpl + 1)
    BY <1>5, WidthAssumption DEF Bits, Cpls, MAX_COMMON_PREFIX_LENGTH
  <2>2. mask[k] BY <2>1, <1>5, MaskOfPrefix
  <2>3. t[k] = local[k] BY <2>1, <2>2, <1>1, <1>2, <1>3, Zenon
  <2> QED BY <2>1, <2>3
<1>6. CASE k = Width - 1 - cpl
  <2>1. k < Width /\ ~(k >= Width) /\ k >= Width - (cpl + 1) /\ ~(k >= Width - cpl)
    BY <1>6, WidthAssumption DEF Bits, Cpls, MAX_COMMON_PREFIX_LENGTH
  <2>2. mask[k] BY <2>1, MaskOfPrefix
  <2>3. t[k] # local[k] BY <1>6, <2>2, <1>1, <1>2, <1>3, Zenon
  <2> QED BY <2>1, <2>3
<1>7. CASE k < Width - 1 - cpl
  BY <1>7, WidthAssumption DEF Bits, Cpls, MAX_COMMON_PREFIX_LENGTH
<1>8. k >= Width \/ (k < Width /\ k >= Width - cpl) \/ k = Width - 1 - cpl \/ k < Width - 1 - cpl
  BY WidthAssumption DEF Bits, Cpls, MAX_COMMON_PREFIX_LENGTH
<1> QED BY <1>4, <1>5, <1>6, <1>7, <1>8

\* Outside of browsers, every id that a refresh makes up for a common prefix length
\* shares just that many bits with our own, whatever the random bits are and however
\* long prefixes may be (refresh.ts:177-205).
THEOREM MadeUpIdsMatch ==
  ASSUME ~Browser, NEW local \in PrefixWords, NEW cpl \in Cpls,
         NEW id \in RandomPeerIds(local, cpl)
  PROVE  InBucket(id, local, cpl)
<1>1. PICK random \in PrefixWords, rest \in PrefixWords :
        id = MakePeerId(local, random, cpl, rest)
  BY DEF RandomPeerIds
<1> DEFINE t == TargetPrefix(local, random, cpl)
<1>2. TableBits = Width BY DEF TableBits, NodeTableBits
<1>3. \A k \in Bits : t[k] => k < Width
  <2> TAKE k \in Bits
  <2>1. k >= Width => ~t[k] BY TargetBits
  <2> QED BY <2>1, WidthAssumption DEF Bits
<1>4. id = Entry(t, rest) BY <1>1, <1>2, <1>3 DEF MakePeerId, GeneratedPrefix
<1>5. ASSUME NEW k \in 0..(Width - 1) PROVE id[k] = t[k]
  <2>1. k \in Bits /\ k < Width /\ k >= Width - Width /\ k - (Width - Width) = k
    BY WidthAssumption DEF Bits
  <2>2. t[k] \in BOOLEAN BY <2>1 DEF TargetPrefix, Or
  <2> HIDE DEF t
  <2>3. id[k] = (k < Width /\ IF k >= Width - Width THEN t[k - (Width - Width)] ELSE rest[k])
    BY <1>2, <1>4, <2>1 DEF Entry
  <2> QED BY <2>1, <2>2, <2>3
<1>6. ASSUME NEW k \in 0..(Width - 1), k >= Width - cpl PROVE id[k] = local[k]
  <2>1. k \in Bits /\ k < Width BY WidthAssumption DEF Bits
  <2> QED BY <2>1, <1>5, <1>6, TargetBits
<1>7. id[Width - 1 - cpl] # local[Width - 1 - cpl]
  <2> DEFINE k == Width - 1 - cpl
  <2>1. k \in Bits /\ k \in 0..(Width - 1)
    BY WidthAssumption DEF Bits, Cpls, MAX_COMMON_PREFIX_LENGTH
  <2>2. t[k] # local[k] BY <2>1, TargetBits
  <2> QED BY <2>1, <2>2, <1>5
<1> QED BY <1>6, <1>7 DEF InBucket, Shares

-----------------------------------------------------------------------------
(* The lengths that a round finds and tracks.                              *)

\* The code finds a length, and it counts bytes.
LEMMA PrefixLengthType ==
  ASSUME NEW local, NEW id
  PROVE  PrefixLength(local, id) \in 0..(Width \div ByteBits)
<1> DEFINE b == Width \div ByteBits
           zeroBytes(n) == Shares(local, id, n * ByteBits)
           S == {n \in 0..b : zeroBytes(n)}
<1>1. b \in Nat BY WidthAssumption
<1>2. 0 \in S
  <2>1. 0 * ByteBits = 0 BY WidthAssumption
  <2>2. zeroBytes(0) BY <2>1, WidthAssumption DEF Shares
  <2> HIDE DEF b, zeroBytes
  <2> QED BY <2>2, <1>1
<1> HIDE DEF b, zeroBytes
<1>3. PICK m \in S : \A n \in S : n <= m
  <2>1. S \in SUBSET Nat /\ S # {} /\ \A n \in S : n <= b BY <1>1, <1>2
  <2> HIDE DEF S
  <2> QED BY <2>1, <1>1, BoundedHasGreatest
<1>4. m \in 0..b /\ zeroBytes(m) OBVIOUS
<1>5. m < b => ~zeroBytes(m + 1)
  <2> SUFFICES ASSUME m < b, zeroBytes(m + 1) PROVE FALSE OBVIOUS
  <2>1. m + 1 \in S BY <1>1, <1>4
  <2> QED BY <2>1, <1>1, <1>3, <1>4
<1> DEFINE wanted(n) == zeroBytes(n) /\ (n < b => ~zeroBytes(n + 1))
<1>6. \E n \in 0..b : wanted(n) BY <1>4, <1>5
<1>7. PrefixLength(local, id) = CHOOSE n \in 0..b : wanted(n)
  BY DEF PrefixLength, b, zeroBytes
<1> HIDE DEF wanted
<1>8. PrefixLength(local, id) \in 0..b BY <1>6, <1>7
<1> QED BY <1>8 DEF b

\* There is a greatest of the lengths in a table.
LEMMA MaxCommonPrefixType == MaxCommonPrefix \in Nat
<1> DEFINE b == Width \div ByteBits
           S == PrefixLengths \cup {0}
<1>1. b \in Nat BY WidthAssumption
<1>2. PrefixLengths \subseteq 0..b BY PrefixLengthType DEF PrefixLengths
<1> HIDE DEF b
<1>3. S \in SUBSET Nat /\ S # {} /\ \A n \in S : n <= b BY <1>1, <1>2
<1> HIDE DEF S
<1>4. \E m \in S : \A n \in S : n <= m BY <1>1, <1>3, BoundedHasGreatest
<1>5. Greatest(S) \in S BY <1>4 DEF Greatest
<1> QED BY <1>3, <1>5 DEF MaxCommonPrefix, S

\* A round tracks no more lengths than a prefix has bits.
LEMMA TrackedAreCpls ==
  ASSUME NEW length \in Nat
  PROVE  0..LastTracked(length) \subseteq Cpls
BY WidthAssumption DEF LastTracked, Least, Cpls, MAX_COMMON_PREFIX_LENGTH

\* Each id a task may look up is in the bucket of its length.
LEMMA AimsHit ==
  ASSUME ~Browser, localId \in PrefixWords, NEW n \in Cpls, NEW aim \in Aims[localId][n]
  PROVE  n \in aim
<1>1. PICK id \in RandomPeerIds(localId, n) : aim = BucketsOf(id, localId) BY DEF Aims
<1>2. InBucket(id, localId, n) BY MadeUpIdsMatch
<1> QED BY <1>1, <1>2 DEF BucketsOf

-----------------------------------------------------------------------------
(* Rounds.                                                                 *)

RefreshInv ==
  /\ localId \in PrefixWords /\ up \in BOOLEAN
  /\ round \in {"none", "round", "timer"}
  /\ round # "none" /\ forced /\ ~interrupted => 0..LastTracked(prefixLength) \subseteq reached

\* A forced round of a running table aims at every bucket it tracks.
LEMMA ForcedRoundReaches ==
  ASSUME ~Browser, localId \in PrefixWords, NEW running \in BOOLEAN, BeginForced(running)
  PROVE  /\ round' = "round"
         /\ ~interrupted' => 0..LastTracked(prefixLength') \subseteq reached'
<1> DEFINE length == MaxCommonPrefix
           tracked == IF running THEN 0..LastTracked(length) ELSE {}
<1>1. round' = "round" /\ interrupted' = ~running /\ prefixLength' = length
  BY DEF BeginForced
<1>2. PICK aim \in [tracked -> UNION {Aims[localId][n] : n \in Cpls}] :
        /\ \A n \in tracked : aim[n] \in Aims[localId][n]
        /\ reached' = UNION {aim[n] : n \in tracked}
  BY DEF BeginForced
<1>3. tracked \subseteq Cpls BY TrackedAreCpls, MaxCommonPrefixType
<1> HIDE DEF tracked
<1>4. ASSUME NEW n \in tracked PROVE n \in reached'
  <2>1. n \in aim[n] BY <1>2, <1>3, AimsHit
  <2> QED BY <2>1, <1>2
<1>5. tracked \subseteq reached' BY <1>4
<1>6. running => tracked = 0..LastTracked(length) BY DEF tracked
<1> QED BY <1>1, <1>5, <1>6

\* Going on in a gap forgets nothing that was reached.
LEMMA GoOnGrows ==
  ASSUME NEW i, NEW n, GoOnWith(i, n)
  PROVE  reached \subseteq reached'
BY DEF GoOnWith

\* Each step of a refresh keeps the invariant.
LEMMA RefreshInvStep ==
  ASSUME ~Browser, RefreshInv, [RefreshNext]_refreshVars
  PROVE  RefreshInv'
<1> USE DEF RefreshInv
<1>1. CASE StartTable
  <2>1. BeginForced(TRUE) /\ up' = TRUE /\ localId' = localId BY <1>1 DEF StartTable
  <2>2. forced' = TRUE BY <2>1 DEF BeginForced
  <2> QED BY <2>1, <2>2, ForcedRoundReaches
<1>2. CASE StopTable BY <1>2 DEF StopTable
<1>3. CASE RefreshTable
  <2>1. BeginForced(up) /\ up' = up /\ localId' = localId BY <1>3 DEF RefreshTable
  <2>2. forced' = TRUE BY <2>1 DEF BeginForced
  <2> QED BY <2>1, <2>2, ForcedRoundReaches
<1>4. CASE TimerFires BY <1>4 DEF TimerFires
<1>5. CASE RefreshProgress
  <2>1. /\ round' \in {round, "timer"} /\ (round' # round => round = "round")
        /\ localId' = localId /\ up' = up /\ forced' = forced
        /\ prefixLength' = prefixLength /\ interrupted' = interrupted
    BY <1>5 DEF RefreshProgress, RoundIsDone, LookupEnds, LookupFails, GapLookupEnds
  <2>2. reached \subseteq reached'
    <3>1. CASE RoundIsDone BY <3>1 DEF RoundIsDone
    <3>2. ASSUME NEW i \in Cpls, LookupEnds(i) PROVE reached \subseteq reached'
      BY <3>2, GoOnGrows DEF LookupEnds
    <3>3. ASSUME NEW i \in Cpls, LookupFails(i) PROVE reached \subseteq reached'
      BY <3>3 DEF LookupFails
    <3>4. ASSUME NEW i \in Cpls, GapLookupEnds(i) PROVE reached \subseteq reached'
      BY <3>4, GoOnGrows DEF GapLookupEnds
    <3> QED BY <1>5, <3>1, <3>2, <3>3, <3>4 DEF RefreshProgress
  <2> QED BY <2>1, <2>2
<1>6. ASSUME NEW c \in Contacts, Joins(c) \/ Leaves(c) PROVE RefreshInv'
  BY <1>6 DEF Joins, Leaves
<1>7. CASE UNCHANGED refreshVars BY <1>7 DEF refreshVars
<1> QED BY <1>1, <1>2, <1>3, <1>4, <1>5, <1>6, <1>7 DEF RefreshNext

\* Outside of browsers, a forced round that is done has begun to look up an id in each of
\* the buckets up to the number of zero bytes that the nearest contact shares with us, with
\* any contacts and any prefixes (refresh.ts:93-205, 243-262).  The buckets are divided by
\* bits, so they are not all buckets that have contacts.
THEOREM RoundsReachTheirBuckets ==
  ASSUME ~Browser
  PROVE  RefreshSpec => []BucketsRefreshed
<1>1. RefreshInit => RefreshInv BY DEF RefreshInit, RefreshInv
<1>2. RefreshInv /\ [RefreshNext]_refreshVars => RefreshInv' BY RefreshInvStep
<1>3. RefreshInv => BucketsRefreshed BY DEF RefreshInv, BucketsRefreshed
<1> QED BY <1>1, <1>2, <1>3, PTL DEF RefreshSpec

-----------------------------------------------------------------------------
\* The two DHTs.

Fields == {"stage", "waiting", "asked", "list", "left", "sending", "provs", "found",
           "heard", "told", "took", "reports"}

\* What a generator has done, and the events that have come out.
Accounted(w, kinds) ==
  /\ DOMAIN w = Fields
  /\ w.sending # <<>> => w.stage \in {"final", "threw"} /\ operation \in {"put", "provide"}
  /\ w.stage = "local" => w.provs = {} /\ ~w.found
  /\ w.provs \subseteq Providers
  /\ w.reports = [x \in Providers |-> IF x \in w.provs THEN 1 ELSE 0]
  /\ w.asked # {} => "SENDING_QUERY" \in kinds
  /\ operation = "provide" /\ w.stage # "threw" /\ w.took # {} =>
       "ADD_PROVIDER response" \in kinds
  /\ operation = "get" /\ w.found => "VALUE" \in kinds
  /\ operation = "findPeer" /\ w.found => "FINAL_PEER" \in kinds

\* Each of the kinds of events that decide has been caused by a generator.
Explains(w, kinds) ==
  /\ operation = "provide" /\ "ADD_PROVIDER response" \in kinds => w.took # {}
  /\ operation = "get" /\ "VALUE" \in kinds => w.found
  /\ operation = "get" /\ kinds \cap {"DIALING_PEER", "SENDING_QUERY"} # {} => w.asked # {}

Caused ==
  /\ operation = "provide" /\ "ADD_PROVIDER response" \in events =>
       \E d \in Dhts : walk[d].took # {}
  /\ operation = "get" /\ "VALUE" \in events => \E d \in Dhts : walk[d].found
  /\ operation = "get" /\ events \cap {"DIALING_PEER", "SENDING_QUERY"} # {} =>
       \E d \in Dhts : walk[d].asked # {}

LookupInv ==
  /\ DOMAIN walk = Dhts
  /\ \A d \in Dhts : Accounted(walk[d], events)
  /\ Caused

Decided == verdict \notin {"none", "threw"}

DualInv == LookupInv /\ (Decided => Over /\ VerdictIsTrue)

-----------------------------------------------------------------------------
LEMMA InitLookup == LookupInit => LookupInv
<1> SUFFICES ASSUME LookupInit PROVE LookupInv OBVIOUS
<1>1. DOMAIN walk = Dhts /\ events = {} BY DEF LookupInit
<1>2. ASSUME NEW d \in Dhts PROVE Accounted(walk[d], events)
  <2>1. walk[d] \in {Fresh, [Fresh EXCEPT !.stage = "unused"]} BY DEF LookupInit
  <2>2. Accounted(Fresh, {}) BY DEF Accounted, Fresh, Fields
  <2>3. Accounted([Fresh EXCEPT !.stage = "unused"], {}) BY DEF Accounted, Fresh, Fields
  <2> QED BY <1>1, <2>1, <2>2, <2>3
<1> QED BY <1>1, <1>2 DEF LookupInv, Caused

\* A step of one generator, which becomes w and emits some kinds of events.
LEMMA BecomesKeeps ==
  ASSUME NEW d \in Dhts, NEW w, NEW kinds, LookupInv,
         Becomes(d, w), Emit(kinds), UNCHANGED operation,
         Accounted(w, events \cup kinds), Explains(w, kinds),
         walk[d].asked \subseteq w.asked, walk[d].took \subseteq w.took,
         walk[d].found => w.found
  PROVE  LookupInv'
<1>1. DOMAIN walk' = Dhts /\ walk'[d] = w /\ \A e \in Dhts \ {d} : walk'[e] = walk[e]
  BY DEF LookupInv, Becomes
<1>2. events' = events \cup kinds BY DEF Emit
<1>3. ASSUME NEW e \in Dhts PROVE Accounted(walk'[e], events')
  <2>1. CASE e = d BY <1>1, <1>2, <2>1
  <2>2. CASE e # d
    <3>1. Accounted(walk[e], events) BY DEF LookupInv
    <3>2. Accounted(walk[e], events \cup kinds) BY <3>1 DEF Accounted
    <3> QED BY <1>1, <1>2, <2>2, <3>2
  <2> QED BY <2>1, <2>2
<1>4. Caused'
  <2>1. ASSUME NEW e \in Dhts
        PROVE  /\ walk[e].asked \subseteq walk'[e].asked /\ walk[e].took \subseteq walk'[e].took
               /\ walk[e].found => walk'[e].found
    BY <1>1
  <2>2. ASSUME operation = "provide", "ADD_PROVIDER response" \in events'
        PROVE  \E e \in Dhts : walk'[e].took # {}
    <3>1. CASE "ADD_PROVIDER response" \in events BY <2>1, <2>2, <3>1 DEF LookupInv, Caused
    <3>2. CASE "ADD_PROVIDER response" \in kinds BY <1>1, <2>2, <3>2 DEF Explains
    <3> QED BY <1>2, <2>2, <3>1, <3>2
  <2>3. ASSUME operation = "get", "VALUE" \in events'
        PROVE  \E e \in Dhts : walk'[e].found
    <3>1. CASE "VALUE" \in events BY <2>1, <2>3, <3>1 DEF LookupInv, Caused
    <3>2. CASE "VALUE" \in kinds BY <1>1, <2>3, <3>2 DEF Explains
    <3> QED BY <1>2, <2>3, <3>1, <3>2
  <2>4. ASSUME operation = "get", events' \cap {"DIALING_PEER", "SENDING_QUERY"} # {}
        PROVE  \E e \in Dhts : walk'[e].asked # {}
    <3>1. CASE events \cap {"DIALING_PEER", "SENDING_QUERY"} # {}
      BY <2>1, <2>4, <3>1 DEF LookupInv, Caused
    <3>2. CASE kinds \cap {"DIALING_PEER", "SENDING_QUERY"} # {}
      BY <1>1, <2>4, <3>2 DEF Explains
    <3> QED BY <1>2, <2>4, <3>1, <3>2
  <2> QED BY <2>2, <2>3, <2>4 DEF Caused
<1>5. \A e \in Dhts : Accounted(walk[e], events)' BY <1>3 DEF Accounted
<1> QED BY <1>1, <1>4, <1>5 DEF LookupInv

\* A step that changes nothing of what is accounted for except the stage.
LEMMA MovesOn ==
  ASSUME NEW d \in Dhts, NEW w, NEW kinds, LookupInv,
         Becomes(d, w), Emit(kinds), UNCHANGED operation,
         DOMAIN w = Fields,
         w.asked = walk[d].asked, w.took = walk[d].took, w.found = walk[d].found,
         w.provs = walk[d].provs, w.reports = walk[d].reports,
         w.stage # "local" /\ (walk[d].stage = "threw" => w.stage = "threw"),
         w.sending # <<>> => w.stage \in {"final", "threw"} /\ operation \in {"put", "provide"},
         Explains(w, kinds)
  PROVE  LookupInv'
<1>1. Accounted(walk[d], events) BY DEF LookupInv
<1>2. Accounted(w, events \cup kinds) BY <1>1 DEF Accounted
<1> QED BY <1>2, BecomesKeeps

\* The same for a step that emits nothing.
LEMMA MovesSilently ==
  ASSUME NEW d \in Dhts, NEW w, LookupInv,
         Becomes(d, w), UNCHANGED <<operation, events>>,
         DOMAIN w = Fields,
         w.asked = walk[d].asked, w.took = walk[d].took, w.found = walk[d].found,
         w.provs = walk[d].provs, w.reports = walk[d].reports,
         w.stage # "local" /\ (walk[d].stage = "threw" => w.stage = "threw"),
         w.sending # <<>> => w.stage \in {"final", "threw"} /\ operation \in {"put", "provide"}
  PROVE  LookupInv'
<1>1. Emit({}) BY DEF Emit
<1>2. Explains(w, {}) BY DEF Explains
<1> QED BY <1>1, <1>2, MovesOn

-----------------------------------------------------------------------------
(* The steps of a generator, one after the other.                          *)

\* The steps before the walk.
LEMMA LocalKeeps ==
  ASSUME NEW d \in Dhts, LookupInv,
         StartClosest(d) \/ FindLocal(d) \/ NotFoundLocal(d) \/ LocalThrows(d)
           \/ StoredProviders(d) \/ StoredValue(d)
  PROVE  LookupInv'
<1> DEFINE v == walk[d]
<1>0. Accounted(v, events) BY DEF LookupInv
<1>1. DOMAIN v = Fields BY <1>0 DEF Accounted
<1> USE DEF Fields
<1>2. CASE StartClosest(d)
  <2> DEFINE w == [StartsWalk(d, v) EXCEPT !.list = AddAll(<<>>, ClosestPeers(d)),
                                           !.heard = ToSet(ClosestPeers(d))]
  <2>1. Becomes(d, w) /\ UNCHANGED <<operation, events>> /\ v.stage = "local"
    BY <1>2 DEF StartClosest
  <2>2. /\ DOMAIN w = Fields /\ w.stage = "walk"
        /\ w.asked = v.asked /\ w.took = v.took /\ w.found = v.found
        /\ w.provs = v.provs /\ w.reports = v.reports /\ w.sending = v.sending
    BY <1>1 DEF StartsWalk
  <2>3. v.sending = <<>> BY <1>0, <2>1 DEF Accounted
  <2> HIDE DEF w
  <2> QED BY <2>1, <2>2, <2>3, MovesSilently
<1>3. CASE NotFoundLocal(d) \/ LocalThrows(d)
  <2>1. \E w : /\ Becomes(d, w) /\ UNCHANGED <<operation, events>>
               /\ w \in {[v EXCEPT !.stage = "sanity"], StartsWalk(d, v), [v EXCEPT !.stage = "threw"]}
    BY <1>3 DEF NotFoundLocal, LocalThrows
  <2>2. PICK w : /\ Becomes(d, w) /\ UNCHANGED <<operation, events>>
                 /\ w \in {[v EXCEPT !.stage = "sanity"], StartsWalk(d, v), [v EXCEPT !.stage = "threw"]}
    BY <2>1
  <2>3. /\ DOMAIN w = Fields /\ w.stage \in {"sanity", "walk", "threw"}
        /\ w.asked = v.asked /\ w.took = v.took /\ w.found = v.found
        /\ w.provs = v.provs /\ w.reports = v.reports /\ w.sending = v.sending
    BY <1>1, <2>2 DEF StartsWalk
  <2>4. v.sending = <<>> /\ v.stage # "threw"
    BY <1>0, <1>3 DEF Accounted, NotFoundLocal, LocalThrows
  <2> QED BY <2>2, <2>3, <2>4, MovesSilently
<1>4. CASE FindLocal(d)
  <2> DEFINE w == [v EXCEPT !.stage = "ended", !.found = TRUE]
             kinds == {"FINAL_PEER"}
  <2>1. Becomes(d, w) /\ Emit(kinds) /\ UNCHANGED operation /\ operation = "findPeer"
        /\ v.stage \in {"local", "sanity"}
    BY <1>4 DEF FindLocal
  <2>2. Accounted(w, events \cup kinds) BY <1>0, <1>1, <2>1 DEF Accounted
  <2>3. Explains(w, kinds) BY <2>1 DEF Explains
  <2>4. v.asked \subseteq w.asked /\ v.took \subseteq w.took /\ w.found BY <1>1
  <2> HIDE DEF w, kinds
  <2> QED BY <2>1, <2>2, <2>3, <2>4, BecomesKeeps
<1>5. CASE StoredProviders(d)
  <2>1. v.stage = "local" /\ operation = "findProviders" /\ UNCHANGED operation
    BY <1>5 DEF StoredProviders
  <2>2. PICK new, w, kinds :
          /\ new \in SUBSET Providers
          /\ Becomes(d, w) /\ Emit(kinds)
          /\ w \in {StartsWalk(d, Report(v, new)), [Report(v, new) EXCEPT !.stage = "ended"]}
    BY <1>5 DEF StoredProviders
  <2>3. v.provs = {} /\ v.sending = <<>> /\ v.reports = [x \in Providers |-> 0]
    BY <1>0, <2>1 DEF Accounted
  <2>4. /\ DOMAIN w = Fields /\ w.stage \in {"walk", "ended"}
        /\ w.asked = v.asked /\ w.took = v.took /\ w.found = v.found /\ w.sending = v.sending
        /\ w.provs = v.provs \cup new
        /\ w.reports = [x \in Providers |-> v.reports[x] + IF x \in new THEN 1 ELSE 0]
    BY <1>1, <2>2 DEF StartsWalk, Report
  <2>5. w.reports = [x \in Providers |-> IF x \in w.provs THEN 1 ELSE 0]
    BY <2>3, <2>4
  <2>6. w.provs \subseteq Providers BY <2>2, <2>3, <2>4
  <2>7. (w.asked # {} => v.asked # {}) /\ (w.took # {} => v.took # {}) /\ (w.found <=> v.found)
    BY <2>4
  <2>8. Accounted(w, events \cup kinds)
    <3>1. w.asked # {} => "SENDING_QUERY" \in events BY <1>0, <2>7 DEF Accounted
    <3> QED BY <2>1, <2>3, <2>4, <2>5, <2>6, <3>1 DEF Accounted
  <2>9. Explains(w, kinds) BY <2>1 DEF Explains
  <2> QED BY <2>1, <2>2, <2>4, <2>8, <2>9, BecomesKeeps
<1>6. CASE StoredValue(d)
  <2>1. v.stage = "local" /\ operation = "get" /\ UNCHANGED operation
    BY <1>6 DEF StoredValue
  <2>2. PICK stored \in BOOLEAN :
          /\ Becomes(d, [StartsWalk(d, v) EXCEPT !.found = stored])
          /\ Emit(IF stored THEN {"VALUE"} ELSE {})
    BY <1>6 DEF StoredValue
  <2> DEFINE w == [StartsWalk(d, v) EXCEPT !.found = stored]
             kinds == IF stored THEN {"VALUE"} ELSE {}
  <2>3. /\ DOMAIN w = Fields /\ w.stage = "walk"
        /\ w.asked = v.asked /\ w.took = v.took /\ w.found = stored
        /\ w.provs = v.provs /\ w.reports = v.reports /\ w.sending = v.sending
    BY <1>1 DEF StartsWalk
  <2>4. ~v.found BY <1>0, <2>1 DEF Accounted
  <2>5. "VALUE" \in kinds <=> stored OBVIOUS
  <2>6. kinds \cap {"DIALING_PEER", "SENDING_QUERY"} = {} OBVIOUS
  <2> HIDE DEF w
  <2>7. Accounted(w, events \cup kinds)
    <3> HIDE DEF kinds
    <3> QED BY <1>0, <2>1, <2>3, <2>5 DEF Accounted
  <2>8. Explains(w, kinds)
    <3> HIDE DEF kinds
    <3> QED BY <2>1, <2>3, <2>5, <2>6 DEF Explains
  <2>9. Becomes(d, w) /\ Emit(kinds) BY <2>2 DEF w
  <2> HIDE DEF kinds
  <2> QED BY <2>1, <2>3, <2>4, <2>7, <2>8, <2>9, BecomesKeeps
<1> QED BY <1>2, <1>3, <1>4, <1>5, <1>6

\* What is accounted for of w, which is v after peer p has been asked.
AfterAsking(v, p, w) ==
  /\ DOMAIN w = Fields /\ w.stage = "walk" /\ w.sending = <<>>
  /\ w.asked = v.asked \cup {p} /\ w.took = v.took /\ w.found = v.found
  /\ w.provs = v.provs /\ w.reports = v.reports

LEMMA AskedFields ==
  ASSUME NEW d \in Dhts, NEW p, NEW closer, LookupInv, walk[d].stage = "walk"
  PROVE  AfterAsking(walk[d], p, Asked(walk[d], p, closer))
<1>1. DOMAIN walk[d] = Fields BY DEF LookupInv, Accounted
<1>2. walk[d].sending = <<>> BY DEF LookupInv, Accounted
<1> QED BY <1>1, <1>2 DEF Asked, Fields, AfterAsking

\* A peer is asked, and answers or not.
LEMMA AskKeeps ==
  ASSUME NEW d \in Dhts, NEW p, LookupInv, AskFails(d, p) \/ Answers(d, p)
  PROVE  LookupInv'
<1> DEFINE v == walk[d]
<1>0. /\ Accounted(v, events) /\ v.stage = "walk" /\ UNCHANGED operation
  BY DEF LookupInv, AskFails, Answers
<1>a. \A closer : AfterAsking(v, p, Asked(v, p, closer)) BY <1>0, AskedFields
\* In all cases but that of findProviders, only asked and found change.
<1>1. ASSUME NEW w, NEW kinds, NEW closer, Becomes(d, w), Emit(kinds),
             DOMAIN w = Fields,
             w.stage = Asked(v, p, closer).stage, w.sending = Asked(v, p, closer).sending,
             w.asked = Asked(v, p, closer).asked, w.took = Asked(v, p, closer).took,
             w.provs = Asked(v, p, closer).provs, w.reports = Asked(v, p, closer).reports,
             "SENDING_QUERY" \in kinds, "ADD_PROVIDER response" \notin kinds,
             v.found => w.found,
             w.found => v.found \/ (operation = "get" /\ "VALUE" \in kinds)
                                \/ (operation = "findPeer" /\ "FINAL_PEER" \in kinds)
                                \/ operation \notin {"get", "findPeer"},
             operation = "get" /\ "VALUE" \in kinds => w.found
      PROVE  LookupInv'
  <2>1. /\ w.stage = "walk" /\ w.sending = <<>>
        /\ w.asked = v.asked \cup {p} /\ w.took = v.took
        /\ w.provs = v.provs /\ w.reports = v.reports
    BY <1>0, <1>1, <1>a DEF AfterAsking
  <2>2. Accounted(w, events \cup kinds) BY <1>0, <1>1, <2>1 DEF Accounted
  <2>3. Explains(w, kinds) BY <1>1, <2>1 DEF Explains
  <2> QED BY <1>0, <1>1, <2>1, <2>2, <2>3, BecomesKeeps
<1>2. CASE AskFails(d, p)
  <2> DEFINE w == Asked(v, p, <<>>)
             kinds == Request("QUERY_ERROR")
  <2>1. Becomes(d, w) /\ Emit(kinds) BY <1>2 DEF AskFails
  <2>2. "SENDING_QUERY" \in kinds /\ "ADD_PROVIDER response" \notin kinds /\ "VALUE" \notin kinds
    BY DEF Request
  <2>3. DOMAIN w = Fields /\ w.found = v.found BY <1>a DEF AfterAsking
  <2> HIDE DEF w, kinds
  <2>4. w = Asked(v, p, <<>>) BY DEF w
  <2> QED BY <1>1, <2>1, <2>2, <2>3, <2>4
<1>3. ASSUME NEW closer, ClosestAnswer(d, p, closer) PROVE LookupInv'
  <2> DEFINE a == Asked(v, p, closer)
             w == [a EXCEPT !.list = AddAll(@, closer), !.heard = @ \cup ToSet(closer)]
             kinds == Request("FIND_NODE response")
  <2>1. Becomes(d, w) /\ Emit(kinds) /\ operation \in FindsClosest
    BY <1>3 DEF ClosestAnswer
  <2>2. "SENDING_QUERY" \in kinds /\ "ADD_PROVIDER response" \notin kinds /\ "VALUE" \notin kinds
    BY DEF Request
  <2>3. DOMAIN a = Fields /\ a.found = v.found BY <1>a DEF AfterAsking
  <2> HIDE DEF a, kinds
  <2>4. /\ DOMAIN w = Fields /\ w.stage = a.stage /\ w.sending = a.sending
        /\ w.asked = a.asked /\ w.took = a.took
        /\ w.provs = a.provs /\ w.reports = a.reports /\ w.found = v.found
    BY <2>3 DEF Fields
  <2> HIDE DEF w
  <2> USE DEF a
  <2> QED BY <1>1, <2>1, <2>2, <2>4
<1>4. ASSUME NEW closer, PeerAnswer(d, p, closer) PROVE LookupInv'
  <2> DEFINE a == Asked(v, p, closer)
             hit == Target \in ToSet(closer)
             w == [a EXCEPT !.found = @ \/ hit]
             kinds == Request("FIND_NODE response") \cup IF hit THEN {"FINAL_PEER"} ELSE {}
  <2>1. Becomes(d, w) /\ Emit(kinds) /\ operation = "findPeer"
    BY <1>4 DEF PeerAnswer
  <2>2. /\ "SENDING_QUERY" \in kinds /\ "ADD_PROVIDER response" \notin kinds
        /\ "VALUE" \notin kinds /\ (hit => "FINAL_PEER" \in kinds)
    BY DEF Request
  <2>3. DOMAIN a = Fields /\ a.found = v.found BY <1>a DEF AfterAsking
  <2> HIDE DEF a, kinds, hit
  <2>4. /\ DOMAIN w = Fields /\ w.stage = a.stage /\ w.sending = a.sending
        /\ w.asked = a.asked /\ w.took = a.took
        /\ w.provs = a.provs /\ w.reports = a.reports /\ (w.found <=> v.found \/ hit)
    BY <2>3 DEF Fields
  <2> HIDE DEF w
  <2> USE DEF a
  <2> QED BY <1>1, <2>1, <2>2, <2>4
<1>5. ASSUME NEW closer, ValueAnswer(d, p, closer) PROVE LookupInv'
  <2>0. operation = "get" BY <1>5 DEF ValueAnswer
  <2>1. CASE Becomes(d, Asked(v, p, closer)) /\ Emit(Request("GET_VALUE response"))
    <3>1. /\ "SENDING_QUERY" \in Request("GET_VALUE response")
          /\ "ADD_PROVIDER response" \notin Request("GET_VALUE response")
          /\ "VALUE" \notin Request("GET_VALUE response")
      BY DEF Request
    <3>2. DOMAIN Asked(v, p, closer) = Fields /\ Asked(v, p, closer).found = v.found
      BY <1>a DEF AfterAsking
    <3> QED BY <1>1, <2>1, <3>1, <3>2
  <2>2. CASE /\ Becomes(d, [Asked(v, p, closer) EXCEPT !.found = TRUE])
             /\ Emit(Request("GET_VALUE response") \cup {"VALUE"})
    <3> DEFINE a == Asked(v, p, closer)
               w == [a EXCEPT !.found = TRUE]
               kinds == Request("GET_VALUE response") \cup {"VALUE"}
    <3>1. Becomes(d, w) /\ Emit(kinds) BY <2>2
    <3>2. "SENDING_QUERY" \in kinds /\ "ADD_PROVIDER response" \notin kinds /\ "VALUE" \in kinds
      BY DEF Request
    <3>3. DOMAIN a = Fields BY <1>a DEF AfterAsking
    <3> HIDE DEF a, kinds
    <3>4. /\ DOMAIN w = Fields /\ w.stage = a.stage /\ w.sending = a.sending
          /\ w.asked = a.asked /\ w.took = a.took
          /\ w.provs = a.provs /\ w.reports = a.reports /\ w.found
      BY <3>3 DEF Fields
    <3> HIDE DEF w
    <3> USE DEF a
    <3> QED BY <1>1, <2>0, <3>1, <3>2, <3>4
  <2>3. CASE Becomes(d, Asked(v, p, <<>>)) /\ Emit(Request("QUERY_ERROR"))
    <3>1. /\ "SENDING_QUERY" \in Request("QUERY_ERROR")
          /\ "ADD_PROVIDER response" \notin Request("QUERY_ERROR")
          /\ "VALUE" \notin Request("QUERY_ERROR")
      BY DEF Request
    <3>2. DOMAIN Asked(v, p, <<>>) = Fields /\ Asked(v, p, <<>>).found = v.found
      BY <1>a DEF AfterAsking
    <3> QED BY <1>1, <2>3, <3>1, <3>2
  <2> QED BY <1>5, <2>1, <2>2, <2>3 DEF ValueAnswer
<1>6. ASSUME NEW closer, ProvidersAnswer(d, p, closer) PROVE LookupInv'
  <2>1. operation = "findProviders" BY <1>6 DEF ProvidersAnswer
  <2>2. PICK named \in SUBSET Providers :
          LET new == named \ v.provs
              w == Report(Asked(v, p, closer), new)
          IN /\ Becomes(d, IF Cardinality(w.provs) = K THEN [w EXCEPT !.stage = "ended"] ELSE w)
             /\ Emit(Request("GET_PROVIDERS response")
                     \cup IF new = {} THEN {} ELSE {"PROVIDER"})
    BY <1>6 DEF ProvidersAnswer
  <2> DEFINE new == named \ v.provs
             a == Asked(v, p, closer)
             r == Report(a, new)
             w == IF Cardinality(r.provs) = K THEN [r EXCEPT !.stage = "ended"] ELSE r
             kinds == Request("GET_PROVIDERS response")
                      \cup IF new = {} THEN {} ELSE {"PROVIDER"}
  <2>3. Becomes(d, w) /\ Emit(kinds) BY <2>2
  <2>4. "SENDING_QUERY" \in kinds BY DEF Request
  <2>5. /\ DOMAIN a = Fields /\ a.stage = "walk" /\ a.sending = <<>>
        /\ a.asked = v.asked \cup {p} /\ a.took = v.took /\ a.found = v.found
        /\ a.provs = v.provs /\ a.reports = v.reports
    BY <1>a DEF AfterAsking
  <2>6. new \subseteq Providers /\ new \cap v.provs = {} OBVIOUS
  <2> HIDE DEF a, kinds, new
  <2>7. /\ DOMAIN r = Fields /\ r.stage = "walk" /\ r.sending = <<>>
        /\ r.asked = v.asked \cup {p} /\ r.took = v.took /\ r.found = v.found
        /\ r.provs = v.provs \cup new
        /\ r.reports = [x \in Providers |-> v.reports[x] + IF x \in new THEN 1 ELSE 0]
    BY <2>5 DEF Report, Fields
  <2> HIDE DEF r
  <2>8. /\ DOMAIN w = Fields /\ w.stage \in {"walk", "ended"} /\ w.sending = <<>>
        /\ w.asked = r.asked /\ w.took = r.took /\ w.found = r.found
        /\ w.provs = r.provs /\ w.reports = r.reports
    BY <2>7 DEF Fields
  <2> HIDE DEF w
  <2>9. v.provs \subseteq Providers /\ v.reports = [x \in Providers |-> IF x \in v.provs THEN 1 ELSE 0]
    BY <1>0 DEF Accounted
  <2>10. w.reports = [x \in Providers |-> IF x \in w.provs THEN 1 ELSE 0]
    BY <2>6, <2>7, <2>8, <2>9
  <2>11. Accounted(w, events \cup kinds)
    BY <2>1, <2>4, <2>6, <2>7, <2>8, <2>9, <2>10 DEF Accounted
  <2>12. Explains(w, kinds) BY <2>1 DEF Explains
  <2> QED BY <1>0, <2>3, <2>7, <2>8, <2>11, <2>12, BecomesKeeps
<1> QED BY <1>2, <1>3, <1>4, <1>5, <1>6 DEF Answers

\* The walk ends.
LEMMA WalkIsOver ==
  ASSUME NEW d \in Dhts, LookupInv, WalkEnds(d) \/ WalkThrows(d)
  PROVE  LookupInv'
<1> DEFINE v == walk[d]
<1>0. /\ DOMAIN v = Fields /\ v.sending = <<>> /\ v.stage = "walk" /\ UNCHANGED operation
  BY DEF LookupInv, Accounted, WalkEnds, WalkThrows
<1>1. CASE WalkEnds(d)
  <2> DEFINE w == AfterWalk(v)
             kinds == CASE operation = "findPeer" /\ ~v.found -> {"QUERY_ERROR"}
                        [] operation = "get" /\ v.found -> {"VALUE"}
                        [] OTHER -> {}
  <2>1. Becomes(d, w) /\ Emit(kinds) BY <1>1 DEF WalkEnds
  <2>2. /\ "ADD_PROVIDER response" \notin kinds
        /\ operation = "get" /\ "VALUE" \in kinds => v.found
        /\ kinds \cap {"DIALING_PEER", "SENDING_QUERY"} = {}
    OBVIOUS
  <2>3. /\ DOMAIN w = Fields /\ w.stage \in {"final", "ended"} /\ w.sending = <<>>
        /\ w.asked = v.asked /\ w.took = v.took /\ w.found = v.found
        /\ w.provs = v.provs /\ w.reports = v.reports
    BY <1>0 DEF AfterWalk, Fields
  <2> HIDE DEF w, kinds
  <2>4. Explains(w, kinds) BY <2>2, <2>3 DEF Explains
  <2> QED BY <1>0, <2>1, <2>3, <2>4, MovesOn
<1>2. CASE WalkThrows(d)
  <2> DEFINE w == [v EXCEPT !.stage = "threw"]
  <2>1. Becomes(d, w) /\ UNCHANGED events BY <1>2 DEF WalkThrows
  <2>2. /\ DOMAIN w = Fields /\ w.stage = "threw" /\ w.sending = <<>>
        /\ w.asked = v.asked /\ w.took = v.took /\ w.found = v.found
        /\ w.provs = v.provs /\ w.reports = v.reports
    BY <1>0 DEF Fields
  <2> HIDE DEF w
  <2> QED BY <1>0, <2>1, <2>2, MovesSilently
<1> QED BY <1>1, <1>2

\* The peers at the end are yielded, or sent messages.
LEMMA FinalKeeps ==
  ASSUME NEW d \in Dhts, LookupInv,
         YieldFinal(d) \/ SendFinal(d) \/ FinalThrows(d) \/ FinalEnds(d)
  PROVE  LookupInv'
<1> DEFINE v == walk[d]
<1>0. /\ DOMAIN v = Fields /\ v.stage = "final" /\ UNCHANGED operation
      /\ v.sending # <<>> => operation \in {"put", "provide"}
  BY DEF LookupInv, Accounted, YieldFinal, SendFinal, FinalThrows, FinalEnds
<1>1. CASE YieldFinal(d)
  <2> DEFINE w == NextFinal(d)
             kinds == {"FINAL_PEER"}
  <2>1. Becomes(d, w) /\ Emit(kinds) BY <1>1 DEF YieldFinal
  <2>2. Explains(w, kinds) BY DEF Explains
  <2>3. /\ DOMAIN w = Fields /\ w.stage = "final" /\ w.sending = v.sending
        /\ w.asked = v.asked /\ w.took = v.took /\ w.found = v.found
        /\ w.provs = v.provs /\ w.reports = v.reports
    BY <1>0 DEF NextFinal, Fields
  <2> HIDE DEF w, kinds
  <2> QED BY <1>0, <2>1, <2>2, <2>3, MovesOn
<1>2. CASE SendFinal(d)
  <2> DEFINE n == NextFinal(d)
             w == [n EXCEPT !.sending = Append(@, Head(v.left))]
  <2>1. Becomes(d, w) /\ UNCHANGED events /\ operation \in {"put", "provide"}
    BY <1>2 DEF SendFinal
  <2>2. /\ DOMAIN n = Fields /\ n.stage = "final"
        /\ n.asked = v.asked /\ n.took = v.took /\ n.found = v.found
        /\ n.provs = v.provs /\ n.reports = v.reports
    BY <1>0 DEF NextFinal, Fields
  <2> HIDE DEF n
  <2>3. /\ DOMAIN w = Fields /\ w.stage = "final"
        /\ w.asked = v.asked /\ w.took = v.took /\ w.found = v.found
        /\ w.provs = v.provs /\ w.reports = v.reports
    BY <2>2 DEF Fields
  <2> HIDE DEF w
  <2> QED BY <1>0, <2>1, <2>3, MovesSilently
<1>3. CASE FinalThrows(d)
  <2> DEFINE w == [v EXCEPT !.stage = "threw"]
  <2>1. Becomes(d, w) /\ UNCHANGED events BY <1>3 DEF FinalThrows
  <2>2. /\ DOMAIN w = Fields /\ w.stage = "threw" /\ w.sending = v.sending
        /\ w.asked = v.asked /\ w.took = v.took /\ w.found = v.found
        /\ w.provs = v.provs /\ w.reports = v.reports
    BY <1>0 DEF Fields
  <2> HIDE DEF w
  <2> QED BY <1>0, <2>1, <2>2, MovesSilently
<1>4. CASE FinalEnds(d)
  <2> DEFINE w == [v EXCEPT !.stage = "ended"]
  <2>1. Becomes(d, w) /\ UNCHANGED events /\ v.sending = <<>> BY <1>4 DEF FinalEnds
  <2>2. /\ DOMAIN w = Fields /\ w.stage = "ended" /\ w.sending = v.sending
        /\ w.asked = v.asked /\ w.took = v.took /\ w.found = v.found
        /\ w.provs = v.provs /\ w.reports = v.reports
    BY <1>0 DEF Fields
  <2> HIDE DEF w
  <2> QED BY <1>0, <2>1, <2>2, MovesSilently
<1> QED BY <1>1, <1>2, <1>3, <1>4

\* A message is answered or fails, also when the generator has thrown.
LEMMA SentKeeps ==
  ASSUME NEW d \in Dhts, NEW i, LookupInv, SendSucceeds(d, i) \/ SendFails(d, i)
  PROVE  LookupInv'
<1> DEFINE v == walk[d]
           p == v.sending[i]
           t == Told(d, i)
<1>0. /\ Accounted(v, events) /\ v.sending # <<>> /\ UNCHANGED operation
  <2>1. i \in DOMAIN v.sending /\ UNCHANGED operation BY DEF SendSucceeds, SendFails
  <2>2. ASSUME v.sending = <<>> PROVE DOMAIN v.sending = {} BY <2>2
  <2> QED BY <2>1, <2>2 DEF LookupInv
<1>1. v.stage \in {"final", "threw"} /\ operation \in {"put", "provide"}
  BY <1>0 DEF Accounted
<1>2. /\ DOMAIN t = Fields /\ t.stage = v.stage
      /\ t.asked = v.asked /\ t.took = v.took /\ t.found = v.found
      /\ t.provs = v.provs /\ t.reports = v.reports
  BY <1>0 DEF Accounted, Told, Fields
<1> HIDE DEF t, p
<1>3. CASE SendFails(d, i)
  <2> DEFINE kinds == Request("QUERY_ERROR")
  <2>1. Becomes(d, t) BY <1>3 DEF SendFails, t
  <2>2. CASE v.stage = "threw"
    <3>1. UNCHANGED events BY <1>3, <2>2 DEF SendFails, EmitSent
    <3> QED BY <1>0, <1>1, <1>2, <2>1, <3>1, MovesSilently
  <2>3. CASE v.stage # "threw"
    <3>1. Emit(kinds) BY <1>3, <2>3 DEF SendFails, EmitSent
    <3>2. "ADD_PROVIDER response" \notin kinds BY DEF Request
    <3> HIDE DEF kinds
    <3>3. Explains(t, kinds) BY <1>1, <3>2 DEF Explains
    <3> QED BY <1>0, <1>1, <1>2, <2>1, <3>1, <3>3, MovesOn
  <2> QED BY <2>2, <2>3
<1>4. CASE SendSucceeds(d, i)
  <2> DEFINE w == [t EXCEPT !.took = @ \cup {p}]
             kinds == IF v.stage = "threw" THEN {}
                      ELSE Request(IF operation = "put" THEN "PUT_VALUE response"
                                   ELSE "ADD_PROVIDER response")
  <2>1. Becomes(d, w) BY <1>4 DEF SendSucceeds, t, p
  <2>2. Emit(kinds) BY <1>4 DEF SendSucceeds, EmitSent, Emit
  <2>3. operation = "provide" /\ v.stage # "threw" => "ADD_PROVIDER response" \in kinds
    BY DEF Request
  <2>4. /\ DOMAIN w = Fields /\ w.stage = v.stage
        /\ w.asked = v.asked /\ w.took = v.took \cup {p} /\ w.found = v.found
        /\ w.provs = v.provs /\ w.reports = v.reports
    BY <1>2 DEF Fields
  <2> HIDE DEF w, kinds
  <2>5. Accounted(w, events \cup kinds) BY <1>0, <1>1, <2>3, <2>4 DEF Accounted
  <2>6. Explains(w, kinds) BY <1>1, <2>4 DEF Explains
  <2> QED BY <1>0, <2>1, <2>2, <2>4, <2>5, <2>6, BecomesKeeps
<1> QED BY <1>3, <1>4

LEMMA LookupKeeps == LookupInv /\ LookupNext => LookupInv'
<1> SUFFICES ASSUME LookupInv, LookupNext PROVE LookupInv' OBVIOUS
<1>1. CASE Identified
  BY <1>1 DEF Identified, LookupInv, Accounted, Caused
<1>2. ASSUME NEW d \in Dhts, LookupStep(d) PROVE LookupInv'
  BY <1>2, LocalKeeps, AskKeeps, WalkIsOver, FinalKeeps, SentKeeps DEF LookupStep
<1> QED BY <1>1, <1>2 DEF LookupNext

LEMMA NothingChanges ==
  ASSUME UNCHANGED <<operation, walk, events>>
  PROVE  (LookupInv => LookupInv') /\ (Over => Over')
<1>1. \A d \in Dhts : Accounted(walk[d], events) => Accounted(walk[d], events)'
  BY DEF Accounted
<1>2. Caused => Caused' BY DEF Caused
<1> QED BY <1>1, <1>2 DEF LookupInv, Over

-----------------------------------------------------------------------------
(* The verdict.                                                            *)

\* When all generators are done, nothing happens to them any more.
LEMMA NothingAfterTheEnd ==
  ASSUME LookupInv, Over, LookupNext
  PROVE  UNCHANGED <<operation, walk, events>>
<1>1. ASSUME NEW d \in Dhts, LookupStep(d) PROVE FALSE
  <2>1. walk[d].stage \in {"unused", "ended"} /\ walk[d].sending = <<>>
    BY DEF Over, LookupInv, Accounted
  <2>2. DOMAIN walk[d].sending = {} BY <2>1
  <2> QED BY <1>1, <2>1, <2>2
       DEF LookupStep, StartClosest, FindLocal, NotFoundLocal, StoredProviders, StoredValue,
           LocalThrows, AskFails, Answers, WalkEnds, WalkThrows, YieldFinal, SendFinal,
           FinalThrows, FinalEnds, SendSucceeds, SendFails
<1> QED BY <1>1 DEF LookupNext, Identified

\* The verdict of a caller that has seen the events of all generators to their end.
LEMMA EndTellsTheTruth ==
  ASSUME LookupInv, Ends
  PROVE  VerdictIsTrue'
<1>0. /\ UNCHANGED <<operation, walk, events>> /\ Over
      /\ \A d \in Dhts : Accounted(walk[d], events)
      /\ Caused
  BY DEF Ends, LookupInv, lookupVars
<1> DEFINE took == UNION {walk[d].took : d \in Dhts}
           asked == UNION {walk[d].asked : d \in Dhts}
           found == \E d \in Dhts : walk[d].found
<1>1. ASSUME NEW d \in Dhts PROVE walk[d].stage # "threw" BY <1>0 DEF Over
<1>2. operation = "provide" => (took # {} <=> "ADD_PROVIDER response" \in events)
  <2>1. ASSUME operation = "provide", took # {} PROVE "ADD_PROVIDER response" \in events
    <3>1. PICK d \in Dhts : walk[d].took # {} BY <2>1
    <3> QED BY <1>0, <1>1, <2>1, <3>1 DEF Accounted
  <2>2. ASSUME operation = "provide", "ADD_PROVIDER response" \in events PROVE took # {}
    <3>1. PICK d \in Dhts : walk[d].took # {} BY <1>0, <2>2 DEF Caused
    <3> QED BY <3>1
  <2> HIDE DEF took
  <2> QED BY <2>1, <2>2
<1>3. operation = "get" => (found <=> "VALUE" \in events)
  BY <1>0 DEF Accounted, Caused
<1>4. asked # {} => "SENDING_QUERY" \in events
  BY <1>0 DEF Accounted
<1>5. operation = "get" /\ events \cap {"DIALING_PEER", "SENDING_QUERY"} # {} => asked # {}
  BY <1>0 DEF Caused
<1>6. operation = "findPeer" /\ found => "FINAL_PEER" \in events
  BY <1>0 DEF Accounted
<1>7. took' = took /\ asked' = asked /\ (found' <=> found) BY <1>0
<1> HIDE DEF took, asked, found
<1>8. /\ operation = "provide" => /\ verdict' = "failed" => took = {}
                                  /\ verdict' = "ok" => took # {}
      /\ verdict' = "no peers" => asked = {} /\ ~found
      /\ verdict' = "not found" => asked # {} /\ ~found
      /\ operation = "get" /\ verdict' = "ok" => found
      /\ verdict' = "lookup failed" => asked = {} /\ ~found
  <2>1. CASE Put \/ GetClosestPeers \/ FindProviders
    BY <2>1 DEF Put, GetClosestPeers, FindProviders
  <2>2. CASE Provide BY <1>2, <2>2 DEF Provide
  <2>3. CASE Get BY <1>3, <1>4, <1>5, <2>3 DEF Get
  <2>4. CASE FindPeer BY <1>4, <1>6, <2>4 DEF FindPeer
  <2> QED BY <2>1, <2>2, <2>3, <2>4 DEF Ends
<1> QED BY <1>0, <1>7, <1>8 DEF VerdictIsTrue, took, asked, found

LEMMA DualStepKeeps == DualInv /\ [DualNext]_vars => DualInv'
<1> SUFFICES ASSUME DualInv, [DualNext]_vars PROVE DualInv' OBVIOUS
<1>1. CASE Ends
  <2>1. UNCHANGED <<operation, walk, events>> /\ Over BY <1>1 DEF Ends, lookupVars
  <2>2. LookupInv' /\ Over' BY <2>1, NothingChanges DEF DualInv
  <2>3. VerdictIsTrue' BY <1>1, EndTellsTheTruth DEF DualInv
  <2> QED BY <2>2, <2>3 DEF DualInv
<1>2. CASE Throws
  <2>1. UNCHANGED <<operation, walk, events>> /\ ~Decided'
    BY <1>2 DEF Throws, lookupVars, Decided
  <2> QED BY <2>1, NothingChanges DEF DualInv
<1>3. CASE LookupNext /\ UNCHANGED verdict
  <2>1. LookupInv' BY <1>3, LookupKeeps DEF DualInv
  <2>2. CASE Decided
    <3>1. UNCHANGED <<operation, walk, verdict>> /\ Over /\ VerdictIsTrue
      BY <1>3, <2>2, NothingAfterTheEnd DEF DualInv
    <3>2. Over' /\ VerdictIsTrue' BY <3>1 DEF Over, VerdictIsTrue
    <3> QED BY <2>1, <3>2 DEF DualInv
  <2>3. CASE ~Decided BY <1>3, <2>1, <2>3 DEF DualInv, Decided
  <2> QED BY <2>2, <2>3
<1>4. CASE RefreshRoutingTable \/ UNCHANGED vars
  <2>1. UNCHANGED <<operation, walk, events, verdict>>
    BY <1>4 DEF RefreshRoutingTable, dualVars, vars, lookupVars
  <2>2. VerdictIsTrue => VerdictIsTrue' BY <2>1 DEF VerdictIsTrue
  <2> QED BY <2>1, <2>2, NothingChanges DEF DualInv, Decided
<1> QED BY <1>1, <1>2, <1>3, <1>4 DEF DualNext, Serve

LEMMA DualInvHolds == DualSpec => []DualInv
<1>1. DualInit => DualInv BY InitLookup DEF DualInit, DualInv, Decided
<1> QED BY <1>1, DualStepKeeps, PTL DEF DualSpec

-----------------------------------------------------------------------------
\* The caller of the dual DHT is told the truth, whatever the two DHTs do and in
\* whatever order their events come (dual-kad-dht.ts:111-226).
THEOREM CallersAreToldTheTruth == DualSpec => []VerdictIsTrue
<1>1. DualInv => VerdictIsTrue
  BY DEF DualInv, Decided, VerdictIsTrue
<1> QED BY <1>1, DualInvHolds, PTL

\* Each provider that a walk learns of is yielded exactly once, whatever the responses
\* name and however many providers there are (content-routing/index.ts:135-192).
THEOREM EachProviderOnce == DualSpec => []ProvidersYieldedOnce
<1>1. DualInv => ProvidersYieldedOnce
  BY DEF DualInv, LookupInv, Accounted, ProvidersYieldedOnce
<1> QED BY <1>1, DualInvHolds, PTL

\* Also where the dual DHT is asked to refresh, a forced round that is done has begun to
\* look up an id in each of the buckets that it counts in bytes (dual-kad-dht.ts:238-243,
\* refresh.ts:93-205, 243-262).
THEOREM DualRoundsReachTheirBuckets ==
  ASSUME ~Browser
  PROVE  DualSpec => []BucketsRefreshed
<1>1. DualInit => RefreshInv
  BY DEF DualInit, LookupCalled, RefreshCalled, RefreshInit, RefreshInv
<1>2. RefreshInv /\ [DualNext]_vars => RefreshInv'
  <2>1. [DualNext]_vars => [RefreshNext]_refreshVars
    BY DEF DualNext, Serve, RefreshRoutingTable, vars
  <2> QED BY <2>1, RefreshInvStep
<1>3. RefreshInv => BucketsRefreshed BY DEF RefreshInv, BucketsRefreshed
<1> QED BY <1>1, <1>2, <1>3, PTL DEF DualSpec
-----------------------------------------------------------------------------
(* PeerList: no peer that is left out is nearer than one in the list.      *)

LEMMA FirstFacts ==
  ASSUME NEW n \in Nat, NEW s \in Seq(Peers)
  PROVE  /\ First(n, s) \in Seq(Peers)
         /\ Len(First(n, s)) = (IF Len(s) < n THEN Len(s) ELSE n)
         /\ \A i \in 1..Len(First(n, s)) : First(n, s)[i] = s[i]
<1> DEFINE m == IF Len(s) < n THEN Len(s) ELSE n
<1>1. Len(s) \in Nat /\ m \in 0..Len(s)
  OBVIOUS
<1>2. First(n, s) = SubSeq(s, 1, m)
  BY DEF First
<1> HIDE DEF m
<1>3. /\ SubSeq(s, 1, m) \in Seq(Peers) /\ Len(SubSeq(s, 1, m)) = m
      /\ \A i \in 1..m : SubSeq(s, 1, m)[i] = s[i]
  BY <1>1
<1> QED
  BY <1>2, <1>3 DEF m

\* t is s with p after its first m elements.
Inserted(s, m, p, t) ==
  /\ t \in Seq(Peers) /\ Len(t) = Len(s) + 1
  /\ \A i \in 1..m : t[i] = s[i]
  /\ t[m + 1] = p
  /\ \A i \in (m + 2)..(Len(s) + 1) : t[i] = s[i - 1]

LEMMA InsertAtFacts ==
  ASSUME NEW s \in Seq(Peers), NEW p \in Peers, NEW m \in 0..Len(s)
  PROVE  Inserted(s, m, p, InsertAt(s, m + 1, p))
<1> DEFINE u == SubSeq(s, 1, m)
           v == SubSeq(s, m + 1, Len(s))
           w == u \o <<p>>
           t == InsertAt(s, m + 1, p)
<1>1. Len(s) \in Nat /\ m \in Nat /\ m <= Len(s)
  OBVIOUS
<1>2. u \in Seq(Peers) /\ Len(u) = m /\ \A i \in 1..m : u[i] = s[i]
  BY <1>1
<1>3. /\ v \in Seq(Peers) /\ Len(v) = Len(s) - m
      /\ \A i \in 1..(Len(s) - m) : v[i] = s[m + i]
  BY <1>1
<1>4. t = w \o v
  <2>1. (m + 1) - 1 = m
    BY <1>1
  <2> QED
    BY <2>1 DEF InsertAt
<1> HIDE DEF u, v, t
<1>5. /\ w \in Seq(Peers) /\ Len(w) = m + 1 /\ w[m + 1] = p
      /\ \A i \in 1..m : w[i] = u[i]
  BY <1>1, <1>2
<1> HIDE DEF w
<1>6. /\ t \in Seq(Peers) /\ Len(t) = Len(s) + 1
      /\ \A i \in 1..(m + 1) : t[i] = w[i]
      /\ \A i \in (m + 2)..(Len(s) + 1) : t[i] = v[i - (m + 1)]
  <2>1. /\ t \in Seq(Peers) /\ Len(t) = Len(w) + Len(v)
        /\ \A i \in 1..(Len(w) + Len(v)) :
             t[i] = IF i <= Len(w) THEN w[i] ELSE v[i - Len(w)]
    <3>1. w \in Seq(Peers) /\ v \in Seq(Peers)
      BY <1>3, <1>5
    <3> QED
      BY <1>4, <3>1, ConcatProperties
  <2>2. Len(w) + Len(v) = Len(s) + 1
    BY <1>1, <1>3, <1>5
  <2>3. \A i \in 1..(Len(s) + 1) : t[i] = IF i <= m + 1 THEN w[i] ELSE v[i - (m + 1)]
    BY <1>5, <2>1, <2>2
  <2>4. ASSUME NEW i \in (m + 2)..(Len(s) + 1)
        PROVE  t[i] = v[i - (m + 1)]
    <3>1. i \in 1..(Len(s) + 1) /\ ~(i <= m + 1)
      BY <1>1
    <3> QED
      BY <2>3, <3>1
  <2>5. ASSUME NEW i \in 1..(m + 1)
        PROVE  t[i] = w[i]
    <3>1. i \in 1..(Len(s) + 1) /\ i <= m + 1
      BY <1>1
    <3> QED
      BY <2>3, <3>1
  <2> QED
    BY <2>1, <2>2, <2>4, <2>5
<1>7. ASSUME NEW i \in (m + 2)..(Len(s) + 1)
      PROVE  t[i] = s[i - 1]
  <2>1. i - (m + 1) \in 1..(Len(s) - m) /\ m + (i - (m + 1)) = i - 1
    BY <1>1
  <2> QED
    BY <1>3, <1>6, <2>1
<1>8. ASSUME NEW i \in 1..m
      PROVE  t[i] = s[i]
  <2>1. i \in 1..(m + 1)
    BY <1>1
  <2> QED
    BY <1>2, <1>5, <1>6, <2>1
<1>9. m + 1 \in 1..(m + 1)
  BY <1>1
<1>10. Inserted(s, m, p, t)
  BY <1>5, <1>6, <1>7, <1>8, <1>9 DEF Inserted
<1> QED
  BY <1>10 DEF t

\* In a list in order the peers that are not farther come first.
LEMMA NoFartherFirst ==
  ASSUME NEW list \in Seq(Peers), InOrder(list), NEW p \in Peers
  PROVE  /\ Cardinality(NoFarther(list, p)) \in 0..Len(list)
         /\ NoFarther(list, p) = 1..Cardinality(NoFarther(list, p))
<1> DEFINE N == NoFarther(list, p)
<1>1. Len(list) \in Nat /\ DOMAIN list = 1..Len(list)
  OBVIOUS
<1>2. \A i \in DOMAIN list : Dist[list[i]] \in Nat
  BY ListAssumption
<1>3. Dist[p] \in Nat
  BY ListAssumption
<1>4. \E m \in 0..Len(list) : N = 1..m
  <2>1. CASE N = {}
    <3>1. N = 1..0
      BY <2>1
    <3> QED
      BY <1>1, <3>1
  <2>2. CASE N # {}
    <3>1. N \in SUBSET Nat /\ \A n \in N : n <= Len(list)
      BY <1>1 DEF NoFarther
    <3>2. PICK m \in N : \A n \in N : n <= m
      BY <1>1, <2>2, <3>1, BoundedHasGreatest
    <3>3. m \in 1..Len(list) /\ Dist[list[m]] <= Dist[p]
      BY <1>1 DEF NoFarther
    <3>4. ASSUME NEW i \in 1..m
          PROVE  i \in N
      <4>1. i \in DOMAIN list /\ m \in DOMAIN list /\ i <= m
        BY <1>1, <3>3
      <4>2. Dist[list[i]] <= Dist[list[m]]
        BY <4>1 DEF InOrder
      <4>3. Dist[list[i]] <= Dist[p]
        BY <1>2, <1>3, <3>3, <4>1, <4>2
      <4> QED
        BY <4>1, <4>3 DEF NoFarther
    <3>5. N = 1..m
      BY <3>1, <3>2, <3>3, <3>4 DEF NoFarther
    <3> QED
      BY <3>3, <3>5
  <2> QED
    BY <2>1, <2>2
<1>5. PICK m \in 0..Len(list) : N = 1..m
  BY <1>4
<1>6. Cardinality(1..m) = m
  BY FS_Interval
<1> QED
  BY <1>5, <1>6

\* The list is what a PeerDistanceList of capacity K is after it was offered some
\* peers: a peer that it was offered and that is not in it is no nearer than any
\* peer of the list, which is full.
Keeps(list, heard) ==
  /\ list \in Seq(Peers) /\ heard \subseteq Peers
  /\ Len(list) <= K /\ InOrder(list) /\ ToSet(list) \subseteq heard
  /\ \A o \in heard \ ToSet(list) :
       Len(list) = K /\ \A i \in DOMAIN list : Dist[list[i]] <= Dist[o]

\* Where the peers of the list are once one is inserted, and that it stays in order.
LEMMA InsertAtKeepsOrder ==
  ASSUME NEW list \in Seq(Peers), InOrder(list), NEW p \in Peers,
         NEW m \in 0..Len(list), NoFarther(list, p) = 1..m,
         NEW t, Inserted(list, m, p, t)
  PROVE  InOrder(t)
<1>1. /\ t \in Seq(Peers) /\ Len(t) = Len(list) + 1
      /\ \A i \in 1..m : t[i] = list[i]
      /\ t[m + 1] = p
      /\ \A i \in (m + 2)..(Len(list) + 1) : t[i] = list[i - 1]
  BY DEF Inserted
<1>2. /\ Len(list) \in Nat /\ m \in Nat /\ m <= Len(list)
      /\ DOMAIN list = 1..Len(list) /\ DOMAIN t = 1..(Len(list) + 1)
  BY <1>1
<1>3. Dist[p] \in Nat /\ \A i \in 1..Len(list) : Dist[list[i]] \in Nat
  BY ListAssumption
<1>4. \A i \in 1..Len(list) : IF i <= m THEN Dist[list[i]] <= Dist[p]
                              ELSE Dist[p] < Dist[list[i]]
  <2> SUFFICES ASSUME NEW i \in 1..Len(list)
               PROVE  IF i <= m THEN Dist[list[i]] <= Dist[p]
                      ELSE Dist[p] < Dist[list[i]]
    OBVIOUS
  <2>1. i \in NoFarther(list, p) <=> i <= m
    BY <1>2
  <2>2. i \in NoFarther(list, p) <=> Dist[list[i]] <= Dist[p]
    BY <1>2 DEF NoFarther
  <2> QED
    BY <1>3, <2>1, <2>2
<1>5. ASSUME NEW i \in 1..(Len(list) + 1), NEW j \in 1..(Len(list) + 1), i <= j
      PROVE  Dist[t[i]] <= Dist[t[j]]
  <2>1. CASE i = j
    <3>1. Dist[t[i]] \in Nat
      BY <1>1, <1>2, ListAssumption
    <3> QED
      BY <2>1, <3>1
  <2>2. CASE i < j /\ j <= m
    <3>1. i \in 1..m /\ j \in 1..m /\ i \in DOMAIN list /\ j \in DOMAIN list
      BY <1>2, <2>2
    <3> QED
      BY <1>1, <1>5, <3>1 DEF InOrder
  <2>3. CASE i <= m /\ j = m + 1
    <3>1. i \in 1..m /\ i \in 1..Len(list)
      BY <1>2, <2>3
    <3> QED
      BY <1>1, <1>4, <2>3, <3>1
  <2>4. CASE i <= m /\ m + 1 < j
    <3>1. /\ i \in 1..m /\ j \in (m + 2)..(Len(list) + 1) /\ i <= j - 1
          /\ i \in DOMAIN list /\ j - 1 \in DOMAIN list
      BY <1>2, <2>4
    <3> QED
      BY <1>1, <3>1 DEF InOrder
  <2>5. CASE i = m + 1 /\ m + 1 < j
    <3>1. j \in (m + 2)..(Len(list) + 1) /\ j - 1 \in 1..Len(list) /\ ~(j - 1 <= m)
      BY <1>2, <2>5
    <3>2. Dist[p] < Dist[list[j - 1]]
      BY <1>4, <3>1
    <3>3. t[i] = p /\ t[j] = list[j - 1]
      BY <1>1, <2>5, <3>1
    <3>4. Dist[list[j - 1]] \in Nat
      BY <1>3, <3>1
    <3> QED
      BY <1>3, <3>2, <3>3, <3>4
  <2>6. CASE m + 1 < i
    <3>1. /\ i \in (m + 2)..(Len(list) + 1) /\ j \in (m + 2)..(Len(list) + 1)
          /\ i - 1 \in DOMAIN list /\ j - 1 \in DOMAIN list /\ i - 1 <= j - 1
      BY <1>2, <1>5, <2>6
    <3> QED
      BY <1>1, <3>1 DEF InOrder
  <2> QED
    BY <1>2, <1>5, <2>1, <2>2, <2>3, <2>4, <2>5, <2>6
<1> QED
  BY <1>2, <1>5 DEF InOrder

LEMMA InsertKeeps ==
  ASSUME NEW list, NEW heard, Keeps(list, heard), NEW p \in Peers
  PROVE  Keeps(Insert(list, p), heard \cup {p})
<1> DEFINE m == Cardinality(NoFarther(list, p))
           t == InsertAt(list, m + 1, p)
           n == Insert(list, p)
<1>1. /\ list \in Seq(Peers) /\ InOrder(list) /\ Len(list) \in Nat
      /\ DOMAIN list = 1..Len(list) /\ Len(list) <= K /\ K \in Nat \ {0}
  BY ListAssumption DEF Keeps
<1>2. m \in 0..Len(list) /\ NoFarther(list, p) = 1..m
  BY <1>1, NoFartherFirst
<1>3. n = First(K, t)
  BY DEF Insert
<1> HIDE DEF m, t, n
<1>3a. Inserted(list, m, p, t)
  BY <1>1, <1>2, InsertAtFacts DEF t
<1>4. /\ t \in Seq(Peers) /\ Len(t) = Len(list) + 1
      /\ \A i \in 1..m : t[i] = list[i]
      /\ t[m + 1] = p
      /\ \A i \in (m + 2)..(Len(list) + 1) : t[i] = list[i - 1]
  BY <1>3a DEF Inserted
<1>5. InOrder(t) /\ DOMAIN t = 1..(Len(list) + 1)
  BY <1>1, <1>2, <1>3a, <1>4, InsertAtKeepsOrder
<1>6. /\ n \in Seq(Peers) /\ Len(n) = (IF Len(list) < K THEN Len(list) + 1 ELSE K)
      /\ DOMAIN n = 1..Len(n) /\ Len(n) \in Nat
      /\ \A i \in 1..Len(n) : n[i] = t[i] /\ i \in DOMAIN t
  <2>1. Len(t) < K <=> Len(list) + 1 < K
    BY <1>4
  <2>2. /\ n \in Seq(Peers) /\ Len(n) = (IF Len(t) < K THEN Len(t) ELSE K)
        /\ \A i \in 1..Len(n) : n[i] = t[i]
    BY <1>1, <1>3, <1>4, FirstFacts
  <2>3. Len(n) = (IF Len(list) < K THEN Len(list) + 1 ELSE K)
    BY <1>1, <1>4, <2>2
  <2> QED
    BY <1>1, <1>5, <2>2, <2>3
<1>7. InOrder(n)
  BY <1>5, <1>6 DEF InOrder
<1>8. ToSet(t) = ToSet(list) \cup {p}
  <2>1. ASSUME NEW i \in 1..(Len(list) + 1)
        PROVE  t[i] \in ToSet(list) \cup {p}
    <3>1. i \in 1..m \/ i = m + 1 \/ i \in (m + 2)..(Len(list) + 1)
      BY <1>1, <1>2
    <3>2. i \in 1..m => i \in DOMAIN list
      BY <1>1, <1>2
    <3>3. i \in (m + 2)..(Len(list) + 1) => i - 1 \in DOMAIN list
      BY <1>1, <1>2
    <3> QED
      BY <1>4, <3>1, <3>2, <3>3 DEF ToSet
  <2>2. ASSUME NEW i \in 1..Len(list)
        PROVE  list[i] \in ToSet(t)
    <3>1. CASE i <= m
      <4>1. i \in 1..m /\ i \in DOMAIN t
        BY <1>2, <1>5, <3>1
      <4> QED
        BY <1>4, <4>1 DEF ToSet
    <3>2. CASE m < i
      <4>1. i + 1 \in (m + 2)..(Len(list) + 1) /\ i + 1 \in DOMAIN t /\ (i + 1) - 1 = i
        BY <1>1, <1>2, <1>5, <3>2
      <4>2. t[i + 1] = list[i]
        BY <1>4, <4>1
      <4> QED
        BY <4>1, <4>2 DEF ToSet
    <3> QED
      BY <1>2, <3>1, <3>2
  <2>3. m + 1 \in DOMAIN t
    BY <1>1, <1>2, <1>5
  <2> QED
    BY <1>1, <1>4, <1>5, <2>1, <2>2, <2>3 DEF ToSet
<1>9. ToSet(n) \subseteq ToSet(t)
  BY <1>6 DEF ToSet
<1>10. ToSet(n) \subseteq heard \cup {p} /\ heard \cup {p} \subseteq Peers
  BY <1>8, <1>9 DEF Keeps
<1>11. ASSUME NEW o \in (heard \cup {p}) \ ToSet(n)
       PROVE  Len(n) = K /\ \A i \in DOMAIN n : Dist[n[i]] <= Dist[o]
  <2>1. Len(n) = K /\ Len(list) = K
    <3>1. CASE Len(list) < K
      <4>1. ToSet(t) \subseteq ToSet(n)
        BY <1>5, <1>6, <3>1 DEF ToSet
      <4>2. o \in heard \ ToSet(list)
        BY <1>8, <1>11, <4>1
      <4>3. Len(list) = K
        BY <4>2 DEF Keeps
      <4>4. Len(list) \in Nat /\ K \in Nat
        BY <1>1
      <4> QED
        BY <3>1, <4>3, <4>4
    <3>2. /\ Len(list) \in Nat /\ Len(list) <= K /\ K \in Nat
          /\ Len(n) = (IF Len(list) < K THEN Len(list) + 1 ELSE K)
      BY <1>1, <1>6
    <3> QED
      BY <3>1, <3>2
  <2>2. \A i \in DOMAIN t : Dist[t[i]] \in Nat
    BY <1>4, ListAssumption
  <2>3. Dist[o] \in Nat
    BY <1>10, ListAssumption
  <2>4. CASE o \in ToSet(t)
    <3>1. PICK k \in DOMAIN t : o = t[k]
      BY <2>4 DEF ToSet
    <3>2. k \notin 1..Len(n)
      BY <1>6, <1>11, <3>1 DEF ToSet
    <3>3. \A i \in DOMAIN n : i \in DOMAIN t /\ i <= k /\ n[i] = t[i]
      BY <1>1, <1>5, <1>6, <3>2
    <3> QED
      BY <1>5, <2>1, <3>1, <3>3 DEF InOrder
  <2>5. CASE o \notin ToSet(t)
    <3>1. o \in heard \ ToSet(list)
      BY <1>8, <2>5
    <3>2. \A i \in DOMAIN list : Dist[list[i]] <= Dist[o]
      BY <3>1 DEF Keeps
    <3>3. Dist[t[K + 1]] <= Dist[o] \/ m = K
      <4>1. CASE m < K
        <5>1. K + 1 \in (m + 2)..(Len(list) + 1) /\ (K + 1) - 1 \in DOMAIN list
          BY <1>1, <1>2, <2>1, <4>1
        <5> QED
          BY <1>4, <3>2, <5>1
      <4> QED
        BY <1>1, <1>2, <2>1, <4>1
    <3>4. ASSUME NEW i \in DOMAIN n
          PROVE  Dist[n[i]] <= Dist[o]
      <4>1. i \in DOMAIN t /\ n[i] = t[i] /\ i \in 1..K
        BY <1>6, <2>1
      <4>2. CASE m = K
        <5>1. i \in 1..m /\ i \in DOMAIN list
          BY <1>1, <2>1, <4>1, <4>2
        <5> QED
          BY <1>4, <3>2, <4>1, <5>1
      <4>3. CASE Dist[t[K + 1]] <= Dist[o]
        <5>1. K + 1 \in DOMAIN t /\ i <= K + 1
          BY <1>1, <1>5, <2>1, <4>1
        <5>2. Dist[t[i]] <= Dist[t[K + 1]]
          BY <1>5, <4>1, <5>1 DEF InOrder
        <5> QED
          BY <2>2, <2>3, <4>1, <4>3, <5>1, <5>2
      <4> QED
        BY <3>3, <4>2, <4>3
    <3> QED
      BY <2>1, <3>4
  <2> QED
    BY <2>4, <2>5
<1>12. Len(n) <= K
  BY <1>1, <1>6
<1>13. Keeps(n, heard \cup {p})
  BY <1>6, <1>7, <1>10, <1>11, <1>12 DEF Keeps
<1> QED
  BY <1>13 DEF n

\* Induction up to a number, for a set.
LEMMA UpTo ==
  ASSUME NEW L \in Nat, NEW S, 0 \in S, \A n \in 0..(L - 1) : n \in S => n + 1 \in S
  PROVE  \A n \in 0..L : n \in S
<1> SUFFICES ASSUME NEW n \in 0..L, n \notin S
             PROVE  FALSE
  OBVIOUS
<1> DEFINE M == {k \in 0..L : L - k \notin S}
<1>1. L - n \in M
  <2>1. L - n \in 0..L /\ L - (L - n) = n
    OBVIOUS
  <2> QED
    BY <2>1
<1>2. PICK k \in M : \A l \in M : l <= k
  <2>1. M \in SUBSET Nat
    OBVIOUS
  <2>2. \A l \in M : l <= L
    OBVIOUS
  <2> HIDE DEF M
  <2> QED
    BY <1>1, <2>1, <2>2, BoundedHasGreatest
<1>3. k \in 0..L /\ L - k \notin S
  BY <1>2
<1>4. k # L
  <2>1. L - L = 0
    OBVIOUS
  <2> QED
    BY <1>3, <2>1
<1>5. k + 1 \in 0..L /\ L - (k + 1) \in 0..(L - 1) /\ (L - (k + 1)) + 1 = L - k
  BY <1>3, <1>4
<1>6. k + 1 \notin M
  BY <1>2, <1>3
<1>7. L - (k + 1) \in S
  BY <1>5, <1>6
<1> QED
  BY <1>3, <1>5, <1>7

\* The lists that the calls of add() leave, one after the other.
LEMMA AddAllSteps ==
  ASSUME NEW list, NEW peers \in Seq(Peers)
  PROVE  \E g : /\ g[0] = list
                /\ AddAll(list, peers) = g[Len(peers)]
                /\ \A n \in 1..Len(peers) :
                     g[n] = IF peers[n] \in ToSet(list) THEN g[n - 1]
                            ELSE Insert(g[n - 1], peers[n])
<1> DEFINE L == Len(peers)
           After(l, n) == IF peers[n] \in ToSet(list) THEN l ELSE Insert(l, peers[n])
           Run(g, m) == [n \in 0..m |->
                           IF n = 0 THEN list
                           ELSE IF peers[n] \in ToSet(list) THEN g[n - 1]
                           ELSE Insert(g[n - 1], peers[n])]
           added == CHOOSE g : g = Run(g, L)
           S == {m \in 0..L : \E g : g = Run(g, m)}
<1>1. L \in Nat
  OBVIOUS
<1>2. AddAll(list, peers) = added[L]
  BY DEF AddAll
<1>3. 0 \in S
  <2> DEFINE g == [n \in 0..0 |-> list]
  <2>1. g = Run(g, 0)
    OBVIOUS
  <2> HIDE DEF g, Run
  <2> QED
    BY <1>1, <2>1
<1>4. ASSUME NEW m \in 0..(L - 1), m \in S
      PROVE  m + 1 \in S
  <2>1. PICK g : g = Run(g, m)
    BY <1>4
  <2> DEFINE h == [n \in 0..(m + 1) |-> IF n = m + 1 THEN After(g[m], m + 1) ELSE g[n]]
  <2>2. ASSUME NEW n \in 0..(m + 1)
        PROVE  h[n] = IF n = 0 THEN list ELSE After(h[n - 1], n)
    <3>1. CASE n = 0
      BY <1>1, <2>1, <3>1
    <3>2. CASE n = m + 1
      <4>1. n - 1 = m /\ m \in 0..(m + 1) /\ m # m + 1 /\ n # 0
        BY <1>1, <3>2
      <4>2. h[n - 1] = g[m] /\ h[n] = After(g[m], n)
        BY <3>2, <4>1
      <4> HIDE DEF h, After
      <4> QED
        BY <4>1, <4>2
    <3>3. CASE n # 0 /\ n # m + 1
      <4>1. /\ n \in 0..m /\ n - 1 \in 0..m /\ n - 1 \in 0..(m + 1)
            /\ n - 1 # m + 1
        BY <1>1, <3>3
      <4>2. h[n] = g[n] /\ h[n - 1] = g[n - 1]
        BY <3>3, <4>1
      <4>3. g[n] = After(g[n - 1], n)
        BY <2>1, <3>3, <4>1
      <4> HIDE DEF h, After
      <4> QED
        BY <3>3, <4>2, <4>3
    <3> QED
      BY <3>1, <3>2, <3>3
  <2>3. h = [n \in 0..(m + 1) |-> h[n]]
    OBVIOUS
  <2> HIDE DEF h
  <2>4. h = Run(h, m + 1)
    BY <2>2, <2>3
  <2>5. m + 1 \in 0..L
    BY <1>1
  <2> HIDE DEF Run
  <2> QED
    BY <2>4, <2>5
<1>5. \E g : g = Run(g, L)
  <2>1. L \in S
    <3> HIDE DEF S, L
    <3>1. L \in 0..L
      BY <1>1
    <3> QED
      BY <1>1, <1>3, <1>4, <3>1, UpTo
  <2> HIDE DEF Run
  <2> QED
    BY <2>1
<1>6. added = Run(added, L)
  <2> HIDE DEF Run
  <2> QED
    BY <1>5
<1> HIDE DEF added
<1>7. added[0] = list /\ \A n \in 1..L : added[n] = After(added[n - 1], n)
  <2>1. \A n \in 0..L : Run(added, L)[n] = IF n = 0 THEN list ELSE After(added[n - 1], n)
    OBVIOUS
  <2> HIDE DEF Run, After
  <2>2. \A n \in 0..L : added[n] = IF n = 0 THEN list ELSE After(added[n - 1], n)
    BY <1>6, <2>1
  <2>3. 0 \in 0..L /\ \A n \in 1..L : n \in 0..L /\ n # 0
    BY <1>1
  <2> QED
    BY <2>2, <2>3
<1> QED
  BY <1>2, <1>7

LEMMA AddAllKeeps ==
  ASSUME NEW list, NEW heard, Keeps(list, heard), NEW peers \in Seq(Peers)
  PROVE  Keeps(AddAll(list, peers), heard \cup ToSet(peers))
<1> DEFINE L == Len(peers)
           Offered(n) == heard \cup {peers[i] : i \in 1..n}
<1>1. L \in Nat /\ DOMAIN peers = 1..L /\ \A n \in 1..L : peers[n] \in Peers
  OBVIOUS
<1>2. PICK g : /\ g[0] = list
               /\ AddAll(list, peers) = g[L]
               /\ \A n \in 1..L :
                    g[n] = IF peers[n] \in ToSet(list) THEN g[n - 1]
                           ELSE Insert(g[n - 1], peers[n])
  BY AddAllSteps
<1> DEFINE S == {n \in 0..L : Keeps(g[n], Offered(n))}
<1> HIDE DEF L
<1>3. 0 \in S
  <2>1. Offered(0) = heard
    OBVIOUS
  <2> HIDE DEF Offered
  <2> QED
    BY <1>1, <1>2, <2>1
<1>4. ASSUME NEW n \in 0..(L - 1), n \in S
      PROVE  n + 1 \in S
  <2>1. n + 1 \in 1..L /\ (n + 1) - 1 = n /\ n + 1 \in 0..L
    BY <1>1
  <2>2. Keeps(g[n], Offered(n))
    BY <1>4
  <2>3. Offered(n + 1) = Offered(n) \cup {peers[n + 1]}
    <3>1. 1..(n + 1) = 1..n \cup {n + 1}
      BY <2>1
    <3> QED
      BY <3>1
  <2>4. CASE peers[n + 1] \in ToSet(list)
    <3>1. peers[n + 1] \in heard
      BY <2>4 DEF Keeps
    <3>2. Offered(n + 1) = Offered(n)
      BY <2>3, <3>1
    <3>3. g[n + 1] = g[n]
      BY <1>2, <2>1, <2>4
    <3> HIDE DEF Offered
    <3> QED
      BY <2>1, <2>2, <3>2, <3>3
  <2>5. CASE peers[n + 1] \notin ToSet(list)
    <3>1. g[n + 1] = Insert(g[n], peers[n + 1])
      BY <1>2, <2>1, <2>5
    <3>2. peers[n + 1] \in Peers
      BY <1>1, <2>1
    <3> HIDE DEF Offered
    <3> QED
      BY <2>1, <2>2, <2>3, <3>1, <3>2, InsertKeeps
  <2> QED
    BY <2>4, <2>5
<1>5. L \in S
  <2> HIDE DEF S
  <2>1. L \in 0..L
    BY <1>1
  <2> QED
    BY <1>1, <1>3, <1>4, <2>1, UpTo
<1>6. Offered(L) = heard \cup ToSet(peers)
  BY <1>1 DEF ToSet
<1> HIDE DEF Offered
<1> QED
  BY <1>2, <1>5, <1>6

-----------------------------------------------------------------------------
(* The contacts in order of distance.                                      *)

LEMMA HasNearest ==
  ASSUME NEW T \in SUBSET Peers, T # {}
  PROVE  \E m \in T : \A q \in T : Dist[m] <= Dist[q]
<1>1. \A q \in T : Dist[q] \in Nat
  BY ListAssumption
<1>2. PICK o \in T : TRUE
  OBVIOUS
<1> DEFINE b == Dist[o]
           M == {k \in 0..b : \E q \in T : Dist[q] = b - k}
<1>3. b \in Nat
  BY <1>1, <1>2
<1>4. 0 \in M
  <2>1. b = b - 0 /\ 0 \in 0..b
    BY <1>3
  <2> QED
    BY <1>2, <2>1
<1>5. M \in SUBSET Nat /\ \A k \in M : k <= b
  BY <1>3
<1> HIDE DEF b
<1>6. PICK k \in M : \A l \in M : l <= k
  <2> HIDE DEF M
  <2> QED
    BY <1>3, <1>4, <1>5, BoundedHasGreatest
<1>7. PICK m \in T : Dist[m] = b - k
  BY <1>6
<1>8. ASSUME NEW q \in T, Dist[q] < Dist[m]
      PROVE  FALSE
  <2>1. k \in 0..b /\ Dist[q] \in Nat
    BY <1>1, <1>6
  <2>2. b - Dist[q] \in 0..b /\ Dist[q] = b - (b - Dist[q]) /\ k < b - Dist[q]
    BY <1>3, <1>7, <1>8, <2>1
  <2>3. b - Dist[q] \in M
    BY <2>2
  <2> QED
    BY <1>3, <1>6, <2>1, <2>2, <2>3
<1> QED
  BY <1>1, <1>7, <1>8

\* s lists the peers of a set in order of distance.
Ordered(s) == \A i, j \in DOMAIN s : i < j => Dist[s[i]] < Dist[s[j]]

LEMMA ByDistanceExists ==
  ASSUME NEW set \in SUBSET Peers, IsFiniteSet(set)
  PROVE  \E s \in [1..Cardinality(set) -> set] : Ordered(s)
<1> DEFINE N == Cardinality(set)
           S == {n \in 0..N : \A T \in SUBSET set :
                   Cardinality(T) = n => \E s \in [1..n -> T] : Ordered(s)}
<1>1. N \in Nat
  BY FS_CardinalityType
<1>2. \A T \in SUBSET set : IsFiniteSet(T) /\ Cardinality(T) \in Nat /\ T \subseteq Peers
  BY FS_Subset, FS_CardinalityType
<1> HIDE DEF N
<1>3. 0 \in S
  <2> SUFFICES ASSUME NEW T \in SUBSET set
               PROVE  \E s \in [1..0 -> T] : Ordered(s)
    BY <1>1
  <2> DEFINE e == [i \in 1..0 |-> i]
  <2>1. e \in [1..0 -> T] /\ DOMAIN e = {}
    OBVIOUS
  <2> HIDE DEF e
  <2> QED
    BY <2>1 DEF Ordered
<1>4. ASSUME NEW n \in 0..(N - 1), n \in S
      PROVE  n + 1 \in S
  <2>1. n \in Nat /\ n + 1 \in 0..N
    BY <1>1
  <2> SUFFICES ASSUME NEW T \in SUBSET set, Cardinality(T) = n + 1
               PROVE  \E s \in [1..(n + 1) -> T] : Ordered(s)
    BY <2>1
  <2>2. T # {}
    <3>1. Cardinality({}) = 0
      BY FS_EmptySet
    <3> QED
      BY <2>1, <3>1
  <2>3. PICK m \in T : \A q \in T : Dist[m] <= Dist[q]
    BY <1>2, <2>2, HasNearest
  <2> DEFINE U == T \ {m}
  <2>4. Cardinality(U) = n
    <3>1. IsFiniteSet(T) /\ m \in T
      BY <1>2, <2>3
    <3>2. Cardinality(T \ {m}) = Cardinality(T) - 1
      BY <3>1, FS_RemoveElement
    <3>3. (n + 1) - 1 = n
      BY <2>1
    <3> QED
      BY <3>2, <3>3
  <2>5. U \in SUBSET set
    OBVIOUS
  <2>6. PICK s \in [1..n -> U] : Ordered(s)
    <3> HIDE DEF U
    <3> QED
      BY <1>4, <2>4, <2>5
  <2> DEFINE t == [i \in 1..(n + 1) |-> IF i = 1 THEN m ELSE s[i - 1]]
  <2>7. ASSUME NEW i \in 1..(n + 1), i # 1
        PROVE  i - 1 \in 1..n /\ s[i - 1] \in U
    <3>1. i - 1 \in 1..n
      BY <2>1, <2>7
    <3> QED
      BY <2>6, <3>1
  <2>8. t \in [1..(n + 1) -> T]
    <3>1. \A i \in 1..(n + 1) : (IF i = 1 THEN m ELSE s[i - 1]) \in T
      BY <2>7
    <3> QED
      BY <3>1
  <2>9. ASSUME NEW i \in 1..(n + 1), NEW j \in 1..(n + 1), i < j
        PROVE  Dist[t[i]] < Dist[t[j]]
    <3>1. j # 1 /\ j - 1 \in 1..n /\ s[j - 1] \in U /\ t[j] = s[j - 1]
      BY <2>1, <2>7, <2>9
    <3>2. CASE i = 1
      <4>1. Dist[m] \in Nat /\ Dist[s[j - 1]] \in Nat /\ Dist[m] # Dist[s[j - 1]]
        BY <1>2, <3>1, ListAssumption
      <4>2. Dist[m] <= Dist[s[j - 1]]
        BY <2>3, <3>1
      <4> QED
        BY <3>1, <3>2, <4>1, <4>2
    <3>3. CASE i # 1
      <4>1. i - 1 \in 1..n /\ i - 1 < j - 1 /\ t[i] = s[i - 1]
        BY <2>1, <2>7, <2>9, <3>3
      <4>2. DOMAIN s = 1..n
        BY <2>6
      <4> QED
        BY <2>6, <3>1, <4>1, <4>2 DEF Ordered
    <3> QED
      BY <3>2, <3>3
  <2>10. DOMAIN t = 1..(n + 1)
    OBVIOUS
  <2> HIDE DEF t
  <2>11. Ordered(t)
    BY <2>9, <2>10 DEF Ordered
  <2> QED
    BY <2>8, <2>11
<1>5. N \in S
  <2> HIDE DEF S
  <2>1. N \in 0..N
    BY <1>1
  <2> QED
    BY <1>1, <1>3, <1>4, <2>1, UpTo
<1> QED
  BY <1>5 DEF N

LEMMA ClosestPeersType ==
  ASSUME NEW d \in Dhts, table \in [Dhts -> Tables]
  PROVE  ClosestPeers(d) \in Seq(Peers)
<1>1. table[d] \in SUBSET Peers /\ IsFiniteSet(table[d])
  BY LookupAssumption
<1>2. ByDistance(table[d]) \in [1..Cardinality(table[d]) -> table[d]]
  <2>1. \E s \in [1..Cardinality(table[d]) -> table[d]] :
          \A i, j \in DOMAIN s : i < j => Dist[s[i]] < Dist[s[j]]
    BY <1>1, ByDistanceExists DEF Ordered
  <2> QED
    BY <2>1 DEF ByDistance
<1>3. Cardinality(table[d]) \in Nat
  BY <1>1, FS_CardinalityType
<1>4. ByDistance(table[d]) \in Seq(Peers)
  BY <1>1, <1>2, <1>3
<1> QED
  BY <1>4, FirstFacts, ListAssumption DEF ClosestPeers
-----------------------------------------------------------------------------
(* The lists of the generators, and the peers that are told.               *)

\* The list of a generator is what it was offered leaves of it; each of its peers is
\* told, being told, or left, once the walk of put or provide is over.
Listed(w) ==
  /\ Keeps(w.list, w.heard)
  /\ w.left \in Seq(Peers) /\ w.sending \in Seq(Peers)
  /\ Sent =>
       /\ w.stage \notin {"final", "ended", "threw"} => w.told = {}
       /\ w.stage = "final" => w.told \cup ToSet(w.sending) \cup ToSet(w.left) = ToSet(w.list)
       /\ w.stage = "ended" => w.told = ToSet(w.list)

ListsInv ==
  /\ table \in [Dhts -> Tables]
  /\ \A d \in Dhts : Listed(walk[d])

DualListsInv == LookupInv /\ ListsInv

LEMMA NothingOffered == Keeps(<<>>, {})
<1>1. /\ <<>> \in Seq(Peers) /\ Len(<<>>) = 0 /\ ToSet(<<>>) = {}
      /\ \A i \in DOMAIN <<>> : FALSE
  BY DEF ToSet
<1>2. 0 <= K
  BY ListAssumption
<1> QED
  BY <1>1, <1>2 DEF Keeps, InOrder

LEMMA InitLists == LookupInit => ListsInv
<1> SUFFICES ASSUME LookupInit
             PROVE  ListsInv
  OBVIOUS
<1>1. ASSUME NEW w \in {Fresh, [Fresh EXCEPT !.stage = "unused"]}
      PROVE  Listed(w)
  <2>1. /\ w.list = <<>> /\ w.heard = {} /\ w.left = <<>> /\ w.sending = <<>>
        /\ w.told = {} /\ w.stage \in {"local", "unused"}
    BY DEF Fresh
  <2>2. <<>> \in Seq(Peers)
    OBVIOUS
  <2> QED
    BY <2>1, <2>2, NothingOffered DEF Listed
<1>2. table \in [Dhts -> Tables] /\ \A d \in Dhts : walk[d] \in {Fresh, [Fresh EXCEPT !.stage = "unused"]}
  BY DEF LookupInit
<1> QED
  BY <1>1, <1>2 DEF ListsInv

\* A step of one generator.
LEMMA BecomesListed ==
  ASSUME NEW d \in Dhts, NEW w, DualListsInv,
         Becomes(d, w), UNCHANGED <<operation, table>>, Listed(w)
  PROVE  ListsInv'
<1>1. walk'[d] = w /\ \A e \in Dhts \ {d} : walk'[e] = walk[e]
  BY DEF DualListsInv, LookupInv, Becomes
<1>2. ASSUME NEW e \in Dhts
      PROVE  Listed(walk'[e])
  BY <1>1 DEF DualListsInv, ListsInv
<1>3. \A e \in Dhts : Listed(walk[e])'
  BY <1>2 DEF Listed, Sent
<1> QED
  BY <1>3 DEF DualListsInv, ListsInv

\* w has the lists of v, and goes on without them.
Alike(v, w) ==
  /\ DOMAIN w = Fields
  /\ w.list = v.list /\ w.heard = v.heard /\ w.left = v.left
  /\ w.sending = v.sending /\ w.told = v.told

LEMMA AlikeListed ==
  ASSUME NEW d \in Dhts, NEW w, DualListsInv, Alike(walk[d], w),
         Becomes(d, w), UNCHANGED <<operation, table>>,
         \/ w.stage = walk[d].stage
         \/ w.stage = "threw"
         \/ /\ walk[d].stage \notin {"final", "ended", "threw"} /\ w.stage # "final"
            /\ w.stage = "ended" => ~Sent
  PROVE  ListsInv'
<1>1. Listed(walk[d])
  BY DEF DualListsInv, ListsInv
<1>2. Listed(w)
  BY <1>1 DEF Listed, Alike
<1> QED
  BY <1>2, BecomesListed

\* The steps that look for local answers.
LEMMA LocalListed ==
  ASSUME NEW d \in Dhts, DualListsInv,
         FindLocal(d) \/ NotFoundLocal(d) \/ LocalThrows(d) \/ StoredProviders(d) \/ StoredValue(d)
  PROVE  ListsInv'
<1> DEFINE v == walk[d]
<1>1. DOMAIN v = Fields
  BY DEF DualListsInv, LookupInv, Accounted
<1>2. v.stage \in {"local", "sanity"} /\ UNCHANGED <<operation, table>>
  BY DEF FindLocal, NotFoundLocal, LocalThrows, StoredProviders, StoredValue
<1> USE DEF Fields
<1>3. ASSUME NEW stage, NEW found
      PROVE  /\ Alike(v, [v EXCEPT !.stage = stage])
             /\ [v EXCEPT !.stage = stage].stage = stage
             /\ Alike(v, [v EXCEPT !.stage = stage, !.found = found])
             /\ [v EXCEPT !.stage = stage, !.found = found].stage = stage
             /\ Alike(v, StartsWalk(d, v)) /\ StartsWalk(d, v).stage = "walk"
             /\ Alike(v, [StartsWalk(d, v) EXCEPT !.found = found])
             /\ [StartsWalk(d, v) EXCEPT !.found = found].stage = "walk"
  BY <1>1 DEF Alike, StartsWalk
<1>4. ASSUME NEW new
      PROVE  /\ Alike(v, StartsWalk(d, Report(v, new)))
             /\ StartsWalk(d, Report(v, new)).stage = "walk"
             /\ Alike(v, [Report(v, new) EXCEPT !.stage = "ended"])
             /\ [Report(v, new) EXCEPT !.stage = "ended"].stage = "ended"
  <2> DEFINE r == Report(v, new)
  <2>1. DOMAIN r = Fields /\ Alike(v, r)
    BY <1>1 DEF Alike, Report
  <2> HIDE DEF r
  <2>2. /\ Alike(v, StartsWalk(d, r)) /\ StartsWalk(d, r).stage = "walk"
        /\ Alike(v, [r EXCEPT !.stage = "ended"]) /\ [r EXCEPT !.stage = "ended"].stage = "ended"
    BY <2>1 DEF Alike, StartsWalk
  <2> QED
    BY <2>2 DEF r
<1>5. PICK w : /\ Becomes(d, w) /\ Alike(v, w)
               /\ w.stage \in {"threw", "sanity", "walk", "ended"}
               /\ w.stage = "threw" \/ operation \in {"findPeer", "findProviders", "get"}
  <2>1. CASE LocalThrows(d)
    <3>1. Becomes(d, [v EXCEPT !.stage = "threw"])
      BY <2>1 DEF LocalThrows
    <3> QED
      BY <1>3, <3>1
  <2>2. CASE FindLocal(d)
    <3>1. Becomes(d, [v EXCEPT !.stage = "ended", !.found = TRUE]) /\ operation = "findPeer"
      BY <2>2 DEF FindLocal
    <3> QED
      BY <1>3, <3>1
  <2>3. CASE NotFoundLocal(d)
    <3>1. /\ Becomes(d, [v EXCEPT !.stage = "sanity"]) \/ Becomes(d, StartsWalk(d, v))
          /\ operation = "findPeer"
      BY <2>3 DEF NotFoundLocal
    <3> QED
      BY <1>3, <3>1
  <2>4. CASE StoredProviders(d)
    <3>1. /\ operation = "findProviders"
          /\ \E new : \/ Becomes(d, StartsWalk(d, Report(v, new)))
                     \/ Becomes(d, [Report(v, new) EXCEPT !.stage = "ended"])
      BY <2>4 DEF StoredProviders
    <3> QED
      BY <1>4, <3>1
  <2>5. CASE StoredValue(d)
    <3>1. /\ operation = "get"
          /\ \E stored : Becomes(d, [StartsWalk(d, v) EXCEPT !.found = stored])
      BY <2>5 DEF StoredValue
    <3> QED
      BY <1>3, <3>1
  <2> QED
    BY <2>1, <2>2, <2>3, <2>4, <2>5
<1> QED
  BY <1>2, <1>5, AlikeListed DEF Sent

\* getClosestPeers starts with the contacts of the routing table.
LEMMA StartListed ==
  ASSUME NEW d \in Dhts, DualListsInv, StartClosest(d)
  PROVE  ListsInv'
<1> DEFINE v == walk[d]
           closest == ClosestPeers(d)
           w == [StartsWalk(d, v) EXCEPT !.list = AddAll(<<>>, closest), !.heard = ToSet(closest)]
<1>1. /\ DOMAIN v = Fields /\ Listed(v) /\ v.stage = "local"
      /\ Becomes(d, w) /\ UNCHANGED <<operation, table>>
  BY DEF DualListsInv, LookupInv, Accounted, ListsInv, StartClosest
<1>2. /\ w.stage = "walk" /\ w.list = AddAll(<<>>, closest) /\ w.heard = ToSet(closest)
      /\ w.left = v.left /\ w.sending = v.sending /\ w.told = v.told
  BY <1>1 DEF StartsWalk, Fields
<1>3. closest \in Seq(Peers)
  BY ClosestPeersType DEF DualListsInv, ListsInv
<1> HIDE DEF w, closest
<1>4. Keeps(AddAll(<<>>, closest), {} \cup ToSet(closest))
  BY <1>3, NothingOffered, AddAllKeeps
<1>5. {} \cup ToSet(closest) = ToSet(closest)
  OBVIOUS
<1>6. Listed(w)
  BY <1>1, <1>2, <1>4, <1>5 DEF Listed
<1> QED
  BY <1>1, <1>6, BecomesListed

\* A peer has been asked: only the answers of getClosestPeers touch the list.
LEMMA AskListed ==
  ASSUME NEW d \in Dhts, NEW p, DualListsInv, AskFails(d, p) \/ Answers(d, p)
  PROVE  ListsInv'
<1> DEFINE v == walk[d]
<1>1. /\ DOMAIN v = Fields /\ Listed(v) /\ v.stage = "walk" /\ UNCHANGED <<operation, table>>
  BY DEF DualListsInv, LookupInv, Accounted, ListsInv, AskFails, Answers
<1>2. ASSUME NEW closer
      PROVE  Alike(v, Asked(v, p, closer)) /\ Asked(v, p, closer).stage = "walk"
  BY <1>1 DEF Alike, Asked, Fields
<1>3. ASSUME NEW a, Alike(v, a), a.stage = "walk", NEW found
      PROVE  /\ Alike(v, [a EXCEPT !.found = found])
             /\ [a EXCEPT !.found = found].stage = "walk"
  BY <1>3 DEF Alike, Fields
<1>4. ASSUME NEW w, Becomes(d, w), Alike(v, w), w.stage = "walk" \/ (w.stage = "ended" /\ ~Sent)
      PROVE  ListsInv'
  BY <1>1, <1>4, AlikeListed
<1>5. CASE AskFails(d, p)
  BY <1>2, <1>4, <1>5 DEF AskFails
<1>6. ASSUME NEW closer \in Closer, ClosestAnswer(d, p, closer)
      PROVE  ListsInv'
  <2> DEFINE a == Asked(v, p, closer)
             w == [a EXCEPT !.list = AddAll(@, closer), !.heard = @ \cup ToSet(closer)]
  <2>1. Becomes(d, w)
    BY <1>6 DEF ClosestAnswer
  <2>2. Alike(v, a) /\ a.stage = "walk"
    BY <1>2
  <2> HIDE DEF a
  <2>3. /\ w.stage = "walk" /\ w.list = AddAll(v.list, closer)
        /\ w.heard = v.heard \cup ToSet(closer)
        /\ w.left = v.left /\ w.sending = v.sending /\ w.told = v.told
    BY <2>2 DEF Alike, Fields
  <2> HIDE DEF w
  <2>4. closer \in Seq(Peers)
    BY LookupAssumption
  <2>5. Keeps(w.list, w.heard)
    BY <1>1, <2>3, <2>4, AddAllKeeps DEF Listed
  <2>6. Listed(w)
    BY <1>1, <2>3, <2>5 DEF Listed
  <2> QED
    BY <1>1, <2>1, <2>6, BecomesListed
<1>7. ASSUME NEW closer, PeerAnswer(d, p, closer)
      PROVE  ListsInv'
  <2> DEFINE a == Asked(v, p, closer)
             hit == Target \in ToSet(closer)
  <2>1. Becomes(d, [a EXCEPT !.found = @ \/ hit])
    BY <1>7 DEF PeerAnswer
  <2>2. Alike(v, a) /\ a.stage = "walk"
    BY <1>2
  <2> HIDE DEF a, hit
  <2>3. PICK found : Becomes(d, [a EXCEPT !.found = found])
    BY <2>1
  <2> QED
    BY <1>3, <1>4, <2>2, <2>3
<1>8. ASSUME NEW closer, ValueAnswer(d, p, closer)
      PROVE  ListsInv'
  <2>1. \/ Becomes(d, Asked(v, p, closer))
        \/ Becomes(d, [Asked(v, p, closer) EXCEPT !.found = TRUE])
        \/ Becomes(d, Asked(v, p, <<>>))
    BY <1>8 DEF ValueAnswer
  <2> QED
    BY <1>2, <1>3, <1>4, <2>1
<1>9. ASSUME NEW closer, ProvidersAnswer(d, p, closer)
      PROVE  ListsInv'
  <2>1. PICK named \in SUBSET Providers :
          LET new == named \ v.provs
              w == Report(Asked(v, p, closer), new)
          IN Becomes(d, IF Cardinality(w.provs) = K THEN [w EXCEPT !.stage = "ended"] ELSE w)
    BY <1>9 DEF ProvidersAnswer
  <2> DEFINE a == Asked(v, p, closer)
             r == Report(a, named \ v.provs)
  <2>2. Becomes(d, [r EXCEPT !.stage = "ended"]) \/ Becomes(d, r)
    BY <2>1
  <2>3. Alike(v, a) /\ a.stage = "walk"
    BY <1>2
  <2> HIDE DEF a
  <2>4. Alike(v, r) /\ r.stage = "walk"
    BY <2>3 DEF Alike, Report, Fields
  <2> HIDE DEF r
  <2>5. Alike(v, [r EXCEPT !.stage = "ended"]) /\ [r EXCEPT !.stage = "ended"].stage = "ended"
    BY <2>4 DEF Alike, Fields
  <2>6. ~Sent
    BY <1>9 DEF ProvidersAnswer, Sent
  <2> QED
    BY <1>4, <2>2, <2>4, <2>5, <2>6
<1> QED
  BY <1>5, <1>6, <1>7, <1>8, <1>9 DEF Answers

\* The walk ends, and leaves the whole list to tell.
LEMMA WalkListed ==
  ASSUME NEW d \in Dhts, DualListsInv, WalkEnds(d) \/ WalkThrows(d)
  PROVE  ListsInv'
<1> DEFINE v == walk[d]
<1>1. /\ DOMAIN v = Fields /\ Listed(v) /\ v.stage = "walk" /\ v.sending = <<>>
      /\ UNCHANGED <<operation, table>>
  BY DEF DualListsInv, LookupInv, Accounted, ListsInv, WalkEnds, WalkThrows
<1>2. CASE WalkThrows(d)
  <2> DEFINE w == [v EXCEPT !.stage = "threw"]
  <2>1. Becomes(d, w) /\ Alike(v, w) /\ w.stage = "threw"
    BY <1>1, <1>2 DEF WalkThrows, Alike, Fields
  <2> QED
    BY <1>1, <2>1, AlikeListed
<1>3. CASE WalkEnds(d) /\ operation \in FindsClosest
  <2> DEFINE w == [v EXCEPT !.stage = "final", !.left = v.list, !.waiting = {}]
  <2>1. Becomes(d, w)
    BY <1>3 DEF WalkEnds, AfterWalk
  <2>2. /\ w.stage = "final" /\ w.list = v.list /\ w.heard = v.heard /\ w.left = v.list
        /\ w.sending = <<>> /\ w.told = v.told
    BY <1>1 DEF Fields
  <2> HIDE DEF w
  <2>3. ToSet(<<>>) = {} /\ v.list \in Seq(Peers)
    BY <1>1 DEF ToSet, Listed, Keeps
  <2>4. Listed(w)
    BY <1>1, <2>2, <2>3 DEF Listed
  <2> QED
    BY <1>1, <2>1, <2>4, BecomesListed
<1>4. CASE WalkEnds(d) /\ operation \notin FindsClosest
  <2> DEFINE w == [v EXCEPT !.stage = "ended", !.waiting = {}]
  <2>1. Becomes(d, w)
    BY <1>4 DEF WalkEnds, AfterWalk
  <2>2. Alike(v, w) /\ w.stage = "ended"
    BY <1>1 DEF Alike, Fields
  <2>3. ~Sent
    BY <1>4 DEF Sent, FindsClosest
  <2> QED
    BY <1>1, <2>1, <2>2, <2>3, AlikeListed
<1> QED
  BY <1>2, <1>3, <1>4

\* A message is begun: its peer goes from those that are left to those being told.
LEMMA NextIsSent ==
  ASSUME NEW left \in Seq(Peers), NEW sending \in Seq(Peers), left # <<>>
  PROVE  /\ Tail(left) \in Seq(Peers) /\ Append(sending, Head(left)) \in Seq(Peers)
         /\ ToSet(Append(sending, Head(left))) \cup ToSet(Tail(left))
              = ToSet(sending) \cup ToSet(left)
<1> DEFINE a == Append(sending, Head(left))
           t == Tail(left)
<1>1. /\ Len(left) \in Nat \ {0} /\ Len(sending) \in Nat
      /\ DOMAIN left = 1..Len(left) /\ DOMAIN sending = 1..Len(sending)
  OBVIOUS
<1>2. /\ a \in Seq(Peers) /\ DOMAIN a = 1..(Len(sending) + 1)
      /\ \A i \in 1..Len(sending) : a[i] = sending[i]
      /\ a[Len(sending) + 1] = left[1]
  BY <1>1
<1>3. /\ t \in Seq(Peers) /\ DOMAIN t = 1..(Len(left) - 1)
      /\ \A i \in 1..(Len(left) - 1) : t[i] = left[i + 1]
  BY <1>1
<1> HIDE DEF a, t
<1>4. ToSet(a) = ToSet(sending) \cup {left[1]}
  <2>1. 1..(Len(sending) + 1) = (1..Len(sending)) \cup {Len(sending) + 1}
    BY <1>1
  <2> QED
    BY <1>1, <1>2, <2>1 DEF ToSet
<1>5. ToSet(left) = {left[1]} \cup ToSet(t)
  <2>1. ASSUME NEW i \in 1..Len(left), i # 1
        PROVE  \E j \in 1..(Len(left) - 1) : t[j] = left[i]
    <3>1. i - 1 \in 1..(Len(left) - 1) /\ (i - 1) + 1 = i
      BY <1>1, <2>1
    <3> QED
      BY <1>3, <3>1
  <2>2. \A j \in 1..(Len(left) - 1) : j + 1 \in 1..Len(left)
    BY <1>1
  <2>3. 1 \in 1..Len(left)
    BY <1>1
  <2>4. /\ ToSet(left) = {left[i] : i \in 1..Len(left)}
        /\ ToSet(t) = {t[j] : j \in 1..(Len(left) - 1)}
    BY <1>1, <1>3 DEF ToSet
  <2>5. ToSet(left) \subseteq {left[1]} \cup ToSet(t)
    BY <2>1, <2>4
  <2>6. {left[1]} \cup ToSet(t) \subseteq ToSet(left)
    BY <1>3, <2>2, <2>3, <2>4
  <2> QED
    BY <2>5, <2>6
<1>6. ToSet(a) \cup ToSet(t) = ToSet(sending) \cup ToSet(left)
  BY <1>4, <1>5
<1> QED
  BY <1>2, <1>3, <1>6 DEF a, t

\* A message is over: its peer leaves those being told.
LEMMA OneIsTold ==
  ASSUME NEW sending \in Seq(Peers), NEW i \in DOMAIN sending
  PROVE  /\ RemoveAt(sending, i) \in Seq(Peers)
         /\ {sending[i]} \cup ToSet(RemoveAt(sending, i)) = ToSet(sending)
<1> DEFINE L == Len(sending)
           u == SubSeq(sending, 1, i - 1)
           v == SubSeq(sending, i + 1, Len(sending))
           r == RemoveAt(sending, i)
<1>1. L \in Nat /\ DOMAIN sending = 1..L /\ i \in 1..L
  OBVIOUS
<1>2. u \in Seq(Peers) /\ Len(u) = i - 1 /\ \A j \in 1..(i - 1) : u[j] = sending[j]
  BY <1>1
<1>3. v \in Seq(Peers) /\ Len(v) = L - i /\ \A j \in 1..(L - i) : v[j] = sending[i + j]
  BY <1>1
<1>4. r = u \o v
  BY DEF RemoveAt
<1> HIDE DEF L, u, v, r
<1>5. /\ r \in Seq(Peers) /\ Len(r) = Len(u) + Len(v)
      /\ \A j \in 1..(Len(u) + Len(v)) : r[j] = IF j <= Len(u) THEN u[j] ELSE v[j - Len(u)]
  BY <1>2, <1>3, <1>4, ConcatProperties
<1>6. Len(u) + Len(v) = L - 1
  BY <1>1, <1>2, <1>3
<1>7. DOMAIN r = 1..(L - 1)
  BY <1>5, <1>6
<1>8. \A j \in 1..(L - 1) : r[j] = sending[IF j < i THEN j ELSE j + 1]
  <2>1. ASSUME NEW j \in 1..(L - 1), j < i
        PROVE  r[j] = sending[j]
    <3>1. j \in 1..(i - 1) /\ j <= Len(u)
      BY <1>1, <1>2, <2>1
    <3> QED
      BY <1>2, <1>5, <1>6, <3>1
  <2>2. ASSUME NEW j \in 1..(L - 1), ~(j < i)
        PROVE  r[j] = sending[j + 1]
    <3>1. /\ ~(j <= Len(u)) /\ j - Len(u) = j - (i - 1)
          /\ j - (i - 1) \in 1..(L - i) /\ i + (j - (i - 1)) = j + 1
      BY <1>1, <1>2, <2>2
    <3> QED
      BY <1>3, <1>5, <1>6, <3>1
  <2> QED
    BY <2>1, <2>2
<1>9. /\ ToSet(r) = {r[j] : j \in 1..(L - 1)}
      /\ ToSet(sending) = {sending[j] : j \in 1..L}
  BY <1>1, <1>7 DEF ToSet
<1>10. ToSet(r) \subseteq ToSet(sending)
  <2>1. \A j \in 1..(L - 1) : (IF j < i THEN j ELSE j + 1) \in 1..L
    BY <1>1
  <2> QED
    BY <1>8, <1>9, <2>1
<1>11. ToSet(sending) \subseteq {sending[i]} \cup ToSet(r)
  <2>1. ASSUME NEW j \in 1..L, j # i
        PROVE  \E k \in 1..(L - 1) : r[k] = sending[j]
    <3>1. CASE j < i
      <4>1. j \in 1..(L - 1)
        BY <1>1, <3>1
      <4> QED
        BY <1>8, <3>1, <4>1
    <3>2. CASE i < j
      <4>1. j - 1 \in 1..(L - 1) /\ ~(j - 1 < i) /\ (j - 1) + 1 = j
        BY <1>1, <3>2
      <4> QED
        BY <1>8, <4>1
    <3> QED
      BY <1>1, <2>1, <3>1, <3>2
  <2> QED
    BY <1>9, <2>1
<1>12. sending[i] \in ToSet(sending)
  BY <1>1, <1>9
<1>13. {sending[i]} \cup ToSet(r) = ToSet(sending)
  BY <1>10, <1>11, <1>12
<1> QED
  BY <1>5, <1>13 DEF r

\* The peers of the list are yielded, or messages to them are begun; nothing is left of
\* them at the end.
LEMMA FinalListed ==
  ASSUME NEW d \in Dhts, DualListsInv,
         YieldFinal(d) \/ SendFinal(d) \/ FinalThrows(d) \/ FinalEnds(d)
  PROVE  ListsInv'
<1> DEFINE v == walk[d]
<1>1. /\ DOMAIN v = Fields /\ Listed(v) /\ v.stage = "final" /\ UNCHANGED <<operation, table>>
  BY DEF DualListsInv, LookupInv, Accounted, ListsInv, YieldFinal, SendFinal, FinalThrows, FinalEnds
<1>2. CASE YieldFinal(d)
  <2> DEFINE w == NextFinal(d)
  <2>1. Becomes(d, w) /\ ~Sent /\ v.left # <<>>
    BY <1>2 DEF YieldFinal, Sent
  <2>2. /\ w.list = v.list /\ w.heard = v.heard /\ w.left = Tail(v.left)
        /\ w.sending = v.sending
    BY <1>1 DEF NextFinal, Fields
  <2> HIDE DEF w
  <2>3. Tail(v.left) \in Seq(Peers)
    BY <1>1, <2>1 DEF Listed
  <2>4. Listed(w)
    BY <1>1, <2>1, <2>2, <2>3 DEF Listed
  <2> QED
    BY <1>1, <2>1, <2>4, BecomesListed
<1>3. CASE SendFinal(d)
  <2> DEFINE n == NextFinal(d)
             w == [n EXCEPT !.sending = Append(@, Head(v.left))]
  <2>1. Becomes(d, w) /\ v.left # <<>>
    BY <1>3 DEF SendFinal
  <2>2. /\ DOMAIN n = Fields /\ n.stage = "final" /\ n.list = v.list /\ n.heard = v.heard
        /\ n.left = Tail(v.left) /\ n.sending = v.sending /\ n.told = v.told
    BY <1>1 DEF NextFinal, Fields
  <2> HIDE DEF n
  <2>3. /\ w.stage = "final" /\ w.list = v.list /\ w.heard = v.heard
        /\ w.left = Tail(v.left) /\ w.sending = Append(v.sending, Head(v.left))
        /\ w.told = v.told
    BY <2>2 DEF Fields
  <2> HIDE DEF w
  <2>4. /\ w.left \in Seq(Peers) /\ w.sending \in Seq(Peers)
        /\ ToSet(w.sending) \cup ToSet(w.left) = ToSet(v.sending) \cup ToSet(v.left)
    BY <1>1, <2>1, <2>3, NextIsSent DEF Listed
  <2>5. Listed(w)
    BY <1>1, <2>3, <2>4 DEF Listed
  <2> QED
    BY <1>1, <2>1, <2>5, BecomesListed
<1>4. CASE FinalThrows(d)
  <2> DEFINE w == [v EXCEPT !.stage = "threw"]
  <2>1. Becomes(d, w) /\ Alike(v, w) /\ w.stage = "threw"
    BY <1>1, <1>4 DEF FinalThrows, Alike, Fields
  <2> QED
    BY <1>1, <2>1, AlikeListed
<1>5. CASE FinalEnds(d)
  <2> DEFINE w == [v EXCEPT !.stage = "ended"]
  <2>1. Becomes(d, w) /\ v.left = <<>> /\ v.sending = <<>>
    BY <1>5 DEF FinalEnds
  <2>2. Alike(v, w) /\ w.stage = "ended"
    BY <1>1 DEF Alike, Fields
  <2> HIDE DEF w
  <2>3. ToSet(<<>>) = {}
    BY DEF ToSet
  <2>4. Listed(w)
    BY <1>1, <2>1, <2>2, <2>3 DEF Listed, Alike
  <2> QED
    BY <1>1, <2>1, <2>4, BecomesListed
<1> QED
  BY <1>2, <1>3, <1>4, <1>5

\* A message is answered or fails.
LEMMA SentListed ==
  ASSUME NEW d \in Dhts, NEW i, DualListsInv, SendSucceeds(d, i) \/ SendFails(d, i)
  PROVE  ListsInv'
<1> DEFINE v == walk[d]
           p == v.sending[i]
           t == Told(d, i)
<1>1. /\ DOMAIN v = Fields /\ Listed(v) /\ i \in DOMAIN v.sending
      /\ UNCHANGED <<operation, table>>
  BY DEF DualListsInv, LookupInv, Accounted, ListsInv, SendSucceeds, SendFails
<1>2. v.stage \in {"final", "threw"}
  <2>1. v.sending # <<>>
    BY <1>1
  <2> QED
    BY <2>1 DEF DualListsInv, LookupInv, Accounted
<1>3. /\ DOMAIN t = Fields /\ t.stage = v.stage /\ t.list = v.list /\ t.heard = v.heard
      /\ t.left = v.left /\ t.sending = RemoveAt(v.sending, i) /\ t.told = v.told \cup {p}
  BY <1>1 DEF Told, Fields
<1>4. /\ RemoveAt(v.sending, i) \in Seq(Peers)
      /\ {p} \cup ToSet(RemoveAt(v.sending, i)) = ToSet(v.sending)
  BY <1>1, OneIsTold DEF Listed
<1> HIDE DEF t, p
<1>5. Listed(t)
  BY <1>1, <1>2, <1>3, <1>4 DEF Listed
<1>6. PICK took : Becomes(d, t) \/ Becomes(d, [t EXCEPT !.took = took])
  BY DEF SendSucceeds, SendFails, t
<1>7. Listed([t EXCEPT !.took = took])
  <2> DEFINE w == [t EXCEPT !.took = took]
  <2>1. /\ w.stage = t.stage /\ w.list = t.list /\ w.heard = t.heard
        /\ w.left = t.left /\ w.sending = t.sending /\ w.told = t.told
    BY <1>3 DEF Fields
  <2> HIDE DEF w
  <2>2. Listed(w)
    BY <1>5, <2>1 DEF Listed
  <2> QED
    BY <2>2 DEF w
<1> QED
  BY <1>1, <1>5, <1>6, <1>7, BecomesListed

LEMMA ListsKept == DualListsInv /\ [DualNext]_vars => DualListsInv'
<1> SUFFICES ASSUME DualListsInv, [DualNext]_vars
             PROVE  DualListsInv'
  OBVIOUS
<1>1. ASSUME UNCHANGED <<operation, table, walk>>
      PROVE  ListsInv'
  <2>1. \A d \in Dhts : Listed(walk[d]) => Listed(walk[d])'
    BY <1>1 DEF Listed, Sent
  <2> QED
    BY <1>1, <2>1 DEF DualListsInv, ListsInv
<1>2. ASSUME UNCHANGED <<operation, table, walk, events>>
      PROVE  DualListsInv'
  BY <1>1, <1>2, NothingChanges DEF DualListsInv
<1>3. CASE Ends \/ Throws \/ RefreshRoutingTable \/ UNCHANGED vars
  BY <1>2, <1>3 DEF Ends, Throws, RefreshRoutingTable, dualVars, vars, lookupVars
<1>4. CASE LookupNext
  <2>1. LookupInv'
    BY <1>4, LookupKeeps DEF DualListsInv
  <2>2. CASE Identified
    BY <1>1, <2>1, <2>2 DEF Identified, DualListsInv
  <2>3. ASSUME NEW d \in Dhts, LookupStep(d)
        PROVE  ListsInv'
    BY <2>3, LocalListed, StartListed, AskListed, WalkListed, FinalListed, SentListed
       DEF LookupStep
  <2> QED
    BY <1>4, <2>1, <2>2, <2>3 DEF LookupNext, DualListsInv
<1> QED
  BY <1>3, <1>4 DEF DualNext, Serve

LEMMA DualListsInvHolds == DualSpec => []DualListsInv
<1>1. DualInit => DualListsInv
  BY InitLookup, InitLists DEF DualInit, DualListsInv
<1> QED
  BY <1>1, ListsKept, PTL DEF DualSpec

\* Whatever the routing tables hold and whatever lists of peers the responses name,
\* with peers repeated or known already: in the list that put, provide and getClosestPeers
\* end with no peer is farther than one that was offered and left out, and a peer is only
\* left out of a full list (peer-distance-list.ts:50-91, peer-routing/index.ts:218-254).
\* A list may be full of a peer that is in it twice: it need not hold the K nearest.
THEOREM TheNearestAreKept == DualSpec => []NearestAreKept
<1>1. DualListsInv => NearestAreKept
  <2> SUFFICES ASSUME DualListsInv, NEW d \in Dhts
               PROVE  LET list == walk[d].list
                          out == walk[d].heard \ ToSet(list)
                      IN /\ InOrder(list) /\ ToSet(list) \subseteq walk[d].heard
                         /\ out # {} => Len(list) = K /\ ~AnyCloser(list, out)
    BY DEF NearestAreKept
  <2> DEFINE list == walk[d].list
             out == walk[d].heard \ ToSet(list)
  <2>1. Keeps(list, walk[d].heard)
    BY DEF DualListsInv, ListsInv, Listed
  <2>2. ASSUME out # {}
        PROVE  Len(list) = K /\ ~AnyCloser(list, out)
    <3>1. Len(list) = K /\ \A o \in out : \A j \in DOMAIN list : Dist[list[j]] <= Dist[o]
      BY <2>1, <2>2 DEF Keeps
    <3>2. K \in DOMAIN list /\ list # <<>> /\ Last(list) = list[K]
      BY <2>1, <3>1, ListAssumption DEF Keeps, Last
    <3>3. ASSUME NEW o \in out
          PROVE  ~(Dist[o] < Dist[Last(list)])
      <4>1. Dist[list[K]] <= Dist[o]
        BY <3>1, <3>2
      <4>2. o \in Peers /\ list[K] \in Peers
        BY <2>1, <3>2 DEF Keeps
      <4>3. Dist[o] \in Nat /\ Dist[list[K]] \in Nat
        BY <4>2, ListAssumption
      <4> QED
        BY <3>2, <4>1, <4>3
    <3> HIDE DEF out
    <3> QED
      BY <3>1, <3>2, <3>3 DEF AnyCloser
  <2> QED
    BY <2>1, <2>2 DEF Keeps
<1> QED
  BY <1>1, DualListsInvHolds, PTL

\* However many messages are under way at a time, and in whatever order they are answered
\* or fail: a put or provide that ends without an error has told every peer of its list,
\* and nobody else (content-routing/index.ts:76-119, content-fetching/index.ts:151-189).
THEOREM EveryNearestIsTold == DualSpec => []AllNearestTold
<1>1. DualListsInv => AllNearestTold
  BY DEF DualListsInv, ListsInv, Listed, AllNearestTold
<1> QED
  BY <1>1, DualListsInvHolds, PTL

=============================================================================
