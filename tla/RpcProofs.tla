----------------------------- MODULE RpcProofs -----------------------------
(***************************************************************************)
(* Theorems about Rpc and the messages it sends, for any nodes, calls,     *)
(* streams and messages.                                                   *)
(*                                                                         *)
(* The first part is about Messages alone: what is encoded is decoded to   *)
(* the same message (RoundTrip).  The second is the invariant behind what  *)
(* providers are known and stored, the third that behind what answers say. *)
(***************************************************************************)
EXTENDS Rpc, TLAPS, SequenceTheorems, FiniteSetTheorems, WellFoundedInduction

-----------------------------------------------------------------------------
(* The codec.  A reader that takes one part after the other, and what it   *)
(* has then, are followed by induction along the message.                  *)

\* A bounded set of numbers has a greatest element.
LEMMA BoundedHasGreatest ==
  ASSUME NEW S \in SUBSET Nat, S # {}, NEW b \in Nat, \A n \in S : n <= b
  PROVE  \E m \in S : \A n \in S : n <= m
<1> DEFINE Above(m) == {n \in S : m < n}
           F == {U \in SUBSET S : \E m \in S : U = Above(m)}
<1>1. F \subseteq FiniteSubsetsOf(S) /\ F # {}
  <2>1. \A U \in SUBSET S : IsFiniteSet(U)
    BY FS_BoundedSetOfNaturals, FS_Subset
  <2>2. PICK m \in S : TRUE OBVIOUS
  <2>3. Above(m) \in F OBVIOUS
  <2> QED BY <2>1, <2>3 DEF FiniteSubsetsOf
<1>2. PICK U \in F : \A V \in F : ~(<<V, U>> \in StrictSubsetOrdering(S))
  <2> HIDE DEF F
  <2> QED BY <1>1, FS_StrictSubsetOrderingWellFounded, WFMin
<1>3. PICK m \in S : U = Above(m) OBVIOUS
<1>4. ASSUME NEW n \in S PROVE n <= m
  <2>1. SUFFICES ASSUME m < n PROVE FALSE OBVIOUS
  <2>2. Above(n) \in F OBVIOUS
  <2>3. \A k \in S : n < k => m < k BY <2>1
  <2>4. Above(n) \subseteq U BY <2>3, <1>3
  <2>5. n \in U /\ n \notin Above(n) BY <2>1, <1>3
  <2> QED BY <2>2, <2>4, <2>5, <1>2 DEF StrictSubsetOrdering
<1> QED BY <1>4

\* Induction up to a number, for a set.
LEMMA CountUp ==
  ASSUME NEW L \in Nat, NEW S, 0 \in S, \A n \in 0..(L - 1) : n \in S => n + 1 \in S
  PROVE  \A n \in 0..L : n \in S
<1> SUFFICES ASSUME NEW n \in 0..L, n \notin S
             PROVE  FALSE
  OBVIOUS
<1> DEFINE M == {k \in 0..L : L - k \notin S}
<1>1. L - n \in M
  <2>1. L - n \in 0..L /\ L - (L - n) = n
    OBVIOUS
  <2> QED
    BY <2>1
<1>2. PICK k \in M : \A l \in M : l <= k
  <2>1. M \in SUBSET Nat
    OBVIOUS
  <2>2. \A l \in M : l <= L
    OBVIOUS
  <2> HIDE DEF M
  <2> QED
    BY <1>1, <2>1, <2>2, BoundedHasGreatest
<1>3. k \in 0..L /\ L - k \notin S
  BY <1>2
<1>4. k # L
  <2>1. L - L = 0
    OBVIOUS
  <2> QED
    BY <1>3, <2>1
<1>5. k + 1 \in 0..L /\ L - (k + 1) \in 0..(L - 1) /\ (L - (k + 1)) + 1 = L - k
  BY <1>3, <1>4
<1>6. k + 1 \notin M
  BY <1>2, <1>3
<1>7. L - (k + 1) \in S
  BY <1>5, <1>6
<1> QED
  BY <1>3, <1>5, <1>7

\* f has what comes out after each of N steps, beginning with a.
Iterates(f, N, a, step) == f[0] = a /\ \A k \in 1..N : f[k] = step[k][f[k - 1]]

\* And there is such an f, which the definition by recursion may then be replaced with.
LEMMA Recursion ==
  ASSUME NEW N \in Nat, NEW S, NEW a \in S, NEW step \in [1..N -> [S -> S]]
  PROVE  \E f \in [0..N -> S] : Iterates(f, N, a, step)
<1> DEFINE Run(f, m) == f[0] = a /\ \A k \in 1..m : f[k] = step[k][f[k - 1]]
           D == {m \in 0..N : \E f \in [0..m -> S] : Run(f, m)}
<1>1. 0 \in D
  <2> DEFINE f == [k \in 0..0 |-> a]
  <2>1. f \in [0..0 -> S] /\ Run(f, 0)
    OBVIOUS
  <2> HIDE DEF f, Run
  <2> QED
    BY <2>1
<1>2. ASSUME NEW m \in 0..(N - 1), m \in D
      PROVE  m + 1 \in D
  <2>1. PICK f \in [0..m -> S] : Run(f, m)
    BY <1>2
  <2> DEFINE g == [k \in 0..(m + 1) |-> IF k = m + 1 THEN step[m + 1][f[m]] ELSE f[k]]
  <2>2. m + 1 \in 1..N /\ m \in 0..m /\ m \in Nat
    OBVIOUS
  <2>3. step[m + 1][f[m]] \in S
    BY <2>2
  <2>4. \A k \in 0..(m + 1) : k # m + 1 => k \in 0..m
    BY <2>2
  <2>5. g \in [0..(m + 1) -> S]
    BY <2>3, <2>4
  <2>6. g[0] = a
    <3>1. 0 \in 0..(m + 1) /\ 0 # m + 1
      BY <2>2
    <3> QED
      BY <2>1, <3>1
  <2>7. ASSUME NEW k \in 1..(m + 1)
        PROVE  g[k] = step[k][g[k - 1]]
    <3>1. k \in 0..(m + 1) /\ k - 1 \in 0..(m + 1) /\ k - 1 # m + 1
      BY <2>2
    <3>2. g[k - 1] = f[k - 1]
      BY <3>1
    <3>3. CASE k = m + 1
      <4>1. k - 1 = m
        BY <2>2, <3>3
      <4>2. g[k] = step[k][f[m]]
        BY <3>1, <3>3
      <4> HIDE DEF g
      <4> QED
        BY <3>2, <4>1, <4>2
    <3>4. CASE k # m + 1
      <4>1. k \in 1..m
        BY <2>2, <3>4
      <4>2. g[k] = f[k]
        BY <3>1, <3>4
      <4>3. f[k] = step[k][f[k - 1]]
        BY <2>1, <4>1
      <4> HIDE DEF g
      <4> QED
        BY <3>2, <4>2, <4>3
    <3> QED
      BY <3>3, <3>4
  <2>8. m + 1 \in 0..N
    OBVIOUS
  <2> HIDE DEF g
  <2>9. Run(g, m + 1)
    BY <2>6, <2>7
  <2> HIDE DEF Run
  <2> QED
    BY <2>5, <2>8, <2>9
<1>3. N \in D
  <2>1. N \in 0..N
    OBVIOUS
  <2> HIDE DEF D
  <2> QED
    BY <1>1, <1>2, <2>1, CountUp
<1> QED
  BY <1>3 DEF Iterates

\* The bytes of part are in w, from position p on.
Shows(w, p, part) ==
  /\ p \in Nat \ {0} /\ p + Len(part) <= Len(w) + 1
  /\ \A i \in 1..Len(part) : w[p + i - 1] = part[i]

\* What a part shows is shown by the whole.
LEMMA ShowsInside ==
  ASSUME NEW w \in Seq(Nat), NEW p, NEW u \in Seq(Nat), NEW q, NEW part \in Seq(Nat),
         Shows(w, p, u), Shows(u, q, part)
  PROVE  Shows(w, p + q - 1, part)
<1>1. /\ p \in Nat \ {0} /\ p + Len(u) <= Len(w) + 1
      /\ q \in Nat \ {0} /\ q + Len(part) <= Len(u) + 1
      /\ Len(u) \in Nat /\ Len(w) \in Nat /\ Len(part) \in Nat
  BY DEF Shows
<1>2. ASSUME NEW i \in 1..Len(part)
      PROVE  w[(p + q - 1) + i - 1] = part[i]
  <2>1. u[q + i - 1] = part[i]
    BY DEF Shows
  <2>2. q + i - 1 \in 1..Len(u) /\ p + (q + i - 1) - 1 = (p + q - 1) + i - 1
    BY <1>1
  <2>3. w[p + (q + i - 1) - 1] = u[q + i - 1]
    BY <2>2 DEF Shows
  <2> QED
    BY <2>1, <2>2, <2>3
<1>3. p + q - 1 \in Nat \ {0} /\ (p + q - 1) + Len(part) <= Len(w) + 1
  BY <1>1
<1> QED
  BY <1>2, <1>3 DEF Shows
\* Where the parts are in their concatenation.
LEMMA Flattened ==
  ASSUME NEW parts \in Seq(Seq(Nat))
  PROVE  /\ FlattenSeq(parts) \in Seq(Nat)
         /\ \E pos \in [1..(Len(parts) + 1) -> Nat \ {0}] :
              /\ pos[1] = 1 /\ pos[Len(parts) + 1] = Len(FlattenSeq(parts)) + 1
              /\ \A k \in 1..Len(parts) : /\ pos[k + 1] = pos[k] + Len(parts[k])
                                          /\ Shows(FlattenSeq(parts), pos[k], parts[k])
<1> DEFINE n == Len(parts)
           w == FlattenSeq(parts)
           step == [k \in 1..n |-> [s \in Seq(Nat) |-> s \o parts[k]]]
<1>1. n \in Nat /\ \A k \in 1..n : parts[k] \in Seq(Nat)
  OBVIOUS
<1>2. PICK pre \in [0..n -> Seq(Nat)] :
        pre[0] = <<>> /\ \A k \in 1..n : pre[k] = step[k][pre[k - 1]]
  <2>1. step \in [1..n -> [Seq(Nat) -> Seq(Nat)]]
    <3>1. ASSUME NEW k \in 1..n, NEW s \in Seq(Nat)
          PROVE  s \o parts[k] \in Seq(Nat)
      BY <1>1, ConcatProperties
    <3> QED
      BY <3>1
  <2>2. <<>> \in Seq(Nat)
    OBVIOUS
  <2> HIDE DEF step, n
  <2>3. \E f \in [0..n -> Seq(Nat)] : Iterates(f, n, <<>>, step)
    BY <1>1, <2>1, <2>2, Recursion
  <2> QED
    BY <2>3 DEF Iterates
<1>3. ASSUME NEW k \in 1..n
      PROVE  /\ k \in 0..n /\ k - 1 \in 0..n
             /\ pre[k] \in Seq(Nat) /\ pre[k - 1] \in Seq(Nat)
             /\ pre[k] = pre[k - 1] \o parts[k]
  <2>1. k \in 0..n /\ k - 1 \in 0..n
    BY <1>1
  <2>2. pre[k] \in Seq(Nat) /\ pre[k - 1] \in Seq(Nat)
    BY <1>2, <2>1
  <2>3. step[k] = [s \in Seq(Nat) |-> s \o parts[k]]
    OBVIOUS
  <2>4. pre[k] = step[k][pre[k - 1]]
    BY <1>2
  <2> HIDE DEF step
  <2> QED
    BY <2>1, <2>2, <2>3, <2>4
<1> HIDE DEF n, step
<1>4. ASSUME NEW k \in 1..n
      PROVE  /\ Len(pre[k - 1]) \in Nat /\ Len(parts[k]) \in Nat
             /\ Len(pre[k]) = Len(pre[k - 1]) + Len(parts[k])
             /\ \A i \in 1..Len(pre[k]) :
                  pre[k][i] = IF i <= Len(pre[k - 1]) THEN pre[k - 1][i]
                              ELSE parts[k][i - Len(pre[k - 1])]
  <2>1. pre[k - 1] \in Seq(Nat) /\ parts[k] \in Seq(Nat) /\ pre[k] = pre[k - 1] \o parts[k]
    BY <1>1, <1>3
  <2>2. /\ Len(pre[k - 1] \o parts[k]) = Len(pre[k - 1]) + Len(parts[k])
        /\ \A i \in 1..(Len(pre[k - 1]) + Len(parts[k])) :
             (pre[k - 1] \o parts[k])[i] = IF i <= Len(pre[k - 1]) THEN pre[k - 1][i]
                                           ELSE parts[k][i - Len(pre[k - 1])]
    BY <2>1, ConcatProperties, Zenon
  <2>3. Len(pre[k - 1]) \in Nat /\ Len(parts[k]) \in Nat
    BY <2>1
  <2> QED
    BY <2>1, <2>2, <2>3, Zenon
<1>5. w = pre[n]
  <2>1. CASE n = 0
    <3>1. parts = <<>>
      BY <2>1 DEF n
    <3> QED
      BY <1>2, <2>1, <3>1 DEF FlattenSeq
  <2>2. CASE n # 0
    <3> DEFINE Run(f) == [i \in 1..n |-> IF i = 1 THEN parts[i] ELSE f[i - 1] \o parts[i]]
               flatten == CHOOSE f : f = Run(f)
    <3>1. w = flatten[n]
      BY <2>2 DEF FlattenSeq, n
    <3>2. pre[1] = parts[1]
      <4>1. 1 \in 1..n /\ parts[1] \in Seq(Nat)
        BY <1>1, <2>2
      <4>2. pre[1] = pre[0] \o parts[1]
        <5>1. 1 - 1 = 0
          OBVIOUS
        <5> QED
          BY <1>3, <4>1, <5>1
      <4> QED
        BY <1>2, <4>1, <4>2, ConcatEmptySeq
    <3>3. \E f : f = Run(f)
      <4> DEFINE g == [i \in 1..n |-> pre[i]]
      <4>1. ASSUME NEW i \in 1..n
            PROVE  g[i] = IF i = 1 THEN parts[i] ELSE g[i - 1] \o parts[i]
        <5>1. i # 1 => i - 1 \in 1..n
          BY <1>1
        <5> QED
          BY <1>3, <3>2, <5>1
      <4>2. g = [i \in 1..n |-> g[i]]
        OBVIOUS
      <4> HIDE DEF g
      <4>3. g = Run(g)
        BY <4>1, <4>2
      <4> HIDE DEF Run
      <4> QED
        BY <4>3
    <3>4. flatten = Run(flatten)
      <4> HIDE DEF Run
      <4> QED
        BY <3>3
    <3> HIDE DEF flatten
    <3>5. ASSUME NEW i \in 1..n
          PROVE  flatten[i] = IF i = 1 THEN parts[i] ELSE flatten[i - 1] \o parts[i]
      BY <3>4
    <3> HIDE DEF Run
    <3> DEFINE S == {i \in 0..n : i # 0 => flatten[i] = pre[i]}
    <3>6. 0 \in S
      BY <1>1
    <3>7. ASSUME NEW i \in 0..(n - 1), i \in S
          PROVE  i + 1 \in S
      <4>1. i + 1 \in 1..n /\ i + 1 \in 0..n /\ (i + 1) - 1 = i
        BY <1>1
      <4>2. flatten[i + 1] = pre[i + 1]
        <5>1. CASE i = 0
          BY <3>2, <3>5, <4>1, <5>1
        <5>2. CASE i # 0
          <6>1. flatten[i] = pre[i]
            BY <3>7, <5>2
          <6>2. i + 1 # 1
            BY <5>2
          <6>3. flatten[i + 1] = flatten[i] \o parts[i + 1]
            BY <3>5, <4>1, <6>2
          <6>4. pre[i + 1] = pre[i] \o parts[i + 1]
            BY <1>3, <4>1
          <6> QED
            BY <6>1, <6>3, <6>4
        <5> QED
          BY <5>1, <5>2
      <4> QED
        BY <4>1, <4>2
    <3>8. n \in S
      <4>1. n \in 0..n
        BY <1>1
      <4> HIDE DEF S
      <4> QED
        BY <1>1, <3>6, <3>7, <4>1, CountUp
    <3> QED
      BY <2>2, <3>1, <3>8
  <2> QED
    BY <2>1, <2>2
<1> HIDE DEF w
<1>6. w \in Seq(Nat)
  <2>1. n \in 0..n
    BY <1>1
  <2> QED
    BY <1>2, <1>5, <2>1
<1>7. ASSUME NEW k \in 0..n
      PROVE  /\ Len(pre[k]) \in Nat /\ Len(pre[k]) <= Len(w)
             /\ \A i \in 1..Len(pre[k]) : w[i] = pre[k][i]
  <2> DEFINE Begins(j) == /\ Len(pre[j]) \in Nat /\ Len(pre[k]) <= Len(pre[j])
                          /\ \A i \in 1..Len(pre[k]) : pre[j][i] = pre[k][i]
             S == {j \in 0..n : k <= j => Begins(j)}
  <2>0. Len(pre[k]) \in Nat
    BY <1>2
  <2>1. 0 \in S
    <3>1. k <= 0 => k = 0
      BY <1>1
    <3> QED
      BY <1>1, <2>0, <3>1
  <2>2. ASSUME NEW j \in 0..(n - 1), j \in S
        PROVE  j + 1 \in S
    <3>1. j + 1 \in 1..n /\ (j + 1) - 1 = j /\ j + 1 \in 0..n
      BY <1>1
    <3>2. CASE k = j + 1
      BY <2>0, <3>1, <3>2
    <3>3. CASE k <= j
      <4>1. Begins(j)
        BY <2>2, <3>3
      <4>2. /\ Len(parts[j + 1]) \in Nat
            /\ Len(pre[j + 1]) = Len(pre[j]) + Len(parts[j + 1])
            /\ \A i \in 1..Len(pre[j + 1]) : i <= Len(pre[j]) => pre[j + 1][i] = pre[j][i]
        BY <1>4, <3>1
      <4>3. /\ Len(pre[j + 1]) \in Nat /\ Len(pre[k]) <= Len(pre[j + 1])
            /\ \A i \in 1..Len(pre[k]) : i \in 1..Len(pre[j + 1]) /\ i <= Len(pre[j])
        <5> DEFINE a == Len(pre[j])  b == Len(parts[j + 1])  c == Len(pre[k])
        <5>1. a \in Nat /\ b \in Nat /\ c \in Nat /\ c <= a /\ Len(pre[j + 1]) = a + b
          BY <2>0, <4>1, <4>2
        <5> HIDE DEF a, b, c
        <5>2. a + b \in Nat /\ c <= a + b /\ \A i \in 1..c : i \in 1..(a + b) /\ i <= a
          BY <5>1
        <5> QED
          BY <5>1, <5>2 DEF a, c
      <4>4. Begins(j + 1)
        BY <4>1, <4>2, <4>3
      <4> QED
        BY <3>1, <4>4
    <3>4. CASE j + 1 < k
      <4>1. ~(k <= j + 1)
        BY <1>1, <3>4
      <4> QED
        BY <3>1, <4>1
    <3> QED
      BY <1>1, <3>2, <3>3, <3>4
  <2>3. n \in S
    <3>1. n \in 0..n
      BY <1>1
    <3> HIDE DEF S
    <3> QED
      BY <1>1, <2>1, <2>2, <3>1, CountUp
  <2>4. Begins(n)
    BY <1>1, <2>3
  <2> QED
    BY <1>5, <2>0, <2>4
<1> DEFINE pos == [k \in 1..(n + 1) |-> Len(pre[k - 1]) + 1]
<1>8. ASSUME NEW k \in 1..(n + 1)
      PROVE  k - 1 \in 0..n /\ Len(pre[k - 1]) \in Nat
  BY <1>1, <1>7
<1>9. pos \in [1..(n + 1) -> Nat \ {0}]
  <2>1. ASSUME NEW k \in 1..(n + 1)
        PROVE  Len(pre[k - 1]) + 1 \in Nat \ {0}
    BY <1>8
  <2> QED
    BY <2>1
<1>10. pos[1] = 1 /\ pos[n + 1] = Len(w) + 1
  <2>1. 1 \in 1..(n + 1) /\ n + 1 \in 1..(n + 1) /\ 1 - 1 = 0 /\ (n + 1) - 1 = n
    BY <1>1
  <2>2. Len(pre[0]) = 0
    BY <1>2
  <2>3. pos[1] = Len(pre[1 - 1]) + 1 /\ pos[n + 1] = Len(pre[(n + 1) - 1]) + 1
    BY <2>1
  <2> HIDE DEF pos
  <2> QED
    BY <1>5, <2>1, <2>2, <2>3
<1>11. ASSUME NEW k \in 1..n
       PROVE  pos[k + 1] = pos[k] + Len(parts[k]) /\ Shows(w, pos[k], parts[k])
  <2>1. k \in 1..(n + 1) /\ k + 1 \in 1..(n + 1) /\ (k + 1) - 1 = k /\ k \in 0..n
    BY <1>1
  <2>2. pos[k] = Len(pre[k - 1]) + 1 /\ pos[k + 1] = Len(pre[k]) + 1
    BY <2>1
  <2> HIDE DEF pos
  <2> DEFINE a == Len(pre[k - 1])  b == Len(parts[k])  c == pos[k]
  <2>3. /\ a \in Nat /\ b \in Nat /\ Len(pre[k]) = a + b /\ c = a + 1
        /\ pos[k + 1] = Len(pre[k]) + 1
        /\ \A i \in 1..Len(pre[k]) : pre[k][i] = IF i <= a THEN pre[k - 1][i] ELSE parts[k][i - a]
    BY <1>4, <2>2
  <2> HIDE DEF a, b, c
  <2>4. ASSUME NEW i \in 1..b
        PROVE  w[c + i - 1] = parts[k][i]
    <3>1. c + i - 1 = a + i /\ a + i \in 1..(a + b) /\ ~(a + i <= a) /\ (a + i) - a = i
      BY <2>3
    <3>2. pre[k][a + i] = parts[k][i]
      BY <2>3, <3>1
    <3> QED
      BY <1>7, <2>1, <2>3, <3>1, <3>2
  <2>5. c \in Nat \ {0} /\ c + b <= Len(w) + 1 /\ pos[k + 1] = c + b
    <3>1. a + b <= Len(w) /\ Len(w) \in Nat
      BY <1>6, <1>7, <2>1, <2>3
    <3> QED
      BY <2>3, <3>1
  <2> QED
    BY <2>4, <2>5 DEF Shows, b, c
<1> HIDE DEF pos
<1> QED
  BY <1>6, <1>9, <1>10, <1>11 DEF n, w

FieldSeqs == Seq(Nat \X Seq(Nat))

\* g is where the reader is after each turn of its loop.
Turns(g, w, start, end, field) ==
  /\ g[0] = At(start)
  /\ \A k \in 1..end :
       g[k] = IF ~g[k - 1].ok \/ g[k - 1].next >= end THEN g[k - 1]
              ELSE IF g[k - 1].next > Len(w) THEN Throws(g[k - 1]) ELSE field[g[k - 1]]

\* Whatever satisfies the equations of the loop is the loop.
LEMMA ReadsTurns ==
  ASSUME NEW w, NEW start, NEW end \in Nat, NEW field, NEW g, Turns(g, w, start, end, field)
  PROVE  ReadAll(w, start, end, field) = g[end]
<1> DEFINE After(r) == IF ~r.ok \/ r.next >= end THEN r
                       ELSE IF r.next > Len(w) THEN Throws(r) ELSE field[r]
           Run(f) == [turn \in 0..end |-> IF turn = 0 THEN At(start) ELSE After(f[turn - 1])]
           read == CHOOSE f : f = Run(f)
<1>1. ReadAll(w, start, end, field) = read[end]
  BY DEF ReadAll
<1>2. g[0] = At(start) /\ \A k \in 1..end : g[k] = After(g[k - 1])
  BY DEF Turns
<1> HIDE DEF After
<1>3. \E f : f = Run(f)
  <2> DEFINE f == [turn \in 0..end |-> g[turn]]
  <2>1. ASSUME NEW k \in 0..end
        PROVE  f[k] = IF k = 0 THEN At(start) ELSE After(f[k - 1])
    <3>1. k # 0 => k \in 1..end /\ k - 1 \in 0..end
      OBVIOUS
    <3> QED
      BY <1>2, <3>1
  <2>2. f = [turn \in 0..end |-> f[turn]]
    OBVIOUS
  <2> HIDE DEF f
  <2>3. f = Run(f)
    BY <2>1, <2>2
  <2> HIDE DEF Run
  <2> QED
    BY <2>3
<1>4. read = Run(read)
  <2> HIDE DEF Run
  <2> QED
    BY <1>3
<1> HIDE DEF read
<1>5. ASSUME NEW k \in 0..end
      PROVE  read[k] = IF k = 0 THEN At(start) ELSE After(read[k - 1])
  BY <1>4
<1> HIDE DEF Run
<1> DEFINE S == {k \in 0..end : read[k] = g[k]}
<1>6. 0 \in S
  BY <1>2, <1>5
<1>7. ASSUME NEW k \in 0..(end - 1), k \in S
      PROVE  k + 1 \in S
  <2>1. k + 1 \in 1..end /\ k + 1 \in 0..end /\ (k + 1) - 1 = k /\ k + 1 # 0
    OBVIOUS
  <2>2. read[k + 1] = After(read[k]) /\ g[k + 1] = After(g[k])
    BY <1>2, <1>5, <2>1
  <2>3. read[k] = g[k]
    BY <1>7
  <2> QED
    BY <2>1, <2>2, <2>3
<1>8. end \in S
  <2>1. end \in 0..end
    OBVIOUS
  <2> HIDE DEF S
  <2> QED
    BY <1>6, <1>7, <2>1, CountUp
<1> QED
  BY <1>1, <1>8

\* The first k elements of s.
FirstOnes(s, k) == [i \in 1..k |-> s[i]]

LEMMA FirstOnesGrow ==
  ASSUME NEW S, NEW s \in Seq(S), NEW k \in 1..Len(s)
  PROVE  /\ FirstOnes(s, k - 1) \in Seq(S) /\ s[k] \in S
         /\ Append(FirstOnes(s, k - 1), s[k]) = FirstOnes(s, k)
<1>1. k - 1 \in Nat /\ k \in Nat /\ \A i \in 1..(k - 1) : i \in 1..Len(s)
  OBVIOUS
<1>2. FirstOnes(s, k - 1) \in Seq(S) /\ Len(FirstOnes(s, k - 1)) = k - 1
  BY <1>1 DEF FirstOnes
<1>3. FirstOnes(s, k) \in Seq(S) /\ Len(FirstOnes(s, k)) = k
  BY <1>1 DEF FirstOnes
<1> DEFINE t == Append(FirstOnes(s, k - 1), s[k])
<1>4. t \in Seq(S) /\ Len(t) = (k - 1) + 1
  BY <1>2
<1>5. ASSUME NEW i \in 1..k
      PROVE  t[i] = FirstOnes(s, k)[i]
  <2>1. CASE i = k
    BY <1>1, <1>2, <2>1 DEF FirstOnes
  <2>2. CASE i # k
    <3>1. i \in 1..(k - 1)
      BY <1>1, <2>2
    <3>2. t[i] = FirstOnes(s, k - 1)[i]
      BY <1>2, <3>1
    <3> QED
      BY <3>1, <3>2 DEF FirstOnes
  <2> QED
    BY <2>1, <2>2
<1>6. Len(t) = k
  BY <1>1, <1>4
<1> HIDE DEF t
<1>7. t = FirstOnes(s, k)
  BY <1>3, <1>4, <1>5, <1>6
<1> QED
  BY <1>2, <1>7 DEF t

LEMMA NoFirstOnes == \A s : FirstOnes(s, 0) = <<>>
<1> SUFFICES ASSUME NEW s
             PROVE  FirstOnes(s, 0) = <<>>
  OBVIOUS
<1>1. FirstOnes(s, 0) \in Seq({}) /\ Len(FirstOnes(s, 0)) = 0
  BY DEF FirstOnes
<1> QED
  BY <1>1

LEMMA AllFirstOnes ==
  ASSUME NEW S, NEW s \in Seq(S)
  PROVE  FirstOnes(s, Len(s)) = s
<1>1. s = [i \in 1..Len(s) |-> s[i]]
  OBVIOUS
<1> QED
  BY <1>1, Zenon DEF FirstOnes

\* Rising positions are below the last one, and so is their number.
LEMMA Rising ==
  ASSUME NEW n \in Nat, NEW pos \in [1..(n + 1) -> Nat \ {0}],
         \A k \in 1..n : pos[k] < pos[k + 1]
  PROVE  n < pos[n + 1] /\ \A k \in 1..n : pos[k] < pos[n + 1]
<1>1. \A k \in 1..(n + 1) : pos[k] \in Nat \ {0}
  OBVIOUS
<1> DEFINE S == {j \in 0..n : j < pos[j + 1] /\ \A k \in 1..j : pos[k] < pos[j + 1]}
<1>2. 0 \in S
  <2>1. 0 \in 0..n /\ 0 + 1 = 1 /\ 1 \in 1..(n + 1) /\ 1..0 = {}
    OBVIOUS
  <2>2. 0 < pos[0 + 1]
    BY <1>1, <2>1
  <2> QED
    BY <2>1, <2>2
<1>3. ASSUME NEW j \in 0..(n - 1), j \in S
      PROVE  j + 1 \in S
  <2> DEFINE a == pos[j + 1]  b == pos[(j + 1) + 1]
  <2>1. j + 1 \in 1..n /\ j + 1 \in 0..n /\ j + 1 \in 1..(n + 1) /\ (j + 1) + 1 \in 1..(n + 1)
    OBVIOUS
  <2>2. a \in Nat /\ b \in Nat /\ a < b /\ j < a
    BY <1>1, <1>3, <2>1
  <2>3. \A k \in 1..j : pos[k] \in Nat /\ pos[k] < a
    BY <1>1, <1>3
  <2>4. \A k \in 1..(j + 1) : k \in 1..j \/ k = j + 1
    OBVIOUS
  <2> HIDE DEF a, b
  <2>5. j + 1 < b /\ \A k \in 1..j : pos[k] < b
    BY <2>2, <2>3
  <2>6. pos[j + 1] < b
    BY <2>2 DEF a
  <2>7. \A k \in 1..(j + 1) : pos[k] < b
    BY <2>4, <2>5, <2>6
  <2> QED
    BY <2>1, <2>5, <2>7 DEF b
<1>4. n \in S
  <2>1. n \in 0..n
    OBVIOUS
  <2> HIDE DEF S
  <2> QED
    BY <1>2, <1>3, <2>1, CountUp
<1> QED
  BY <1>4

\* Reader r has taken field f and is at next.
ReadTo(r, f, next) == [r EXCEPT !.fields = Append(@, f), !.next = next]

\* The reader takes the fields fs one by one, each from one position to the next.
TakesEach(field, fs, pos) ==
  \A k \in 1..Len(fs) :
    /\ pos[k] < pos[k + 1]
    /\ \A r \in Reader : r.ok /\ r.next = pos[k] =>
         field[r] = ReadTo(r, fs[k], pos[k + 1])

\* Then it ends at the last position with all of them.
LEMMA ReadsFields ==
  ASSUME NEW w \in Seq(Nat), NEW fs \in FieldSeqs,
         NEW pos \in [1..(Len(fs) + 1) -> Nat \ {0}], NEW field,
         pos[Len(fs) + 1] <= Len(w) + 1, TakesEach(field, fs, pos)
  PROVE  ReadAll(w, pos[1], pos[Len(fs) + 1], field) =
           [ok |-> TRUE, next |-> pos[Len(fs) + 1], fields |-> fs]
<1> DEFINE n == Len(fs)
           end == pos[n + 1]
           r(k) == [ok |-> TRUE, next |-> pos[k + 1], fields |-> FirstOnes(fs, k)]
           g == [k \in 0..end |-> IF k <= n THEN r(k) ELSE r(n)]
<1>1. n \in Nat /\ end \in Nat \ {0} /\ end <= Len(w) + 1 /\ Len(w) \in Nat
  <2>1. n \in Nat /\ n + 1 \in 1..(n + 1)
    BY DEF FieldSeqs
  <2> QED
    BY <2>1
<1>2. \A k \in 1..(n + 1) : pos[k] \in Nat \ {0}
  OBVIOUS
<1>3. \A k \in 1..n : pos[k] < pos[k + 1] /\ k + 1 \in 1..(n + 1) /\ k \in 1..(n + 1)
  <2>1. \A k \in 1..n : pos[k] < pos[k + 1]
    BY Zenon DEF TakesEach
  <2> QED
    BY <1>1, <2>1
<1>4. ASSUME NEW k \in 1..n
      PROVE  field[r(k - 1)] = r(k) /\ r(k - 1).ok
  <2>1. /\ FirstOnes(fs, k - 1) \in FieldSeqs /\ Append(FirstOnes(fs, k - 1), fs[k]) = FirstOnes(fs, k)
    BY FirstOnesGrow DEF FieldSeqs
  <2>2. (k - 1) + 1 = k /\ pos[k] \in Nat
    BY <1>2, <1>3
  <2>3. r(k - 1) \in Reader /\ r(k - 1).ok /\ r(k - 1).next = pos[k]
    BY <2>1, <2>2 DEF Reader, FieldSeqs
  <2>4. field[r(k - 1)] = [r(k - 1) EXCEPT !.fields = Append(@, fs[k]), !.next = pos[k + 1]]
    <3> HIDE DEF r
    <3> QED
      BY <2>3 DEF TakesEach, ReadTo
  <2> QED
    BY <2>1, <2>3, <2>4
<1>5. n < end /\ \A k \in 1..n : pos[k] < end
  <2> HIDE DEF n
  <2> QED
    BY <1>1, <1>3, Rising DEF n
<1>6. \A k \in 0..end : g[k] = IF k <= n THEN r(k) ELSE r(n)
  <2> HIDE DEF r, end, n
  <2> QED
    OBVIOUS
<1>7. /\ \A k \in 0..n : r(k).ok /\ r(k).next = pos[k + 1]
      /\ r(0) = At(pos[1])
      /\ r(n) = [ok |-> TRUE, next |-> end, fields |-> fs]
  <2>1. FirstOnes(fs, 0) = <<>> /\ FirstOnes(fs, n) = fs
    BY AllFirstOnes, NoFirstOnes DEF FieldSeqs
  <2>2. r(0) = At(pos[1])
    <3>1. r(0).next = pos[0 + 1] /\ r(0) = [ok |-> TRUE, next |-> pos[0 + 1], fields |-> <<>>]
      BY <2>1
    <3>2. pos[0 + 1] = pos[1]
      <4>1. 0 + 1 = 1
        OBVIOUS
      <4> QED
        BY <4>1
    <3> HIDE DEF r
    <3> QED
      BY <3>1, <3>2 DEF At
  <2>3. r(n) = [ok |-> TRUE, next |-> end, fields |-> fs]
    BY <2>1
  <2> QED
    BY <2>2, <2>3
<1> HIDE DEF r, g, end, n
<1>8. ASSUME NEW k \in 1..end
      PROVE  g[k] = IF ~g[k - 1].ok \/ g[k - 1].next >= end THEN g[k - 1]
                    ELSE IF g[k - 1].next > Len(w) THEN Throws(g[k - 1]) ELSE field[g[k - 1]]
  <2>1. k \in 0..end /\ k - 1 \in 0..end
    BY <1>1
  <2>2. CASE k <= n
    <3>1. k \in 1..n /\ k - 1 <= n /\ (k - 1) + 1 = k /\ k - 1 \in 0..n
      BY <1>1, <2>2
    <3>2. g[k] = r(k) /\ g[k - 1] = r(k - 1)
      BY <1>6, <2>1, <2>2, <3>1
    <3>3. pos[k] < end /\ end <= Len(w) + 1 /\ pos[k] \in Nat
      BY <1>1, <1>2, <1>3, <1>5, <3>1
    <3>4. r(k - 1).next = pos[k] /\ r(k - 1).ok
      BY <1>7, <3>1
    <3>5. ~(r(k - 1).next >= end) /\ ~(r(k - 1).next > Len(w))
      BY <1>1, <3>3, <3>4
    <3> QED
      BY <1>4, <3>1, <3>2, <3>4, <3>5
  <2>3. CASE n < k
    <3>1. g[k] = r(n)
      BY <1>1, <1>6, <2>1, <2>3
    <3>2. g[k - 1] = r(n)
      <4>1. k - 1 = n \/ ~(k - 1 <= n)
        BY <1>1, <2>3
      <4> QED
        BY <1>6, <2>1, <4>1
    <3>3. r(n).next >= end
      BY <1>1, <1>7
    <3> QED
      BY <3>1, <3>2, <3>3
  <2> QED
    BY <1>1, <2>2, <2>3
<1>9. g[0] = At(pos[1])
  <2>1. 0 \in 0..end /\ 0 <= n
    BY <1>1
  <2> QED
    BY <1>6, <1>7, <2>1
<1>10. g[end] = [ok |-> TRUE, next |-> end, fields |-> fs]
  <2>1. end \in 0..end /\ ~(end <= n)
    BY <1>1, <1>5
  <2> QED
    BY <1>6, <1>7, <2>1
<1>11. ReadAll(w, pos[1], end, field) = g[end]
  <2>1. Turns(g, w, pos[1], end, field)
    BY <1>8, <1>9, Zenon DEF Turns
  <2>2. end \in Nat
    BY <1>1
  <2> QED
    BY <2>1, <2>2, ReadsTurns
<1> QED
  BY <1>10, <1>11 DEF end, n

\* A field with a length, byte by byte.
LEMMA DelimitedFacts ==
  ASSUME NEW tag \in Nat, NEW b \in Seq(Nat)
  PROVE  /\ Delimited(tag, b) \in Seq(Nat) /\ Len(Delimited(tag, b)) = Len(b) + 2
         /\ Delimited(tag, b)[1] = tag /\ Delimited(tag, b)[2] = Len(b)
         /\ \A i \in 1..Len(b) : Delimited(tag, b)[i + 2] = b[i]
<1> DEFINE a == <<tag, Len(b)>>
           n == Len(b)
<1>1. a \in Seq(Nat) /\ Len(a) = 2 /\ a[1] = tag /\ a[2] = n /\ n \in Nat
  OBVIOUS
<1> HIDE DEF a, n
<1>2. /\ a \o b \in Seq(Nat) /\ Len(a \o b) = Len(a) + Len(b)
      /\ \A i \in 1..(Len(a) + Len(b)) :
           (a \o b)[i] = IF i <= Len(a) THEN a[i] ELSE b[i - Len(a)]
  BY <1>1, ConcatProperties, Zenon
<1>3. \A i \in 1..(2 + n) : (a \o b)[i] = IF i <= 2 THEN a[i] ELSE b[i - 2]
  BY <1>1, <1>2 DEF n
<1>4. 1 \in 1..(2 + n) /\ 2 \in 1..(2 + n)
      /\ \A i \in 1..n : i + 2 \in 1..(2 + n) /\ ~(i + 2 <= 2) /\ (i + 2) - 2 = i
  BY <1>1
<1>5. Delimited(tag, b) = a \o b
  BY DEF Delimited, a
<1>6. Len(a \o b) = n + 2
  BY <1>1, <1>2 DEF n
<1>7. (a \o b)[1] = tag /\ (a \o b)[2] = n /\ \A i \in 1..n : (a \o b)[i + 2] = b[i]
  <2>1. 1 <= 2 /\ 2 <= 2
    OBVIOUS
  <2>2. (a \o b)[1] = a[1] /\ (a \o b)[2] = a[2]
    BY <1>3, <1>4, <2>1, Zenon
  <2>3. \A i \in 1..n : (a \o b)[i + 2] = b[(i + 2) - 2]
    BY <1>3, <1>4, Zenon
  <2>4. \A i \in 1..n : (i + 2) - 2 = i
    BY <1>4
  <2> QED
    BY <1>1, <2>2, <2>3, <2>4, Zenon
<1> QED
  BY <1>2, <1>5, <1>6, <1>7 DEF n

LEMMA ReadBytesTakes ==
  ASSUME NEW w, NEW r, NEW p, NEW n, p = r.next, n = w[p + 1],
         p < Len(w), p + 2 + n <= Len(w) + 1
  PROVE  ReadBytes(w, r) = Takes(w, r, SubSeq(w, p + 2, (p + 2 + n) - 1), p + 2 + n)
BY DEF ReadBytes

\* A delimited field is read as it was written.
ReadsAsWritten(w, r, tag, b) ==
  /\ w[r.next] = tag /\ w[r.next + 1] = Len(b) /\ r.next < Len(w)
  /\ SubSeq(w, r.next + 2, (r.next + 2 + Len(b)) - 1) = b
  /\ ReadBytes(w, r) = ReadTo(r, <<FieldNumber(tag), b>>, r.next + 2 + Len(b))

\* A reader that stands before a delimited field takes it.
LEMMA ReadsBytes ==
  ASSUME NEW w \in Seq(Nat), NEW r \in Reader, NEW tag \in Nat, NEW b \in Seq(Nat),
         Shows(w, r.next, Delimited(tag, b))
  PROVE  ReadsAsWritten(w, r, tag, b)
<1> DEFINE p == r.next
           n == Len(b)
           d == Delimited(tag, b)
<1>1. /\ d \in Seq(Nat) /\ Len(d) = n + 2 /\ d[1] = tag /\ d[2] = n
      /\ \A i \in 1..n : d[i + 2] = b[i]
  BY DelimitedFacts
<1>2. /\ p \in Nat \ {0} /\ p + Len(d) <= Len(w) + 1
      /\ \A i \in 1..Len(d) : w[p + i - 1] = d[i]
  BY DEF Shows
<1>3. n \in Nat /\ Len(w) \in Nat
  OBVIOUS
<1> HIDE DEF p, n, d
<1>4. w[p] = tag /\ w[p + 1] = n
  <2>1. 1 \in 1..Len(d) /\ 2 \in 1..Len(d) /\ p + 1 - 1 = p /\ p + 2 - 1 = p + 1
    BY <1>1, <1>2, <1>3
  <2> QED
    BY <1>1, <1>2, <2>1
<1>5. p < Len(w) /\ p + 2 + n <= Len(w) + 1
  BY <1>1, <1>2, <1>3
<1>6. SubSeq(w, p + 2, (p + 2 + n) - 1) = b
  <2> DEFINE from == p + 2
             to == (p + 2 + n) - 1
             s == SubSeq(w, from, to)
  <2>1. from \in 1..(Len(w) + 1) /\ to \in 0..Len(w) /\ from \in Int /\ to \in Int
        /\ (from <= to <=> n # 0) /\ to - from + 1 = n
    BY <1>2, <1>3, <1>5
  <2> HIDE DEF from, to
  <2>2. s \in Seq(Nat) /\ Len(s) = n /\ \A i \in 1..n : s[i] = w[from + i - 1]
    <3>1. CASE n = 0
      <4>1. s = <<>>
        BY <2>1, <3>1
      <4> QED
        BY <3>1, <4>1
    <3>2. CASE n # 0
      <4>1. from <= to /\ from \in 1..Len(w) /\ to \in 1..Len(w)
        BY <1>3, <2>1, <3>2
      <4> QED
        BY <1>3, <2>1, <4>1
    <3> QED
      BY <3>1, <3>2
  <2>3. ASSUME NEW i \in 1..n
        PROVE  s[i] = b[i]
    <3>1. from + i - 1 = p + (i + 2) - 1 /\ i + 2 \in 1..Len(d)
      BY <1>1, <1>2, <1>3 DEF from
    <3> QED
      BY <1>1, <1>2, <2>2, <3>1
  <2> HIDE DEF s
  <2>4. b \in Seq(Nat) /\ Len(b) = n
    BY DEF n
  <2>5. s = b
    BY <2>2, <2>3, <2>4, SeqEqual
  <2> QED
    BY <2>5 DEF s, from, to
<1>7. ReadBytes(w, r) = Takes(w, r, SubSeq(w, p + 2, (p + 2 + n) - 1), p + 2 + n)
  BY <1>4, <1>5, ReadBytesTakes, Zenon DEF p
<1> QED
  BY <1>4, <1>5, <1>6, <1>7 DEF Takes, ReadTo, ReadsAsWritten, p, n

\* So is a number.
LEMMA ReadsNumber ==
  ASSUME NEW w \in Seq(Nat), NEW r \in Reader, NEW tag \in Nat, NEW v \in Nat,
         Shows(w, r.next, <<tag, v>>)
  PROVE  /\ w[r.next] = tag
         /\ ReadNumber(w, r) = ReadTo(r, <<FieldNumber(tag), <<v>>>>, r.next + 2)
         /\ \A values : v \in values =>
              ReadEnum(w, r, values) = ReadTo(r, <<FieldNumber(tag), <<v>>>>, r.next + 2)
<1> DEFINE d == <<tag, v>>
<1>1. Len(d) = 2 /\ d[1] = tag /\ d[2] = v
  OBVIOUS
<1> HIDE DEF d
<1>2. /\ r.next \in Nat \ {0} /\ r.next + Len(d) <= Len(w) + 1
      /\ \A i \in 1..Len(d) : w[r.next + i - 1] = d[i]
  BY DEF Shows, d
<1>3. 1 \in 1..Len(d) /\ 2 \in 1..Len(d) /\ r.next + 1 - 1 = r.next /\ r.next + 2 - 1 = r.next + 1
  BY <1>1, <1>2
<1>4. w[r.next] = tag /\ w[r.next + 1] = v
  BY <1>1, <1>2, <1>3
<1>5. r.next < Len(w)
  <2>1. Len(w) \in Nat
    OBVIOUS
  <2> QED
    BY <1>1, <1>2, <2>1
<1> QED
  BY <1>4, <1>5 DEF ReadNumber, ReadEnum, Takes, ReadTo

\* Parts of what is written, and the field that each of them is read as.
PairsUp(parts, fs, pairs) ==
  /\ parts \in Seq(Seq(Nat)) /\ fs \in FieldSeqs /\ Len(parts) = Len(fs)
  /\ \A k \in 1..Len(parts) : <<parts[k], fs[k]>> \in pairs

\* Parts and fields pair up one by one.
LEMMA PairsUpConcat ==
  ASSUME NEW pairs, NEW p, NEW f, PairsUp(p, f, pairs), NEW q, NEW g, PairsUp(q, g, pairs)
  PROVE  PairsUp(p \o q, f \o g, pairs)
<1> DEFINE n == Len(p)
           m == Len(q)
<1>1. /\ p \in Seq(Seq(Nat)) /\ f \in FieldSeqs /\ Len(f) = n
      /\ q \in Seq(Seq(Nat)) /\ g \in FieldSeqs /\ Len(g) = m
      /\ n \in Nat /\ m \in Nat
  BY DEF PairsUp
<1>2. /\ p \o q \in Seq(Seq(Nat)) /\ Len(p \o q) = n + m
      /\ \A i \in 1..(n + m) : (p \o q)[i] = IF i <= n THEN p[i] ELSE q[i - n]
  BY <1>1, ConcatProperties, Zenon
<1>3. /\ f \o g \in FieldSeqs /\ Len(f \o g) = n + m
      /\ \A i \in 1..(n + m) : (f \o g)[i] = IF i <= n THEN f[i] ELSE g[i - n]
  <2>1. /\ f \o g \in FieldSeqs /\ Len(f \o g) = Len(f) + Len(g)
        /\ \A i \in 1..(Len(f) + Len(g)) :
             (f \o g)[i] = IF i <= Len(f) THEN f[i] ELSE g[i - Len(f)]
    BY <1>1, ConcatProperties, Zenon DEF FieldSeqs
  <2>2. Len(f) = n /\ Len(g) = m
    BY <1>1
  <2> HIDE DEF n, m
  <2> QED
    BY <2>1, <2>2, Zenon
<1>4. ASSUME NEW i \in 1..(n + m)
      PROVE  <<(p \o q)[i], (f \o g)[i]>> \in pairs
  <2>1. CASE i <= n
    <3>1. i \in 1..n
      BY <1>1, <2>1
    <3>2. <<p[i], f[i]>> \in pairs
      BY <3>1 DEF PairsUp
    <3> QED
      BY <1>2, <1>3, <2>1, <3>2, Zenon
  <2>2. CASE ~(i <= n)
    <3>1. i - n \in 1..m
      BY <1>1, <2>2
    <3>2. <<q[i - n], g[i - n]>> \in pairs
      BY <3>1 DEF PairsUp
    <3> QED
      BY <1>2, <1>3, <2>2, <3>2, Zenon
  <2> QED
    BY <2>1, <2>2
<1> HIDE DEF n, m
<1> QED
  BY <1>2, <1>3, <1>4 DEF PairsUp

LEMMA PairUp ==
  ASSUME NEW pairs, NEW part \in Seq(Nat), NEW f \in Nat \X Seq(Nat), <<part, f>> \in pairs
  PROVE  PairsUp(<<part>>, <<f>>, pairs)
<1>1. <<part>> \in Seq(Seq(Nat)) /\ Len(<<part>>) = 1 /\ <<part>>[1] = part
  OBVIOUS
<1>2. <<f>> \in FieldSeqs /\ Len(<<f>>) = 1 /\ <<f>>[1] = f
  BY DEF FieldSeqs
<1>3. \A k \in 1..1 : k = 1
  OBVIOUS
<1> QED
  BY <1>1, <1>2, <1>3, Zenon DEF PairsUp

LEMMA NonePairUp == \A pairs : PairsUp(<<>>, <<>>, pairs)
BY DEF PairsUp, FieldSeqs

\* From each part of w the reader takes its field.
ReadsPair(w, field, pair) ==
  /\ Len(pair[1]) \in Nat \ {0}
  /\ \A r \in Reader : r.ok /\ Shows(w, r.next, pair[1]) =>
       field[r] = ReadTo(r, pair[2], r.next + Len(pair[1]))
ReadsPairs(w, field, pairs) == \A pair \in pairs : ReadsPair(w, field, pair)

\* Then from all of them it takes all fields.
LEMMA ReadsParts ==
  ASSUME NEW w \in Seq(Nat), NEW field, NEW pairs, ReadsPairs(w, field, pairs),
         NEW parts, NEW fs, PairsUp(parts, fs, pairs),
         NEW p, Shows(w, p, FlattenSeq(parts))
  PROVE  ReadAll(w, p, p + Len(FlattenSeq(parts)), field) =
           [ok |-> TRUE, next |-> p + Len(FlattenSeq(parts)), fields |-> fs]
<1> DEFINE n == Len(fs)
           u == FlattenSeq(parts)
<1>1. parts \in Seq(Seq(Nat)) /\ fs \in FieldSeqs /\ Len(parts) = n /\ n \in Nat
      /\ \A k \in 1..n : parts[k] \in Seq(Nat)
  BY DEF PairsUp, FieldSeqs
<1>2. u \in Seq(Nat)
  BY <1>1, Flattened
<1>3. PICK at \in [1..(n + 1) -> Nat \ {0}] :
        /\ at[1] = 1 /\ at[n + 1] = Len(u) + 1
        /\ \A k \in 1..n : /\ at[k + 1] = at[k] + Len(parts[k])
                           /\ Shows(u, at[k], parts[k])
  BY <1>1, Flattened
<1> HIDE DEF n, u
<1>4. p \in Nat \ {0} /\ p + Len(u) <= Len(w) + 1 /\ Len(u) \in Nat
  BY <1>2 DEF Shows, u
<1> DEFINE pos == [k \in 1..(n + 1) |-> p + at[k] - 1]
<1>5. \A k \in 1..(n + 1) : at[k] \in Nat \ {0} /\ pos[k] = p + at[k] - 1
  BY <1>3
<1>6. pos \in [1..(n + 1) -> Nat \ {0}]
  BY <1>4, <1>5
<1> HIDE DEF pos
<1>7. pos[1] = p /\ pos[n + 1] = p + Len(u)
  <2>1. 1 \in 1..(n + 1) /\ n + 1 \in 1..(n + 1)
    BY <1>1
  <2>2. pos[1] = p + at[1] - 1 /\ pos[n + 1] = p + at[n + 1] - 1
    BY <1>5, <2>1
  <2>3. at[1] = 1 /\ at[n + 1] = Len(u) + 1
    BY <1>3
  <2> QED
    BY <1>4, <2>2, <2>3
<1>8. ASSUME NEW k \in 1..n
      PROVE  /\ pos[k] < pos[k + 1]
             /\ \A r \in Reader : r.ok /\ r.next = pos[k] => field[r] = ReadTo(r, fs[k], pos[k + 1])
  <2>1. k \in 1..(n + 1) /\ k + 1 \in 1..(n + 1)
    BY <1>1
  <2>2. /\ at[k + 1] = at[k] + Len(parts[k]) /\ Shows(u, at[k], parts[k])
        /\ at[k] \in Nat \ {0} /\ pos[k] = p + at[k] - 1 /\ pos[k + 1] = p + at[k + 1] - 1
    BY <1>3, <1>5, <2>1
  <2>3. Shows(w, pos[k], parts[k])
    BY <1>1, <1>2, <2>2, ShowsInside DEF u
  <2>4. <<parts[k], fs[k]>> \in pairs
    BY <1>1 DEF PairsUp
  <2>5. /\ Len(parts[k]) \in Nat \ {0}
        /\ \A r \in Reader : r.ok /\ Shows(w, r.next, parts[k]) =>
             field[r] = ReadTo(r, fs[k], r.next + Len(parts[k]))
    BY <2>4, Zenon DEF ReadsPairs, ReadsPair
  <2>6. pos[k] < pos[k + 1] /\ pos[k] + Len(parts[k]) = pos[k + 1]
    BY <1>4, <2>2, <2>5
  <2> QED
    BY <2>3, <2>5, <2>6
<1>9. TakesEach(field, fs, pos)
  BY <1>8, Zenon DEF TakesEach, n
<1>10. pos[n + 1] <= Len(w) + 1
  BY <1>4, <1>7
<1>11. ReadAll(w, pos[1], pos[n + 1], field) = [ok |-> TRUE, next |-> pos[n + 1], fields |-> fs]
  BY <1>1, <1>6, <1>9, <1>10, ReadsFields DEF n
<1> QED
  BY <1>7, <1>11 DEF u

\* s has each element of S once.
Lists(s, S) ==
  /\ s \in Seq(S) /\ S = {s[i] : i \in DOMAIN s}
  /\ \A i, j \in DOMAIN s : s[i] = s[j] => i = j

\* A finite set is listed by SetToSeq.
LEMMA SetToSeqLists ==
  ASSUME NEW S, IsFiniteSet(S)
  PROVE  Lists(SetToSeq(S), S)
<1> DEFINE n == Cardinality(S)
           s == SetToSeq(S)
<1>2. n \in Nat /\ ExistsBijection(1..n, S) BY FS_CardinalityType
<1>3. PICK f : f \in Injection(1..n, S)
  BY <1>2 DEF ExistsBijection, Bijection
<1> HIDE DEF n
<1>4. s \in [1..n -> S] /\ \A i, j \in DOMAIN s : s[i] = s[j] => i = j
  <2>1. f \in [1..n -> S] /\ IsInjective(f)
    BY <1>3 DEF Injection, IsInjective
  <2>2. s = CHOOSE g \in [1..n -> S] : IsInjective(g)
    BY DEF SetToSeq, n
  <2>3. s \in [1..n -> S] /\ IsInjective(s) BY <2>1, <2>2
  <2> QED BY <2>3 DEF IsInjective
<1> HIDE DEF s
<1>5. s \in Injection(1..n, S) BY <1>4 DEF Injection, IsInjective
<1>6. IsFiniteSet(1..n) /\ Cardinality(1..n) = n BY <1>2, FS_Interval
<1>7. s \in Surjection(1..n, S)
  BY <1>5, <1>6, FS_Injection DEF n
<1>8. \A e \in S : \E i \in 1..n : s[i] = e BY <1>7 DEF Surjection
<1>9. S = {s[i] : i \in 1..n} BY <1>4, <1>8
<1>10. s \in Seq(S) /\ DOMAIN s = 1..n BY <1>2, <1>4
<1>11. Lists(s, S) BY <1>4, <1>9, <1>10 DEF Lists
<1> QED BY <1>11 DEF s

\* Peers as they may be passed around.
Infos == [id : Nat, addrs : {S \in SUBSET Nat : IsFiniteSet(S)},
          protocols : {S \in SUBSET Nat : IsFiniteSet(S)}]

\* The tags that occur, and their fields.
LEMMA FieldNumbers ==
  /\ FieldNumber(8) = 1 /\ FieldNumber(10) = 1 /\ FieldNumber(18) = 2 /\ FieldNumber(24) = 3
  /\ FieldNumber(26) = 3 /\ FieldNumber(32) = 4 /\ FieldNumber(66) = 8 /\ FieldNumber(74) = 9
  /\ FieldNumber(80) = 10
BY DEF FieldNumber

\* What may be written of a peer, and its field.
IsDelimited(pair, tag, b) == pair = <<Delimited(tag, b), <<FieldNumber(tag), b>>>>
IsNumber(pair, tag, v) == pair = <<<<tag, v>>, <<FieldNumber(tag), <<v>>>>>>
PeerPairs ==
  {pair \in Seq(Nat) \X (Nat \X Seq(Nat)) :
     \/ \E tag \in {10, 18, 24}, b \in Seq(Nat) : IsDelimited(pair, tag, b)
     \/ IsNumber(pair, 32, CONNECTED)}

LEMMA PairIs ==
  /\ \A pair, tag, b : IsDelimited(pair, tag, b) =>
       pair[1] = Delimited(tag, b) /\ pair[2] = <<FieldNumber(tag), b>>
  /\ \A pair, tag, v : IsNumber(pair, tag, v) =>
       pair[1] = <<tag, v>> /\ pair[2] = <<FieldNumber(tag), <<v>>>>
BY DEF IsDelimited, IsNumber

\* The decoder of Peer takes each field that the encoder writes.
LEMMA ReadsPeerFields ==
  ASSUME NEW w \in Seq(Nat)
  PROVE  ReadsPairs(w, PeerField(w), PeerPairs)
<1>1. \A r \in Reader :
        PeerField(w)[r] =
          CASE FieldNumber(w[r.next]) \in {1, 2, 3} -> ReadBytes(w, r)
            [] FieldNumber(w[r.next]) = 4 -> ReadEnum(w, r, ConnectionTypes)
            [] OTHER -> Skip(w, r)
  BY DEF PeerField
<1>2. ASSUME NEW pair, NEW tag \in {10, 18, 24}, NEW b \in Seq(Nat), IsDelimited(pair, tag, b)
      PROVE  ReadsPair(w, PeerField(w), pair)
  <2> DEFINE part == pair[1]
             f == pair[2]
  <2>1. tag \in Nat /\ Len(b) \in Nat /\ part = Delimited(tag, b) /\ f = <<FieldNumber(tag), b>>
    BY <1>2, PairIs
  <2> HIDE DEF part, f
  <2>2. Len(part) = 2 + Len(b)
    BY <2>1, DelimitedFacts
  <2>3. ASSUME NEW r \in Reader, Shows(w, r.next, part)
        PROVE  PeerField(w)[r] = ReadTo(r, f, r.next + Len(part))
    <3>1. ReadsAsWritten(w, r, tag, b)
      BY <2>1, <2>3, ReadsBytes
    <3>2. w[r.next] = tag /\ ReadBytes(w, r) = ReadTo(r, f, r.next + 2 + Len(b))
      BY <2>1, <3>1 DEF ReadsAsWritten
    <3>3. PeerField(w)[r] = ReadBytes(w, r)
      <4>1. FieldNumber(w[r.next]) \in {1, 2, 3} /\ FieldNumber(w[r.next]) # 4
        <5>1. FieldNumber(tag) \in {1, 2, 3} /\ FieldNumber(tag) # 4
          BY FieldNumbers
        <5> QED
          BY <3>2, <5>1
      <4> QED
        BY <1>1, <4>1
    <3>4. r.next + 2 + Len(b) = r.next + Len(part)
      BY <2>1, <2>2 DEF Reader
    <3> QED
      BY <3>2, <3>3, <3>4
  <2>4. Len(part) \in Nat \ {0}
    BY <2>1, <2>2
  <2> QED
    BY <2>3, <2>4 DEF ReadsPair, part, f
<1>3. ASSUME NEW pair, IsNumber(pair, 32, CONNECTED)
      PROVE  ReadsPair(w, PeerField(w), pair)
  <2> DEFINE part == pair[1]
             f == pair[2]
  <2>1. part = <<32, CONNECTED>> /\ f = <<4, <<CONNECTED>>>>
    BY <1>3, PairIs, FieldNumbers
  <2> HIDE DEF part, f
  <2>2. Len(part) = 2
    BY <2>1
  <2>3. ASSUME NEW r \in Reader, Shows(w, r.next, part)
        PROVE  PeerField(w)[r] = ReadTo(r, f, r.next + Len(part))
    <3>1. CONNECTED \in Nat /\ CONNECTED \in ConnectionTypes
      BY DEF CONNECTED, ConnectionTypes
    <3>2. /\ w[r.next] = 32
          /\ ReadEnum(w, r, ConnectionTypes) = ReadTo(r, <<FieldNumber(32), <<CONNECTED>>>>, r.next + 2)
      BY <2>1, <2>3, <3>1, ReadsNumber
    <3>3. PeerField(w)[r] = ReadEnum(w, r, ConnectionTypes)
      <4>1. FieldNumber(w[r.next]) = 4 /\ FieldNumber(w[r.next]) \notin {1, 2, 3}
        BY <3>2, FieldNumbers
      <4> QED
        BY <1>1, <4>1
    <3> QED
      BY <2>1, <2>2, <3>2, <3>3, FieldNumbers
  <2> QED
    BY <2>2, <2>3 DEF ReadsPair, part, f
<1>4. ASSUME NEW pair \in PeerPairs
      PROVE  ReadsPair(w, PeerField(w), pair)
  <2>1. \/ \E tag \in {10, 18, 24}, b \in Seq(Nat) : IsDelimited(pair, tag, b)
        \/ IsNumber(pair, 32, CONNECTED)
    BY Zenon DEF PeerPairs
  <2> QED
    BY <1>2, <1>3, <2>1, Zenon
<1> QED
  BY <1>4, Zenon DEF ReadsPairs

\* The fields of a peer.
Fields(n, s) == [i \in DOMAIN s |-> <<n, <<s[i]>>>>]
PeerFs(p) ==
  <<<<1, <<p.id>>>>>> \o Fields(2, SetToSeq(p.addrs)) \o Fields(3, SetToSeq(p.protocols))
  \o <<<<4, <<CONNECTED>>>>>>

LEMMA DelimitedPair ==
  ASSUME NEW tag \in {10, 18, 24}, NEW b \in Seq(Nat)
  PROVE  /\ Delimited(tag, b) \in Seq(Nat) /\ FieldNumber(tag) \in Nat
         /\ <<Delimited(tag, b), <<FieldNumber(tag), b>>>> \in PeerPairs
<1>1. tag \in Nat
  OBVIOUS
<1>2. Delimited(tag, b) \in Seq(Nat)
  BY <1>1, DelimitedFacts
<1>3. FieldNumber(tag) \in Nat
  BY FieldNumbers
<1>4. <<Delimited(tag, b), <<FieldNumber(tag), b>>>> \in Seq(Nat) \X (Nat \X Seq(Nat))
  BY <1>2, <1>3
<1>5. IsDelimited(<<Delimited(tag, b), <<FieldNumber(tag), b>>>>, tag, b)
  BY DEF IsDelimited
<1> QED
  BY <1>2, <1>3, <1>4, <1>5 DEF PeerPairs

LEMMA ListPairsUp ==
  ASSUME NEW s \in Seq(Nat), NEW tag \in {18, 24}
  PROVE  PairsUp([i \in DOMAIN s |-> Delimited(tag, <<s[i]>>)], Fields(FieldNumber(tag), s), PeerPairs)
<1> DEFINE p == [i \in DOMAIN s |-> Delimited(tag, <<s[i]>>)]
           f == Fields(FieldNumber(tag), s)
<1>1. DOMAIN s = 1..Len(s) /\ Len(s) \in Nat /\ tag \in Nat /\ FieldNumber(tag) \in Nat
  BY FieldNumbers
<1>2. \A i \in 1..Len(s) : s[i] \in Nat /\ <<s[i]>> \in Seq(Nat)
  OBVIOUS
<1>3. \A i \in 1..Len(s) : Delimited(tag, <<s[i]>>) \in Seq(Nat)
  BY <1>1, <1>2, DelimitedFacts
<1>4. p \in Seq(Seq(Nat)) /\ Len(p) = Len(s) /\ \A i \in 1..Len(s) : p[i] = Delimited(tag, <<s[i]>>)
  BY <1>1, <1>3
<1>5. f \in FieldSeqs /\ Len(f) = Len(s) /\ \A i \in 1..Len(s) : f[i] = <<FieldNumber(tag), <<s[i]>>>>
  <2>1. f = [i \in 1..Len(s) |-> <<FieldNumber(tag), <<s[i]>>>>]
    BY <1>1 DEF Fields
  <2>2. \A i \in 1..Len(s) : <<FieldNumber(tag), <<s[i]>>>> \in Nat \X Seq(Nat)
    BY <1>1, <1>2, Zenon
  <2>3. f \in [1..Len(s) -> Nat \X Seq(Nat)]
    BY <2>1, <2>2, Zenon
  <2> HIDE DEF f
  <2> QED
    <3>1. Len(f) = Len(s) /\ f \in FieldSeqs
      BY <1>1, <2>3 DEF FieldSeqs
    <3> QED
      BY <2>1, <3>1, Zenon
<1> HIDE DEF p, f
<1>6. \A i \in 1..Len(s) : <<p[i], f[i]>> \in PeerPairs
  <2>1. ASSUME NEW i \in 1..Len(s)
        PROVE  <<Delimited(tag, <<s[i]>>), <<FieldNumber(tag), <<s[i]>>>>>> \in PeerPairs
    <3>1. FieldNumber(tag) \in Nat /\ <<s[i]>> \in Seq(Nat) /\ s[i] \in Nat
      BY <1>1, <1>2
    <3> QED
      BY <1>3, <3>1, DelimitedPair
  <2> QED
    BY <1>4, <1>5, <2>1, Zenon
<1>7. PairsUp(p, f, PeerPairs)
  BY <1>4, <1>5, <1>6 DEF PairsUp
<1> QED
  BY <1>7 DEF p, f

\* The parts of a peer pair up with its fields.
LEMMA PeerPairsUp ==
  ASSUME NEW p \in Infos
  PROVE  PairsUp(PeerParts(p), PeerFs(p), PeerPairs)
<1> DEFINE addrs == SetToSeq(p.addrs)
           protocols == SetToSeq(p.protocols)
           q1 == <<Delimited(10, <<p.id>>)>>
           q2 == [i \in DOMAIN addrs |-> Delimited(18, <<addrs[i]>>)]
           q3 == [i \in DOMAIN protocols |-> Delimited(24, <<protocols[i]>>)]
           q4 == <<<<32, CONNECTED>>>>
<1>1. p.id \in Nat /\ addrs \in Seq(Nat) /\ protocols \in Seq(Nat)
  <2>1. /\ p.id \in Nat /\ p.addrs \in SUBSET Nat /\ IsFiniteSet(p.addrs)
        /\ p.protocols \in SUBSET Nat /\ IsFiniteSet(p.protocols)
    BY DEF Infos
  <2>2. addrs \in Seq(p.addrs) /\ protocols \in Seq(p.protocols)
    BY <2>1, SetToSeqLists DEF Lists
  <2> QED
    BY <2>1, <2>2
<1>2. PairsUp(q1, <<<<1, <<p.id>>>>>>, PeerPairs)
  <2>1. /\ Delimited(10, <<p.id>>) \in Seq(Nat) /\ <<p.id>> \in Seq(Nat)
        /\ <<Delimited(10, <<p.id>>), <<1, <<p.id>>>>>> \in PeerPairs
    <3>1. <<p.id>> \in Seq(Nat) /\ 10 \in {10, 18, 24}
      BY <1>1
    <3>2. /\ Delimited(10, <<p.id>>) \in Seq(Nat)
          /\ <<Delimited(10, <<p.id>>), <<FieldNumber(10), <<p.id>>>>>> \in PeerPairs
      BY <3>1, DelimitedPair
    <3> QED
      BY <3>1, <3>2, FieldNumbers
  <2>2. <<1, <<p.id>>>> \in Nat \X Seq(Nat)
    BY <2>1
  <2> QED
    BY <2>1, <2>2, PairUp
<1>3. PairsUp(q2, Fields(2, addrs), PeerPairs)
  BY <1>1, ListPairsUp, FieldNumbers
<1>4. PairsUp(q3, Fields(3, protocols), PeerPairs)
  BY <1>1, ListPairsUp, FieldNumbers
<1>5. PairsUp(q4, <<<<4, <<CONNECTED>>>>>>, PeerPairs)
  <2>1. <<32, CONNECTED>> \in Seq(Nat) /\ <<4, <<CONNECTED>>>> \in Nat \X Seq(Nat)
    BY DEF CONNECTED
  <2>2. <<<<32, CONNECTED>>, <<4, <<CONNECTED>>>>>> \in PeerPairs
    BY <2>1, FieldNumbers, Zenon DEF PeerPairs, IsNumber
  <2> QED
    BY <2>1, <2>2, PairUp
<1>6. PeerParts(p) = q1 \o q2 \o q3 \o q4
  BY DEF PeerParts, Each
<1> HIDE DEF q1, q2, q3, q4, addrs, protocols
<1>7. PairsUp(q1 \o q2, <<<<1, <<p.id>>>>>> \o Fields(2, addrs), PeerPairs)
  BY <1>2, <1>3, PairsUpConcat
<1>8. PairsUp(q1 \o q2 \o q3, <<<<1, <<p.id>>>>>> \o Fields(2, addrs) \o Fields(3, protocols), PeerPairs)
  BY <1>4, <1>7, PairsUpConcat
<1>9. PairsUp(q1 \o q2 \o q3 \o q4,
              <<<<1, <<p.id>>>>>> \o Fields(2, addrs) \o Fields(3, protocols) \o <<<<4, <<CONNECTED>>>>>>,
              PeerPairs)
  BY <1>5, <1>8, PairsUpConcat
<1> QED
  BY <1>6, <1>9 DEF PeerFs, addrs, protocols

\* A peer is read as it was written, wherever it is.
LEMMA ReadsWholePeer ==
  ASSUME NEW w \in Seq(Nat), NEW p \in Infos, NEW start, Shows(w, start, EncodePeer(p))
  PROVE  DecodePeer(w, start, start + Len(EncodePeer(p))) =
           [ok |-> TRUE, next |-> start + Len(EncodePeer(p)), fields |-> PeerFs(p)]
BY PeerPairsUp, ReadsPeerFields, ReadsParts DEF DecodePeer, EncodePeer

LEMMA PeerIsWritten ==
  ASSUME NEW p \in Infos
  PROVE  EncodePeer(p) \in Seq(Nat) /\ Shows(EncodePeer(p), 1, EncodePeer(p))
<1>1. EncodePeer(p) \in Seq(Nat)
  BY PeerPairsUp, Flattened DEF EncodePeer, PairsUp
<1>2. \A i \in 1..Len(EncodePeer(p)) : 1 + i - 1 = i
  OBVIOUS
<1> QED
  BY <1>1, <1>2 DEF Shows

\* A reader that stands before a peer takes the bytes of this peer.
LEMMA ReadsPeer ==
  ASSUME NEW w \in Seq(Nat), NEW r \in Reader, NEW tag \in Nat, NEW p \in Infos,
         Shows(w, r.next, Delimited(tag, EncodePeer(p)))
  PROVE  /\ w[r.next] = tag
         /\ ReadPeer(w, r) =
              ReadTo(r, <<FieldNumber(tag), EncodePeer(p)>>, r.next + 2 + Len(EncodePeer(p)))
<1> DEFINE b == EncodePeer(p)
           d == Delimited(tag, b)
           end == r.next + 2 + Len(b)
<1>1. b \in Seq(Nat)
  BY PeerIsWritten
<1> HIDE DEF b, end
<1>2. /\ w[r.next] = tag /\ w[r.next + 1] = Len(b) /\ r.next < Len(w)
      /\ SubSeq(w, r.next + 2, end - 1) = b
  <2>1. Shows(w, r.next, Delimited(tag, b))
    BY DEF b
  <2> QED
    <3>1. ReadsAsWritten(w, r, tag, b)
      BY <1>1, <2>1, ReadsBytes
    <3> QED
      BY <3>1 DEF end, ReadsAsWritten
<1>3. Shows(w, r.next + 2, b)
  <2>1. d \in Seq(Nat) /\ Len(d) = Len(b) + 2 /\ \A i \in 1..Len(b) : d[i + 2] = b[i]
    BY <1>1, DelimitedFacts
  <2> HIDE DEF d
  <2>2. Shows(d, 3, b)
    <3>1. \A i \in 1..Len(b) : 3 + i - 1 = i + 2
      OBVIOUS
    <3>2. 3 + Len(b) <= Len(d) + 1
      BY <1>1, <2>1
    <3> QED
      BY <2>1, <3>1, <3>2 DEF Shows
  <2>3. Shows(w, r.next + 3 - 1, b)
    BY <1>1, <2>1, <2>2, ShowsInside DEF b, d
  <2>4. r.next + 3 - 1 = r.next + 2
    BY DEF Reader
  <2> QED
    BY <2>3, <2>4
<1>4. DecodePeer(w, r.next + 2, end) = [ok |-> TRUE, next |-> end, fields |-> PeerFs(p)]
  BY <1>3, ReadsWholePeer DEF b, end
<1>5. ReadPeer(w, r) = Takes(w, r, SubSeq(w, r.next + 2, end - 1), end)
  BY <1>2, <1>4 DEF ReadPeer, end
<1> QED
  BY <1>2, <1>5 DEF Takes, ReadTo, b, end

-----------------------------------------------------------------------------
(* What the fields of one number hold.                                     *)

\* g has what is found in the first fields, however many.
Collects(g, fields, n) ==
  /\ g[0] = <<>>
  /\ \A i \in 1..Len(fields) :
       g[i] = IF fields[i][1] = n THEN Append(g[i - 1], fields[i][2]) ELSE g[i - 1]

\* Whatever satisfies the equations of Values is Values.
LEMMA ValuesAre ==
  ASSUME NEW fields \in FieldSeqs, NEW n, NEW g, Collects(g, fields, n)
  PROVE  Values(fields, n) = g[Len(fields)]
<1> DEFINE N == Len(fields)
           Grown(i, s) == IF fields[i][1] = n THEN Append(s, fields[i][2]) ELSE s
           Run(f) == [i \in 0..N |-> IF i = 0 THEN <<>> ELSE Grown(i, f[i - 1])]
           values == CHOOSE f : f = Run(f)
<1>1. N \in Nat
  BY DEF FieldSeqs
<1>2. g[0] = <<>> /\ \A i \in 1..N : g[i] = Grown(i, g[i - 1])
  BY DEF Collects
<1>3. Values(fields, n) = values[N]
  <2>1. \A f : \A i \in 0..N :
          (IF i = 0 THEN <<>>
           ELSE IF fields[i][1] = n THEN Append(f[i - 1], fields[i][2]) ELSE f[i - 1])
          = (IF i = 0 THEN <<>> ELSE Grown(i, f[i - 1]))
    OBVIOUS
  <2> QED
    BY Zenon DEF Values
<1> HIDE DEF N, Grown
<1>4. values = Run(values)
  <2> DEFINE f == [i \in 0..N |-> g[i]]
  <2>1. \A i \in 0..N : f[i] = IF i = 0 THEN <<>> ELSE Grown(i, f[i - 1])
    <3>1. ASSUME NEW i \in 0..N, i # 0
          PROVE  f[i] = Grown(i, f[i - 1])
      <4>1. i \in 1..N /\ i - 1 \in 0..N
        BY <1>1, <3>1
      <4> QED
        BY <1>2, <4>1
    <3> QED
      BY <1>1, <1>2, <3>1
  <2>2. f = Run(f)
    BY <2>1, Zenon
  <2> HIDE DEF f, Run
  <2> QED
    BY <2>2, Zenon
<1> HIDE DEF values
<1>5. ASSUME NEW i \in 0..N
      PROVE  values[i] = IF i = 0 THEN <<>> ELSE Grown(i, values[i - 1])
  BY <1>4
<1> HIDE DEF Run
<1> DEFINE S == {i \in 0..N : values[i] = g[i]}
<1>6. 0 \in S
  BY <1>1, <1>2, <1>5
<1>7. ASSUME NEW i \in 0..(N - 1), i \in S
      PROVE  i + 1 \in S
  <2>1. i + 1 \in 1..N /\ i + 1 \in 0..N /\ (i + 1) - 1 = i /\ i + 1 # 0
    BY <1>1
  <2>2. values[i + 1] = Grown(i + 1, values[i]) /\ g[i + 1] = Grown(i + 1, g[i])
    BY <1>2, <1>5, <2>1
  <2>3. values[i] = g[i]
    BY <1>7
  <2> QED
    BY <2>1, <2>2, <2>3
<1>8. N \in S
  <2>1. N \in 0..N
    BY <1>1
  <2> HIDE DEF S
  <2> QED
    BY <1>1, <1>6, <1>7, <2>1, CountUp
<1> QED
  BY <1>3, <1>8 DEF N

LEMMA CollectsSome ==
  ASSUME NEW fields \in FieldSeqs, NEW n
  PROVE  \E g \in [0..Len(fields) -> Seq(Seq(Nat))] : Collects(g, fields, n)
<1> DEFINE N == Len(fields)
           S == Seq(Seq(Nat))
           step == [i \in 1..N |-> [s \in S |->
                      IF fields[i][1] = n THEN Append(s, fields[i][2]) ELSE s]]
<1>1. N \in Nat /\ \A i \in 1..N : fields[i][2] \in Seq(Nat)
  BY DEF FieldSeqs
<1>2. \A i \in 1..N, s \in S :
        (IF fields[i][1] = n THEN Append(s, fields[i][2]) ELSE s) \in S
  BY <1>1
<1>3. step \in [1..N -> [S -> S]]
  BY <1>2, Zenon
<1>4. <<>> \in S
  OBVIOUS
<1>5. \A i \in 1..N, s \in S :
        step[i][s] = IF fields[i][1] = n THEN Append(s, fields[i][2]) ELSE s
  BY Zenon
<1> HIDE DEF S, step, N
<1>6. PICK f \in [0..N -> S] : Iterates(f, N, <<>>, step)
  BY <1>1, <1>3, <1>4, Recursion
<1>7. ASSUME NEW i \in 1..N
      PROVE  f[i] = IF fields[i][1] = n THEN Append(f[i - 1], fields[i][2]) ELSE f[i - 1]
  <2>1. i - 1 \in 0..N
    BY <1>1
  <2>2. f[i - 1] \in S
    BY <1>6, <2>1
  <2>3. f[i] = step[i][f[i - 1]]
    BY <1>6 DEF Iterates
  <2> QED
    BY <1>5, <2>2, <2>3
<1>8. f[0] = <<>>
  BY <1>6 DEF Iterates
<1> QED
  BY <1>6, <1>7, <1>8 DEF Collects, N, S

LEMMA AppendsToConcat ==
  ASSUME NEW s \in Seq(Seq(Nat)), NEW t \in Seq(Seq(Nat)), NEW e \in Seq(Nat)
  PROVE  Append(s \o t, e) = s \o Append(t, e)
<1> DEFINE S == Seq(Nat)
<1> HIDE DEF S
<1>0. s \in Seq(S) /\ t \in Seq(S) /\ e \in S
  BY DEF S
<1>1. s \o t \in Seq(S) /\ <<e>> \in Seq(S)
  BY <1>0, ConcatProperties
<1>2. Append(s \o t, e) = (s \o t) \o <<e>> /\ Append(t, e) = t \o <<e>>
  BY <1>0, <1>1, AppendIsConcat
<1> QED
  BY <1>0, <1>1, <1>2, ConcatAssociative

\* The values of fields one after the other.
LEMMA ValuesConcat ==
  ASSUME NEW f \in FieldSeqs, NEW h \in FieldSeqs, NEW n
  PROVE  /\ f \o h \in FieldSeqs /\ Values(f, n) \in Seq(Seq(Nat))
         /\ Values(f \o h, n) = Values(f, n) \o Values(h, n)
<1> DEFINE N == Len(f)
           M == Len(h)
           S == Seq(Nat)
<1>1. /\ N \in Nat /\ M \in Nat /\ f \o h \in FieldSeqs /\ Len(f \o h) = N + M
      /\ \A i \in 1..(N + M) : (f \o h)[i] = IF i <= N THEN f[i] ELSE h[i - N]
      /\ \A i \in 1..M : h[i][2] \in S
  <2>1. /\ f \o h \in FieldSeqs /\ Len(f \o h) = Len(f) + Len(h)
        /\ \A i \in 1..(Len(f) + Len(h)) :
             (f \o h)[i] = IF i <= Len(f) THEN f[i] ELSE h[i - Len(f)]
    BY ConcatProperties, Zenon DEF FieldSeqs
  <2> QED
    BY <2>1 DEF FieldSeqs
<1>2. PICK a \in [0..N -> Seq(S)] : Collects(a, f, n)
  BY CollectsSome
<1>3. PICK b \in [0..M -> Seq(S)] : Collects(b, h, n)
  BY CollectsSome
<1>4. Values(f, n) = a[N] /\ Values(h, n) = b[M]
  BY <1>2, <1>3, ValuesAre
<1> HIDE DEF N, M, S
<1> DEFINE g == [i \in 0..(N + M) |-> IF i <= N THEN a[i] ELSE a[N] \o b[i - N]]
<1>5. a[N] \in Seq(S) /\ b[0] = <<>> /\ a[N] \o b[0] = a[N] /\ a[0] = <<>>
  <2>1. a[N] \in Seq(S) /\ b[0] = <<>> /\ a[0] = <<>>
    BY <1>1, <1>2, <1>3 DEF Collects
  <2> QED
    BY <2>1, ConcatEmptySeq
<1>6. /\ g[0] = <<>>
      /\ \A i \in 1..N : g[i] = a[i] /\ g[i - 1] = a[i - 1]
      /\ \A i \in 1..M : g[N + i] = a[N] \o b[i] /\ g[(N + i) - 1] = a[N] \o b[i - 1]
  <2>1. g[0] = <<>>
    BY <1>1, <1>5
  <2>2. ASSUME NEW i \in 1..N
        PROVE  g[i] = a[i] /\ g[i - 1] = a[i - 1]
    BY <1>1
  <2>3. ASSUME NEW i \in 1..M
        PROVE  g[N + i] = a[N] \o b[i]
    <3>1. N + i \in 0..(N + M) /\ ~(N + i <= N) /\ (N + i) - N = i
      BY <1>1
    <3> QED
      BY <3>1
  <2>4. ASSUME NEW i \in 1..M
        PROVE  g[(N + i) - 1] = a[N] \o b[i - 1]
    <3>1. CASE i = 1
      <4>1. (N + i) - 1 = N /\ i - 1 = 0 /\ N \in 0..(N + M) /\ N <= N
        BY <1>1, <3>1
      <4>2. g[N] = a[N]
        BY <4>1
      <4> QED
        BY <1>5, <4>1, <4>2
    <3>2. CASE i # 1
      <4>1. (N + i) - 1 \in 0..(N + M) /\ ~((N + i) - 1 <= N) /\ ((N + i) - 1) - N = i - 1
        BY <1>1, <3>2
      <4> QED
        BY <4>1
    <3> QED
      BY <3>1, <3>2
  <2> QED
    BY <2>1, <2>2, <2>3, <2>4
<1> HIDE DEF g
<1> DEFINE u == f \o h
<1>7. ASSUME NEW k \in 1..(N + M)
      PROVE  g[k] = IF u[k][1] = n THEN Append(g[k - 1], u[k][2]) ELSE g[k - 1]
  <2>1. CASE k <= N
    <3>1. k \in 1..N /\ u[k] = f[k]
      BY <1>1, <2>1
    <3>2. a[k] = IF f[k][1] = n THEN Append(a[k - 1], f[k][2]) ELSE a[k - 1]
      BY <1>2, <3>1 DEF Collects, N
    <3> QED
      BY <1>6, <3>1, <3>2
  <2>2. CASE ~(k <= N)
    <3>1. PICK i \in 1..M : k = N + i
      <4>1. k - N \in 1..M /\ k = N + (k - N)
        BY <1>1, <2>2
      <4> QED
        BY <4>1
    <3>2. u[k] = h[i]
      <4>1. k - N = i /\ i \in Int
        BY <1>1, <3>1
      <4> QED
        BY <1>1, <2>2, <4>1
    <3>3. b[i] = IF h[i][1] = n THEN Append(b[i - 1], h[i][2]) ELSE b[i - 1]
      BY <1>3, <3>1 DEF Collects, M
    <3>4. g[k] = a[N] \o b[i] /\ g[k - 1] = a[N] \o b[i - 1]
      BY <1>6, <3>1
    <3>5. i - 1 \in 0..M
      BY <1>1, <3>1
    <3>6. b[i - 1] \in Seq(S) /\ h[i][2] \in S
      BY <1>1, <1>3, <3>1, <3>5
    <3>7. Append(a[N] \o b[i - 1], h[i][2]) = a[N] \o Append(b[i - 1], h[i][2])
      <4> DEFINE s == a[N]
                 t == b[i - 1]
                 e == h[i][2]
      <4>1. s \in Seq(S) /\ t \in Seq(S) /\ e \in S
        BY <1>5, <3>6
      <4> HIDE DEF s, t, e
      <4>2. Append(s \o t, e) = s \o Append(t, e)
        BY <4>1, AppendsToConcat DEF S
      <4> QED
        BY <4>2 DEF s, t, e
    <3>8. CASE h[i][1] = n
      BY <3>2, <3>3, <3>4, <3>7, <3>8
    <3>9. CASE h[i][1] # n
      BY <3>2, <3>3, <3>4, <3>9
    <3> QED
      BY <3>8, <3>9
  <2> QED
    BY <2>1, <2>2
<1>8. Collects(g, u, n)
  BY <1>1, <1>6, <1>7 DEF Collects
<1>9. Values(u, n) = g[N + M]
  BY <1>1, <1>8, ValuesAre
<1>10. g[N + M] = a[N] \o b[M]
  <2>1. CASE M = 0
    <3>1. N + M = N /\ N \in 0..(N + M)
      BY <1>1, <2>1
    <3>2. g[N] = a[N]
      BY <3>1, <1>1 DEF g
    <3> QED
      BY <1>5, <2>1, <3>1, <3>2
  <2>2. CASE M # 0
    <3>1. M \in 1..M
      BY <1>1, <2>2
    <3> QED
      BY <1>6, <3>1
  <2> QED
    BY <2>1, <2>2
<1> QED
  BY <1>1, <1>4, <1>5, <1>9, <1>10 DEF S

\* All fields have number n.
Tagged(n, values) == [i \in DOMAIN values |-> <<n, values[i]>>]

LEMMA ValuesTagged ==
  ASSUME NEW n \in Nat, NEW values \in Seq(Seq(Nat)), NEW m
  PROVE  /\ Tagged(n, values) \in FieldSeqs
         /\ Values(Tagged(n, values), m) = IF m = n THEN values ELSE <<>>
<1> DEFINE N == Len(values)
           f == Tagged(n, values)
<1>1. N \in Nat /\ DOMAIN values = 1..N /\ \A i \in 1..N : values[i] \in Seq(Nat)
  OBVIOUS
<1>2. f \in FieldSeqs /\ Len(f) = N /\ \A i \in 1..N : f[i][1] = n /\ f[i][2] = values[i]
  <2>1. f = [i \in 1..N |-> <<n, values[i]>>]
    BY <1>1 DEF Tagged
  <2>2. \A i \in 1..N : <<n, values[i]>> \in Nat \X Seq(Nat)
    BY <1>1
  <2>3. f \in [1..N -> Nat \X Seq(Nat)]
    BY <2>1, <2>2, Zenon
  <2> HIDE DEF f
  <2>4. Len(f) = N /\ f \in FieldSeqs
    <3> HIDE DEF N
    <3>1. \A S : f \in [1..N -> S] => Len(f) = N /\ f \in Seq(S)
      BY <1>1
    <3> QED
      BY <2>3, <3>1, Zenon DEF FieldSeqs
  <2> QED
    BY <2>1, <2>4
<1> HIDE DEF f, N
<1>3. CASE m = n
  <2> DEFINE g == [i \in 0..N |-> FirstOnes(values, i)]
  <2>1. ASSUME NEW i \in 1..N
        PROVE  g[i] = Append(g[i - 1], f[i][2])
    <3>1. i \in 0..N /\ i - 1 \in 0..N /\ i \in 1..Len(values)
      BY <1>1 DEF N
    <3>2. Append(FirstOnes(values, i - 1), values[i]) = FirstOnes(values, i)
      BY <3>1, FirstOnesGrow
    <3> QED
      BY <1>2, <3>1, <3>2
  <2>2. g[0] = <<>> /\ g[N] = values
    <3>1. 0 \in 0..N /\ N \in 0..N
      BY <1>1
    <3> QED
      BY <3>1, NoFirstOnes, AllFirstOnes DEF N
  <2> HIDE DEF g
  <2>3. Collects(g, f, m)
    BY <1>2, <1>3, <2>1, <2>2 DEF Collects
  <2> QED
    BY <1>2, <1>3, <2>2, <2>3, ValuesAre DEF f
<1>4. CASE m # n
  <2> DEFINE g == [i \in 0..N |-> <<>>]
  <2>1. ASSUME NEW i \in 1..N
        PROVE  g[i] = g[i - 1] /\ f[i][1] # m
    BY <1>1, <1>2, <1>4
  <2>2. g[0] = <<>> /\ g[N] = <<>>
    BY <1>1
  <2> HIDE DEF g
  <2>3. Collects(g, f, m)
    BY <1>2, <2>1, <2>2 DEF Collects
  <2> QED
    BY <1>2, <1>4, <2>2, <2>3, ValuesAre DEF f
<1> QED
  BY <1>2, <1>3, <1>4 DEF f

-----------------------------------------------------------------------------
(* A peer is decoded to what was encoded.                                  *)

Singles(s) == [i \in DOMAIN s |-> <<s[i]>>]

LEMMA SinglesAre ==
  ASSUME NEW s \in Seq(Nat)
  PROVE  /\ Singles(s) \in Seq(Seq(Nat))
         /\ \A n : Fields(n, s) = Tagged(n, Singles(s))
<1>1. DOMAIN s = 1..Len(s) /\ Len(s) \in Nat /\ \A i \in 1..Len(s) : <<s[i]>> \in Seq(Nat)
  OBVIOUS
<1>2. Singles(s) = [i \in 1..Len(s) |-> <<s[i]>>]
  BY <1>1, Zenon DEF Singles
<1>3. Singles(s) \in Seq(Seq(Nat)) /\ DOMAIN Singles(s) = DOMAIN s
  BY <1>1, <1>2
<1>4. ASSUME NEW n
      PROVE  Fields(n, s) = Tagged(n, Singles(s))
  <2>1. \A i \in DOMAIN s : Singles(s)[i] = <<s[i]>>
    BY <1>1, <1>2
  <2> QED
    BY <1>3, <2>1, Zenon DEF Fields, Tagged
<1> QED
  BY <1>3, <1>4

LEMMA SinglesHold ==
  ASSUME NEW S \in SUBSET Nat, NEW s, Lists(s, S)
  PROVE  {v[1] : v \in ToSet(Singles(s)) \ {<<>>}} = S
<1>1. S = {s[i] : i \in DOMAIN s}
  BY DEF Lists
<1>2. DOMAIN Singles(s) = DOMAIN s /\ \A i \in DOMAIN s : Singles(s)[i] = <<s[i]>>
  BY DEF Singles
<1>3. ToSet(Singles(s)) = {<<s[i]>> : i \in DOMAIN s}
  BY <1>2 DEF ToSet
<1>4. \A e : <<e>> # <<>> /\ <<e>>[1] = e
  OBVIOUS
<1>5. ToSet(Singles(s)) \ {<<>>} = {<<s[i]>> : i \in DOMAIN s}
  BY <1>3, <1>4
<1>6. \A e \in S : \E i \in DOMAIN s : e = s[i]
  BY <1>1
<1>7. \A i \in DOMAIN s : s[i] \in S
  BY <1>1
<1> DEFINE V == ToSet(Singles(s)) \ {<<>>}
<1>8. \A v \in V : v[1] \in S
  <2>1. ASSUME NEW v \in V
        PROVE  v[1] \in S
    <3>1. PICK i \in DOMAIN s : v = <<s[i]>>
      BY <1>5
    <3> QED
      BY <1>4, <1>7, <3>1
  <2> QED
    BY <2>1
<1>9. \A e \in S : \E v \in V : e = v[1]
  <2>1. ASSUME NEW e \in S
        PROVE  <<e>> \in V
    BY <1>5, <1>6
  <2> QED
    BY <1>4, <2>1
<1> HIDE DEF V
<1>10. {v[1] : v \in V} = S
  BY <1>8, <1>9
<1> QED
  BY <1>10 DEF V

LEMMA ValuesOfFour ==
  ASSUME NEW a \in FieldSeqs, NEW b \in FieldSeqs, NEW c \in FieldSeqs, NEW d \in FieldSeqs, NEW n
  PROVE  /\ a \o b \o c \o d \in FieldSeqs
         /\ Values(a \o b \o c \o d, n) = Values(a, n) \o Values(b, n) \o Values(c, n) \o Values(d, n)
<1>1. a \o b \in FieldSeqs /\ Values(a \o b, n) = Values(a, n) \o Values(b, n)
  BY ValuesConcat
<1>2. a \o b \o c \in FieldSeqs /\ Values(a \o b \o c, n) = Values(a \o b, n) \o Values(c, n)
  BY <1>1, ValuesConcat
<1>3. /\ a \o b \o c \o d \in FieldSeqs
      /\ Values(a \o b \o c \o d, n) = Values(a \o b \o c, n) \o Values(d, n)
  BY <1>2, ValuesConcat
<1> QED
  BY <1>1, <1>2, <1>3

\* What the fields of a peer hold.
LEMMA PeerFieldsHold ==
  ASSUME NEW p \in Infos
  PROVE  /\ Values(PeerFs(p), 1) = <<<<p.id>>>>
         /\ Values(PeerFs(p), 2) = Singles(SetToSeq(p.addrs))
         /\ Values(PeerFs(p), 3) = Singles(SetToSeq(p.protocols))
<1> DEFINE id == <<<<p.id>>>>
           addrs == Singles(SetToSeq(p.addrs))
           protocols == Singles(SetToSeq(p.protocols))
           connected == <<<<CONNECTED>>>>
<1>1. SetToSeq(p.addrs) \in Seq(Nat) /\ SetToSeq(p.protocols) \in Seq(Nat)
  <2>1. /\ p.addrs \in SUBSET Nat /\ IsFiniteSet(p.addrs)
        /\ p.protocols \in SUBSET Nat /\ IsFiniteSet(p.protocols)
    BY DEF Infos
  <2>2. SetToSeq(p.addrs) \in Seq(p.addrs) /\ SetToSeq(p.protocols) \in Seq(p.protocols)
    BY <2>1, SetToSeqLists DEF Lists
  <2> QED
    BY <2>1, <2>2
<1>2. id \in Seq(Seq(Nat)) /\ connected \in Seq(Seq(Nat))
  BY DEF Infos, CONNECTED
<1>3. addrs \in Seq(Seq(Nat)) /\ protocols \in Seq(Seq(Nat))
  BY <1>1, SinglesAre
<1>4. PeerFs(p) = Tagged(1, id) \o Tagged(2, addrs) \o Tagged(3, protocols) \o Tagged(4, connected)
  <2>1. Fields(2, SetToSeq(p.addrs)) = Tagged(2, addrs)
        /\ Fields(3, SetToSeq(p.protocols)) = Tagged(3, protocols)
    BY <1>1, SinglesAre
  <2>2. \A n, e : <<<<n, e>>>> = Tagged(n, <<e>>)
    BY DEF Tagged
  <2> HIDE DEF addrs, protocols
  <2>3. <<<<1, <<p.id>>>>>> = Tagged(1, id) /\ <<<<4, <<CONNECTED>>>>>> = Tagged(4, connected)
    BY <2>2, Zenon
  <2> HIDE DEF id, connected
  <2> QED
    BY <2>1, <2>3, Zenon DEF PeerFs
<1> HIDE DEF id, addrs, protocols, connected
<1>5. \A n \in 1..4 :
        Values(PeerFs(p), n) = Values(Tagged(1, id), n) \o Values(Tagged(2, addrs), n)
                               \o Values(Tagged(3, protocols), n) \o Values(Tagged(4, connected), n)
  <2>1. Tagged(1, id) \in FieldSeqs /\ Tagged(2, addrs) \in FieldSeqs
        /\ Tagged(3, protocols) \in FieldSeqs /\ Tagged(4, connected) \in FieldSeqs
    BY <1>2, <1>3, ValuesTagged
  <2> QED
    BY <1>4, <2>1, ValuesOfFour
<1>6. \A s \in Seq(Seq(Nat)) :
        /\ s \o <<>> \o <<>> \o <<>> = s /\ <<>> \o s \o <<>> \o <<>> = s
        /\ <<>> \o <<>> \o s \o <<>> = s
  <2>1. \A s \in Seq(Seq(Nat)) : s \o <<>> = s /\ <<>> \o s = s
    BY ConcatEmptySeq, Zenon
  <2>2. <<>> \in Seq(Seq(Nat))
    OBVIOUS
  <2>3. <<>> \o <<>> = <<>>
    BY <2>1, <2>2, Zenon
  <2> QED
    BY <2>1, <2>3, Zenon
<1>7. Values(PeerFs(p), 1) = id
  <2>1. /\ Values(Tagged(1, id), 1) = id /\ Values(Tagged(2, addrs), 1) = <<>>
        /\ Values(Tagged(3, protocols), 1) = <<>> /\ Values(Tagged(4, connected), 1) = <<>>
    BY <1>2, <1>3, ValuesTagged
  <2>2. Values(PeerFs(p), 1) = Values(Tagged(1, id), 1) \o Values(Tagged(2, addrs), 1)
                              \o Values(Tagged(3, protocols), 1) \o Values(Tagged(4, connected), 1)
    BY <1>5
  <2> QED
    BY <1>2, <1>6, <2>1, <2>2, Zenon
<1>8. Values(PeerFs(p), 2) = addrs
  <2>1. /\ Values(Tagged(1, id), 2) = <<>> /\ Values(Tagged(2, addrs), 2) = addrs
        /\ Values(Tagged(3, protocols), 2) = <<>> /\ Values(Tagged(4, connected), 2) = <<>>
    BY <1>2, <1>3, ValuesTagged
  <2>2. Values(PeerFs(p), 2) = Values(Tagged(1, id), 2) \o Values(Tagged(2, addrs), 2)
                              \o Values(Tagged(3, protocols), 2) \o Values(Tagged(4, connected), 2)
    BY <1>5
  <2> QED
    BY <1>3, <1>6, <2>1, <2>2, Zenon
<1>9. Values(PeerFs(p), 3) = protocols
  <2>1. /\ Values(Tagged(1, id), 3) = <<>> /\ Values(Tagged(2, addrs), 3) = <<>>
        /\ Values(Tagged(3, protocols), 3) = protocols /\ Values(Tagged(4, connected), 3) = <<>>
    BY <1>2, <1>3, ValuesTagged
  <2>2. Values(PeerFs(p), 3) = Values(Tagged(1, id), 3) \o Values(Tagged(2, addrs), 3)
                              \o Values(Tagged(3, protocols), 3) \o Values(Tagged(4, connected), 3)
    BY <1>5
  <2> QED
    BY <1>3, <1>6, <2>1, <2>2, Zenon
<1> QED
  BY <1>7, <1>8, <1>9 DEF id, addrs, protocols

\* A peer is read as it was written.
LEMMA PeerRoundTrip ==
  ASSUME NEW p \in Infos
  PROVE  HasId(EncodePeer(p)) /\ PeerOf(EncodePeer(p)) = p
<1> DEFINE b == EncodePeer(p)
<1>1. PeerFields(b) = PeerFs(p)
  <2>1. b \in Seq(Nat) /\ Shows(b, 1, b)
    BY PeerIsWritten
  <2>2. DecodePeer(b, 1, 1 + Len(b)) = [ok |-> TRUE, next |-> 1 + Len(b), fields |-> PeerFs(p)]
    BY <2>1, ReadsWholePeer, Zenon
  <2>3. 1 + Len(b) = Len(b) + 1
    BY <2>1
  <2> HIDE DEF b
  <2> QED
    BY <2>2, <2>3 DEF PeerFields
<1>2. LastOf(PeerFields(b), 1, <<>>) = <<p.id>>
  <2>1. <<<<p.id>>>> # <<>> /\ Last(<<<<p.id>>>>) = <<p.id>>
    BY DEF Last
  <2> QED
    BY <1>1, <2>1, PeerFieldsHold, Zenon DEF LastOf
<1>3. /\ {v[1] : v \in ToSet(Values(PeerFields(b), 2)) \ {<<>>}} = p.addrs
      /\ {v[1] : v \in ToSet(Values(PeerFields(b), 3)) \ {<<>>}} = p.protocols
  <2>1. /\ p.addrs \in SUBSET Nat /\ IsFiniteSet(p.addrs)
        /\ p.protocols \in SUBSET Nat /\ IsFiniteSet(p.protocols)
    BY DEF Infos
  <2>2. Lists(SetToSeq(p.addrs), p.addrs) /\ Lists(SetToSeq(p.protocols), p.protocols)
    BY <2>1, SetToSeqLists
  <2>3. /\ Values(PeerFields(b), 2) = Singles(SetToSeq(p.addrs))
        /\ Values(PeerFields(b), 3) = Singles(SetToSeq(p.protocols))
    BY <1>1, PeerFieldsHold, Zenon
  <2> HIDE DEF b
  <2> QED
    BY <2>1, <2>2, <2>3, SinglesHold
<1> HIDE DEF b
<1>4. HasId(b)
  BY <1>2 DEF HasId
<1>5. PeerOf(b) = Info(p.id, p.addrs, p.protocols)
  <2>1. PeerOf(b) = Info(LastOf(PeerFields(b), 1, <<>>)[1],
                         {v[1] : v \in ToSet(Values(PeerFields(b), 2)) \ {<<>>}},
                         {v[1] : v \in ToSet(Values(PeerFields(b), 3)) \ {<<>>}})
    BY Zenon DEF PeerOf
  <2>2. <<p.id>>[1] = p.id
    OBVIOUS
  <2> QED
    BY <1>2, <1>3, <2>1, <2>2, Zenon
<1>6. p = Info(p.id, p.addrs, p.protocols)
  BY DEF Infos, Info
<1> QED
  BY <1>4, <1>5, <1>6 DEF b

-----------------------------------------------------------------------------
(* So is a message.                                                        *)

\* The messages that this code may send.
Message ==
  [type : ToSet(MessageTypes), key : Seq(Nat), level : Nat, record : Seq(Nat),
   closer : Seq(Infos), providers : Seq(Infos)]

LEMMA TypeNumbers ==
  ASSUME NEW type \in ToSet(MessageTypes)
  PROVE  TypeNumber(type) \in 0..5 /\ MessageTypes[TypeNumber(type) + 1] = type
<1>1. DOMAIN MessageTypes = 1..6
  BY DEF MessageTypes
<1>2. \E i \in DOMAIN MessageTypes : MessageTypes[i] = type
  BY DEF ToSet
<1> DEFINE i == CHOOSE i \in DOMAIN MessageTypes : MessageTypes[i] = type
<1>3. i \in DOMAIN MessageTypes /\ MessageTypes[i] = type
  BY <1>2
<1>4. TypeNumber(type) = i - 1
  BY DEF TypeNumber
<1> HIDE DEF i
<1>5. i - 1 \in 0..5 /\ (i - 1) + 1 = i
  BY <1>1, <1>3
<1> QED
  BY <1>3, <1>4, <1>5

\* What may be written of a message, and its field.
MessagePairs ==
  {pair \in Seq(Nat) \X (Nat \X Seq(Nat)) :
     \/ \E v \in 0..5 : IsNumber(pair, 8, v)
     \/ \E v \in Nat : IsNumber(pair, 80, v)
     \/ \E tag \in {18, 26}, b \in Seq(Nat) : IsDelimited(pair, tag, b)
     \/ \E tag \in {66, 74}, p \in Infos : IsDelimited(pair, tag, EncodePeer(p))}

LEMMA MessageFieldIs ==
  ASSUME NEW w, NEW r \in Reader
  PROVE  /\ FieldNumber(w[r.next]) = 1 =>
              MessageField(w)[r] = ReadEnum(w, r, 0..(Len(MessageTypes) - 1))
         /\ FieldNumber(w[r.next]) = 10 => MessageField(w)[r] = ReadNumber(w, r)
         /\ FieldNumber(w[r.next]) \in {2, 3} => MessageField(w)[r] = ReadBytes(w, r)
         /\ FieldNumber(w[r.next]) \in {8, 9} => MessageField(w)[r] = ReadPeer(w, r)
<1> DEFINE n == FieldNumber(w[r.next])
<1>1. MessageField(w)[r] =
        CASE n = 1 -> ReadEnum(w, r, 0..(Len(MessageTypes) - 1))
          [] n = 10 -> ReadNumber(w, r)
          [] n \in {2, 3} -> ReadBytes(w, r)
          [] n \in {8, 9} -> ReadPeer(w, r)
          [] OTHER -> Skip(w, r)
  BY DEF MessageField
<1> HIDE DEF n
<1>2. n = 1 => n # 10 /\ n \notin {2, 3} /\ n \notin {8, 9}
  OBVIOUS
<1>3. n = 10 => n # 1 /\ n \notin {2, 3} /\ n \notin {8, 9}
  OBVIOUS
<1>4. n \in {2, 3} => n # 1 /\ n # 10 /\ n \notin {8, 9}
  OBVIOUS
<1>5. n \in {8, 9} => n # 1 /\ n # 10 /\ n \notin {2, 3}
  OBVIOUS
<1>6. /\ n = 1 => MessageField(w)[r] = ReadEnum(w, r, 0..(Len(MessageTypes) - 1))
      /\ n = 10 => MessageField(w)[r] = ReadNumber(w, r)
      /\ n \in {2, 3} => MessageField(w)[r] = ReadBytes(w, r)
      /\ n \in {8, 9} => MessageField(w)[r] = ReadPeer(w, r)
  BY <1>1, <1>2, <1>3, <1>4, <1>5
<1> QED
  BY <1>6 DEF n

\* The decoder of Message takes each field that the encoder writes.
LEMMA ReadsMessageFields ==
  ASSUME NEW w \in Seq(Nat)
  PROVE  ReadsPairs(w, MessageField(w), MessagePairs)
<1>1. ASSUME NEW pair, NEW v \in 0..5, IsNumber(pair, 8, v)
      PROVE  ReadsPair(w, MessageField(w), pair)
  <2> DEFINE part == pair[1]
             f == pair[2]
  <2>1. part = <<8, v>> /\ f = <<FieldNumber(8), <<v>>>> /\ v \in Nat
    BY <1>1, PairIs
  <2> HIDE DEF part, f
  <2>2. Len(part) = 2
    BY <2>1
  <2>3. ASSUME NEW r \in Reader, Shows(w, r.next, part)
        PROVE  MessageField(w)[r] = ReadTo(r, f, r.next + Len(part))
    <3>1. v \in 0..(Len(MessageTypes) - 1)
      BY DEF MessageTypes
    <3>2. /\ w[r.next] = 8
          /\ ReadEnum(w, r, 0..(Len(MessageTypes) - 1)) =
               ReadTo(r, <<FieldNumber(8), <<v>>>>, r.next + 2)
      BY <2>1, <2>3, <3>1, ReadsNumber
    <3>3. MessageField(w)[r] = ReadEnum(w, r, 0..(Len(MessageTypes) - 1))
      BY <3>2, MessageFieldIs, FieldNumbers
    <3> QED
      BY <2>1, <2>2, <3>2, <3>3
  <2> QED
    BY <2>2, <2>3 DEF ReadsPair, part, f
<1>2. ASSUME NEW pair, NEW v \in Nat, IsNumber(pair, 80, v)
      PROVE  ReadsPair(w, MessageField(w), pair)
  <2> DEFINE part == pair[1]
             f == pair[2]
  <2>1. part = <<80, v>> /\ f = <<FieldNumber(80), <<v>>>>
    BY <1>2, PairIs
  <2> HIDE DEF part, f
  <2>2. Len(part) = 2
    BY <2>1
  <2>3. ASSUME NEW r \in Reader, Shows(w, r.next, part)
        PROVE  MessageField(w)[r] = ReadTo(r, f, r.next + Len(part))
    <3>1. w[r.next] = 80 /\ ReadNumber(w, r) = ReadTo(r, <<FieldNumber(80), <<v>>>>, r.next + 2)
      BY <2>1, <2>3, ReadsNumber
    <3>2. MessageField(w)[r] = ReadNumber(w, r)
      BY <3>1, MessageFieldIs, FieldNumbers
    <3> QED
      BY <2>1, <2>2, <3>1, <3>2
  <2> QED
    BY <2>2, <2>3 DEF ReadsPair, part, f
<1>3. ASSUME NEW pair, NEW tag \in {18, 26}, NEW b \in Seq(Nat), IsDelimited(pair, tag, b)
      PROVE  ReadsPair(w, MessageField(w), pair)
  <2> DEFINE part == pair[1]
             f == pair[2]
  <2>1. tag \in Nat /\ Len(b) \in Nat /\ part = Delimited(tag, b) /\ f = <<FieldNumber(tag), b>>
    BY <1>3, PairIs
  <2> HIDE DEF part, f
  <2>2. Len(part) = 2 + Len(b)
    BY <2>1, DelimitedFacts
  <2>3. ASSUME NEW r \in Reader, Shows(w, r.next, part)
        PROVE  MessageField(w)[r] = ReadTo(r, f, r.next + Len(part))
    <3>1. ReadsAsWritten(w, r, tag, b)
      BY <2>1, <2>3, ReadsBytes
    <3>2. w[r.next] = tag /\ ReadBytes(w, r) = ReadTo(r, f, r.next + 2 + Len(b))
      BY <2>1, <3>1 DEF ReadsAsWritten
    <3>3. MessageField(w)[r] = ReadBytes(w, r)
      <4>1. FieldNumber(tag) \in {2, 3}
        BY FieldNumbers
      <4> QED
        BY <3>2, <4>1, MessageFieldIs
    <3>4. r.next + 2 + Len(b) = r.next + Len(part)
      BY <2>1, <2>2 DEF Reader
    <3> QED
      BY <3>2, <3>3, <3>4
  <2>4. Len(part) \in Nat \ {0}
    BY <2>1, <2>2
  <2> QED
    BY <2>3, <2>4 DEF ReadsPair, part, f
<1>4. ASSUME NEW pair, NEW tag \in {66, 74}, NEW p \in Infos, IsDelimited(pair, tag, EncodePeer(p))
      PROVE  ReadsPair(w, MessageField(w), pair)
  <2> DEFINE part == pair[1]
             f == pair[2]
             b == EncodePeer(p)
  <2>1. b \in Seq(Nat)
    BY PeerIsWritten
  <2>2. part = Delimited(tag, b) /\ f = <<FieldNumber(tag), b>>
    BY <1>4, PairIs
  <2>3. tag \in Nat /\ Len(b) \in Nat
    BY <2>1
  <2> HIDE DEF part, f, b
  <2>4. Len(part) = 2 + Len(b)
    BY <2>1, <2>2, <2>3, DelimitedFacts
  <2>5. ASSUME NEW r \in Reader, Shows(w, r.next, part)
        PROVE  MessageField(w)[r] = ReadTo(r, f, r.next + Len(part))
    <3>1. w[r.next] = tag /\ ReadPeer(w, r) = ReadTo(r, f, r.next + 2 + Len(b))
      <4>1. Shows(w, r.next, Delimited(tag, EncodePeer(p)))
        BY <2>2, <2>5 DEF b
      <4> QED
        BY <2>2, <2>3, <4>1, ReadsPeer DEF b
    <3>2. MessageField(w)[r] = ReadPeer(w, r)
      <4>1. FieldNumber(tag) \in {8, 9}
        BY FieldNumbers
      <4> QED
        BY <3>1, <4>1, MessageFieldIs
    <3>3. r.next + 2 + Len(b) = r.next + Len(part)
      BY <2>3, <2>4 DEF Reader
    <3> QED
      BY <3>1, <3>2, <3>3
  <2>6. Len(part) \in Nat \ {0}
    BY <2>3, <2>4
  <2> QED
    BY <2>5, <2>6 DEF ReadsPair, part, f
<1>5. ASSUME NEW pair \in MessagePairs
      PROVE  ReadsPair(w, MessageField(w), pair)
  <2>1. \/ \E v \in 0..5 : IsNumber(pair, 8, v)
        \/ \E v \in Nat : IsNumber(pair, 80, v)
        \/ \E tag \in {18, 26}, b \in Seq(Nat) : IsDelimited(pair, tag, b)
        \/ \E tag \in {66, 74}, p \in Infos : IsDelimited(pair, tag, EncodePeer(p))
    BY Zenon DEF MessagePairs
  <2> QED
    BY <1>1, <1>2, <1>3, <1>4, <2>1, Zenon
<1> QED
  BY <1>5, Zenon DEF ReadsPairs

Has(pairs, part, f) ==
  part \in Seq(Nat) /\ f \in Nat \X Seq(Nat) /\ <<part, f>> \in pairs

LEMMA MessagePairsHave ==
  /\ \A v \in 0..5 : Has(MessagePairs, <<8, v>>, <<1, <<v>>>>)
  /\ \A v \in Nat : Has(MessagePairs, <<80, v>>, <<10, <<v>>>>)
  /\ \A tag \in {18, 26}, b \in Seq(Nat) :
       Has(MessagePairs, Delimited(tag, b), <<FieldNumber(tag), b>>)
  /\ \A tag \in {66, 74}, p \in Infos :
       Has(MessagePairs, Delimited(tag, EncodePeer(p)), <<FieldNumber(tag), EncodePeer(p)>>)
<1>1. ASSUME NEW v \in 0..5
      PROVE  Has(MessagePairs, <<8, v>>, <<1, <<v>>>>)
  <2>1. <<8, v>> \in Seq(Nat) /\ <<1, <<v>>>> \in Nat \X Seq(Nat)
    OBVIOUS
  <2>2. IsNumber(<<<<8, v>>, <<1, <<v>>>>>>, 8, v)
    BY FieldNumbers DEF IsNumber
  <2> QED
    BY <2>1, <2>2 DEF MessagePairs, Has
<1>2. ASSUME NEW v \in Nat
      PROVE  Has(MessagePairs, <<80, v>>, <<10, <<v>>>>)
  <2>1. <<80, v>> \in Seq(Nat) /\ <<10, <<v>>>> \in Nat \X Seq(Nat)
    OBVIOUS
  <2>2. IsNumber(<<<<80, v>>, <<10, <<v>>>>>>, 80, v)
    BY FieldNumbers DEF IsNumber
  <2> QED
    BY <2>1, <2>2 DEF MessagePairs, Has
<1>3. ASSUME NEW tag \in {18, 26, 66, 74}, NEW b \in Seq(Nat)
      PROVE  /\ Delimited(tag, b) \in Seq(Nat) /\ <<FieldNumber(tag), b>> \in Nat \X Seq(Nat)
             /\ IsDelimited(<<Delimited(tag, b), <<FieldNumber(tag), b>>>>, tag, b)
  <2>1. tag \in Nat
    OBVIOUS
  <2>2. Delimited(tag, b) \in Seq(Nat)
    BY <2>1, DelimitedFacts
  <2>3. FieldNumber(tag) \in Nat
    BY FieldNumbers
  <2>4. IsDelimited(<<Delimited(tag, b), <<FieldNumber(tag), b>>>>, tag, b)
    BY DEF IsDelimited
  <2> QED
    BY <2>2, <2>3, <2>4
<1>4. ASSUME NEW tag \in {18, 26}, NEW b \in Seq(Nat)
      PROVE  Has(MessagePairs, Delimited(tag, b), <<FieldNumber(tag), b>>)
  BY <1>3 DEF MessagePairs, Has
<1>5. ASSUME NEW tag \in {66, 74}, NEW p \in Infos
      PROVE  Has(MessagePairs, Delimited(tag, EncodePeer(p)), <<FieldNumber(tag), EncodePeer(p)>>)
  <2>1. EncodePeer(p) \in Seq(Nat)
    BY PeerIsWritten
  <2> QED
    BY <1>3, <2>1 DEF MessagePairs, Has
<1> QED
  BY <1>1, <1>2, <1>4, <1>5

\* The fields of a message.
PeerValues(s) == [i \in DOMAIN s |-> EncodePeer(s[i])]
MessageFs(m) ==
  Tagged(1, <<<<TypeNumber(m.type)>>>>) \o Tagged(10, <<<<m.level>>>>) \o Tagged(2, <<m.key>>)
  \o Tagged(3, IF m.record = <<>> THEN <<>> ELSE <<m.record>>)
  \o Tagged(8, PeerValues(m.closer)) \o Tagged(9, PeerValues(m.providers))

LEMMA PeerValuesAre ==
  ASSUME NEW s \in Seq(Infos)
  PROVE  /\ PeerValues(s) \in Seq(Seq(Nat)) /\ Len(PeerValues(s)) = Len(s)
         /\ \A i \in 1..Len(s) : PeerValues(s)[i] = EncodePeer(s[i])
<1>1. DOMAIN s = 1..Len(s) /\ Len(s) \in Nat /\ \A i \in 1..Len(s) : s[i] \in Infos
  OBVIOUS
<1>2. \A i \in 1..Len(s) : EncodePeer(s[i]) \in Seq(Nat)
  BY <1>1, PeerIsWritten
<1>3. PeerValues(s) = [i \in 1..Len(s) |-> EncodePeer(s[i])]
  BY <1>1 DEF PeerValues
<1> QED
  BY <1>1, <1>2, <1>3

LEMMA TaggedOne ==
  ASSUME NEW pairs, NEW part, NEW n, NEW v, Has(pairs, part, <<n, v>>)
  PROVE  PairsUp(<<part>>, Tagged(n, <<v>>), pairs)
<1>1. Tagged(n, <<v>>) = <<<<n, v>>>>
  BY DEF Tagged
<1>2. part \in Seq(Nat) /\ <<n, v>> \in Nat \X Seq(Nat) /\ <<part, <<n, v>>>> \in pairs
  BY DEF Has
<1>3. PairsUp(<<part>>, <<<<n, v>>>>, pairs)
  BY <1>2, PairUp
<1> QED
  BY <1>1, <1>3

LEMMA PeersPairUp ==
  ASSUME NEW s \in Seq(Infos), NEW tag \in {66, 74}
  PROVE  PairsUp([i \in DOMAIN s |-> Delimited(tag, EncodePeer(s[i]))],
                 Tagged(FieldNumber(tag), PeerValues(s)), MessagePairs)
<1> DEFINE parts == [i \in DOMAIN s |-> Delimited(tag, EncodePeer(s[i]))]
           n == FieldNumber(tag)
           fs == Tagged(n, PeerValues(s))
           N == Len(s)
<1>1. DOMAIN s = 1..N /\ N \in Nat /\ \A i \in 1..N : s[i] \in Infos
  OBVIOUS
<1>2. \A i \in 1..N : Has(MessagePairs, Delimited(tag, EncodePeer(s[i])), <<n, EncodePeer(s[i])>>)
  BY <1>1, MessagePairsHave
<1>3. parts \in Seq(Seq(Nat)) /\ Len(parts) = N
      /\ \A i \in 1..N : parts[i] = Delimited(tag, EncodePeer(s[i]))
  <2>1. \A i \in 1..N : Delimited(tag, EncodePeer(s[i])) \in Seq(Nat)
    BY <1>2 DEF Has
  <2> QED
    BY <1>1, <2>1
<1>4. n \in Nat
  BY FieldNumbers
<1> HIDE DEF parts, n
<1>5. fs \in FieldSeqs /\ Len(fs) = N /\ \A i \in 1..N : fs[i] = <<n, EncodePeer(s[i])>>
  <2>1. /\ PeerValues(s) \in Seq(Seq(Nat)) /\ Len(PeerValues(s)) = N
        /\ \A i \in 1..N : PeerValues(s)[i] = EncodePeer(s[i])
    BY PeerValuesAre
  <2>2. fs \in FieldSeqs
    BY <1>4, <2>1, ValuesTagged
  <2>3. fs = [i \in 1..N |-> <<n, PeerValues(s)[i]>>]
    BY <2>1 DEF Tagged
  <2>4. Len(fs) = N
    BY <1>1, <2>3
  <2> QED
    BY <2>1, <2>2, <2>3, <2>4
<1> HIDE DEF fs, N
<1>6. \A i \in 1..N : <<parts[i], fs[i]>> \in MessagePairs
  BY <1>2, <1>3, <1>5 DEF Has
<1>7. PairsUp(parts, fs, MessagePairs)
  BY <1>3, <1>5, <1>6 DEF PairsUp
<1> QED
  BY <1>7 DEF parts, fs, n

LEMMA Three ==
  ASSUME NEW a, NEW b, NEW c
  PROVE  <<a>> \o <<b>> \o <<c>> = <<a, b, c>>
<1> DEFINE S == {a, b, c}
           t == <<a, b, c>>
<1>1. <<a>> \in Seq(S) /\ <<b>> \in Seq(S) /\ <<c>> \in Seq(S) /\ t \in Seq(S)
  OBVIOUS
<1>2. /\ Len(<<a>>) = 1 /\ Len(<<b>>) = 1 /\ Len(<<c>>) = 1 /\ Len(t) = 3
      /\ <<a>>[1] = a /\ <<b>>[1] = b /\ <<c>>[1] = c /\ t[1] = a /\ t[2] = b /\ t[3] = c
  OBVIOUS
<1> DEFINE x == <<a>>
           y == <<b>>
           z == <<c>>
<1> HIDE DEF S, x, y, z, t
<1>3. x \o y \in Seq(S) /\ Len(x \o y) = 2 /\ (x \o y)[1] = a /\ (x \o y)[2] = b
  <2>1. /\ x \o y \in Seq(S) /\ Len(x \o y) = 1 + 1
        /\ \A i \in 1..2 : (x \o y)[i] = IF i <= 1 THEN x[i] ELSE y[i - 1]
    BY <1>1, <1>2, ConcatProperties DEF x, y
  <2>2. (x \o y)[1] = x[1] /\ (x \o y)[2] = y[1]
    BY <2>1
  <2> QED
    BY <1>2, <2>1, <2>2 DEF x, y
<1> DEFINE u == x \o y
<1> HIDE DEF u
<1>4. u \o z \in Seq(S) /\ Len(u \o z) = 3
      /\ (u \o z)[1] = a /\ (u \o z)[2] = b /\ (u \o z)[3] = c
  <2>1. z \in Seq(S) /\ Len(z) = 1 /\ z[1] = c
    BY <1>1, <1>2 DEF z
  <2>2. u \in Seq(S) /\ Len(u) = 2 /\ u[1] = a /\ u[2] = b
    BY <1>3 DEF u
  <2>3. /\ u \o z \in Seq(S) /\ Len(u \o z) = 2 + 1
        /\ \A i \in 1..3 : (u \o z)[i] = IF i <= 2 THEN u[i] ELSE z[i - 2]
    <3>1. /\ u \o z \in Seq(S) /\ Len(u \o z) = Len(u) + Len(z)
          /\ \A i \in 1..(Len(u) + Len(z)) :
               (u \o z)[i] = IF i <= Len(u) THEN u[i] ELSE z[i - Len(u)]
      BY <2>1, <2>2, ConcatProperties, Zenon
    <3> QED
      BY <2>1, <2>2, <3>1
  <2> QED
    BY <2>1, <2>2, <2>3
<1>5. u \o z = t
  <2>1. \A i \in 1..3 : i = 1 \/ i = 2 \/ i = 3
    OBVIOUS
  <2>2. t \in Seq(S) /\ Len(t) = 3 /\ t[1] = a /\ t[2] = b /\ t[3] = c
    BY <1>1, <1>2
  <2>3. \A i \in 1..3 : (u \o z)[i] = t[i]
    BY <1>4, <2>1, <2>2, Zenon
  <2> DEFINE v == u \o z
  <2>4. v \in Seq(S) /\ Len(v) = 3 /\ \A i \in 1..3 : v[i] = t[i]
    BY <1>4, <2>3
  <2> HIDE DEF v
  <2>5. v = t
    BY <2>2, <2>4
  <2> QED
    BY <2>5 DEF v
<1> QED
  BY <1>5 DEF u, x, y, z, t

\* The parts of a message pair up with its fields.
LEMMA MessagePairsUp ==
  ASSUME NEW m \in Message
  PROVE  PairsUp(Parts(m), MessageFs(m), MessagePairs)
<1> DEFINE q1 == <<<<8, TypeNumber(m.type)>>>>
           q2 == <<<<80, m.level>>>>
           q3 == <<Delimited(18, m.key)>>
           q4 == IF m.record = <<>> THEN <<>> ELSE <<Delimited(26, m.record)>>
           q5 == Each(m.closer, LAMBDA p : Delimited(66, EncodePeer(p)))
           q6 == Each(m.providers, LAMBDA p : Delimited(74, EncodePeer(p)))
           f1 == Tagged(1, <<<<TypeNumber(m.type)>>>>)
           f2 == Tagged(10, <<<<m.level>>>>)
           f3 == Tagged(2, <<m.key>>)
           f4 == Tagged(3, IF m.record = <<>> THEN <<>> ELSE <<m.record>>)
           f5 == Tagged(8, PeerValues(m.closer))
           f6 == Tagged(9, PeerValues(m.providers))
<1>1. /\ TypeNumber(m.type) \in 0..5 /\ m.key \in Seq(Nat) /\ m.level \in Nat
      /\ m.record \in Seq(Nat) /\ m.closer \in Seq(Infos) /\ m.providers \in Seq(Infos)
  BY TypeNumbers DEF Message
<1>2. PairsUp(q1, f1, MessagePairs)
  BY <1>1, MessagePairsHave, TaggedOne
<1>3. PairsUp(q2, f2, MessagePairs)
  BY <1>1, MessagePairsHave, TaggedOne
<1>4. PairsUp(q3, f3, MessagePairs)
  <2>1. Has(MessagePairs, Delimited(18, m.key), <<2, m.key>>)
    BY <1>1, MessagePairsHave, FieldNumbers
  <2> QED
    BY <2>1, TaggedOne
<1>5. PairsUp(q4, f4, MessagePairs)
  <2>1. CASE m.record = <<>>
    <3>1. q4 = <<>> /\ f4 = <<>>
      BY <2>1 DEF Tagged
    <3> QED
      BY <3>1, NonePairUp
  <2>2. CASE m.record # <<>>
    <3>1. q4 = <<Delimited(26, m.record)>> /\ f4 = Tagged(3, <<m.record>>)
      BY <2>2
    <3>2. Has(MessagePairs, Delimited(26, m.record), <<3, m.record>>)
      BY <1>1, MessagePairsHave, FieldNumbers
    <3> QED
      BY <3>1, <3>2, TaggedOne
  <2> QED
    BY <2>1, <2>2
<1>6. PairsUp(q5, f5, MessagePairs)
  <2>1. q5 = [i \in DOMAIN m.closer |-> Delimited(66, EncodePeer(m.closer[i]))]
    BY DEF Each
  <2> QED
    BY <1>1, <2>1, PeersPairUp, FieldNumbers
<1>7. PairsUp(q6, f6, MessagePairs)
  <2>1. q6 = [i \in DOMAIN m.providers |-> Delimited(74, EncodePeer(m.providers[i]))]
    BY DEF Each
  <2> QED
    BY <1>1, <2>1, PeersPairUp, FieldNumbers
<1>8. Parts(m) = q1 \o q2 \o q3 \o q4 \o q5 \o q6
  <2>1. <<<<8, TypeNumber(m.type)>>, <<80, m.level>>, Delimited(18, m.key)>> = q1 \o q2 \o q3
    BY Three
  <2> QED
    BY <2>1, Zenon DEF Parts
<1>9. MessageFs(m) = f1 \o f2 \o f3 \o f4 \o f5 \o f6
  BY DEF MessageFs
<1> HIDE DEF q1, q2, q3, q4, q5, q6, f1, f2, f3, f4, f5, f6
<1>10. PairsUp(q1 \o q2, f1 \o f2, MessagePairs)
  BY <1>2, <1>3, PairsUpConcat
<1>11. PairsUp(q1 \o q2 \o q3, f1 \o f2 \o f3, MessagePairs)
  BY <1>4, <1>10, PairsUpConcat
<1>12. PairsUp(q1 \o q2 \o q3 \o q4, f1 \o f2 \o f3 \o f4, MessagePairs)
  BY <1>5, <1>11, PairsUpConcat
<1>13. PairsUp(q1 \o q2 \o q3 \o q4 \o q5, f1 \o f2 \o f3 \o f4 \o f5, MessagePairs)
  BY <1>6, <1>12, PairsUpConcat
<1>14. PairsUp(q1 \o q2 \o q3 \o q4 \o q5 \o q6, f1 \o f2 \o f3 \o f4 \o f5 \o f6, MessagePairs)
  BY <1>7, <1>13, PairsUpConcat
<1> QED
  BY <1>8, <1>9, <1>14
LEMMA ValuesGrow ==
  ASSUME NEW f \in FieldSeqs, NEW n \in Nat, NEW values \in Seq(Seq(Nat))
  PROVE  /\ f \o Tagged(n, values) \in FieldSeqs
         /\ \A k : k # n => Values(f \o Tagged(n, values), k) = Values(f, k)
         /\ Values(f, n) = <<>> => Values(f \o Tagged(n, values), n) = values
<1>1. /\ Tagged(n, values) \in FieldSeqs /\ Values(Tagged(n, values), n) = values
      /\ \A k : k # n => Values(Tagged(n, values), k) = <<>>
  BY ValuesTagged
<1>2. \A k : /\ f \o Tagged(n, values) \in FieldSeqs /\ Values(f, k) \in Seq(Seq(Nat))
             /\ Values(f \o Tagged(n, values), k) = Values(f, k) \o Values(Tagged(n, values), k)
  BY <1>1, ValuesConcat
<1>3. \A k : k # n => Values(f \o Tagged(n, values), k) = Values(f, k)
  BY <1>1, <1>2, ConcatEmptySeq
<1>4. Values(f, n) = <<>> => Values(f \o Tagged(n, values), n) = values
  <2>1. <<>> \o values = values
    BY ConcatEmptySeq
  <2> QED
    BY <1>1, <1>2, <2>1
<1> QED
  BY <1>2, <1>3, <1>4

\* What the fields of a message hold.
LEMMA MessageFieldsHold ==
  ASSUME NEW m \in Message
  PROVE  /\ Values(MessageFs(m), 1) = <<<<TypeNumber(m.type)>>>>
         /\ Values(MessageFs(m), 10) = <<<<m.level>>>>
         /\ Values(MessageFs(m), 2) = <<m.key>>
         /\ Values(MessageFs(m), 3) = IF m.record = <<>> THEN <<>> ELSE <<m.record>>
         /\ Values(MessageFs(m), 8) = PeerValues(m.closer)
         /\ Values(MessageFs(m), 9) = PeerValues(m.providers)
<1> DEFINE v1 == <<<<TypeNumber(m.type)>>>>
           v10 == <<<<m.level>>>>
           v2 == <<m.key>>
           v3 == IF m.record = <<>> THEN <<>> ELSE <<m.record>>
           v8 == PeerValues(m.closer)
           v9 == PeerValues(m.providers)
           S == Seq(Seq(Nat))
<1>1. v1 \in S /\ v10 \in S /\ v2 \in S /\ v3 \in S /\ v8 \in S /\ v9 \in S
  <2>1. /\ TypeNumber(m.type) \in Nat /\ m.key \in Seq(Nat) /\ m.level \in Nat
        /\ m.record \in Seq(Nat) /\ m.closer \in Seq(Infos) /\ m.providers \in Seq(Infos)
    <3>1. m.type \in ToSet(MessageTypes)
      BY DEF Message
    <3>2. TypeNumber(m.type) \in 0..5
      BY <3>1, TypeNumbers
    <3> QED
      BY <3>2 DEF Message
  <2>2. v8 \in S /\ v9 \in S
    BY <2>1, PeerValuesAre
  <2>3. v1 \in S /\ v10 \in S /\ v2 \in S /\ v3 \in S
    BY <2>1
  <2> QED
    BY <2>2, <2>3
<1> DEFINE f1 == Tagged(1, v1)
           f2 == f1 \o Tagged(10, v10)
           f3 == f2 \o Tagged(2, v2)
           f4 == f3 \o Tagged(3, v3)
           f5 == f4 \o Tagged(8, v8)
           f6 == f5 \o Tagged(9, v9)
<1>2. MessageFs(m) = f6
  BY DEF MessageFs
<1> HIDE DEF v1, v10, v2, v3, v8, v9
<1>3. f1 \in FieldSeqs /\ \A k : Values(f1, k) = IF k = 1 THEN v1 ELSE <<>>
  BY <1>1, ValuesTagged
<1> HIDE DEF f1
<1>4. /\ f2 \in FieldSeqs /\ Values(f2, 1) = v1 /\ Values(f2, 10) = v10
      /\ Values(f2, 2) = <<>> /\ Values(f2, 3) = <<>> /\ Values(f2, 8) = <<>> /\ Values(f2, 9) = <<>>
  <2>1. /\ f2 \in FieldSeqs
        /\ \A k : k # 10 => Values(f2, k) = Values(f1, k)
        /\ Values(f1, 10) = <<>> => Values(f2, 10) = v10
    BY <1>1, <1>3, ValuesGrow
  <2> QED
    BY <1>3, <2>1
<1> HIDE DEF f2
<1>5. /\ f3 \in FieldSeqs /\ Values(f3, 1) = v1 /\ Values(f3, 10) = v10 /\ Values(f3, 2) = v2
      /\ Values(f3, 3) = <<>> /\ Values(f3, 8) = <<>> /\ Values(f3, 9) = <<>>
  <2>1. /\ f3 \in FieldSeqs
        /\ \A k : k # 2 => Values(f3, k) = Values(f2, k)
        /\ Values(f2, 2) = <<>> => Values(f3, 2) = v2
    BY <1>1, <1>4, ValuesGrow
  <2> QED
    BY <1>4, <2>1
<1> HIDE DEF f3
<1>6. /\ f4 \in FieldSeqs /\ Values(f4, 1) = v1 /\ Values(f4, 10) = v10 /\ Values(f4, 2) = v2
      /\ Values(f4, 3) = v3 /\ Values(f4, 8) = <<>> /\ Values(f4, 9) = <<>>
  <2>1. /\ f4 \in FieldSeqs
        /\ \A k : k # 3 => Values(f4, k) = Values(f3, k)
        /\ Values(f3, 3) = <<>> => Values(f4, 3) = v3
    BY <1>1, <1>5, ValuesGrow
  <2> QED
    BY <1>5, <2>1
<1> HIDE DEF f4
<1>7. /\ f5 \in FieldSeqs /\ Values(f5, 1) = v1 /\ Values(f5, 10) = v10 /\ Values(f5, 2) = v2
      /\ Values(f5, 3) = v3 /\ Values(f5, 8) = v8 /\ Values(f5, 9) = <<>>
  <2>1. /\ f5 \in FieldSeqs
        /\ \A k : k # 8 => Values(f5, k) = Values(f4, k)
        /\ Values(f4, 8) = <<>> => Values(f5, 8) = v8
    BY <1>1, <1>6, ValuesGrow
  <2> QED
    BY <1>6, <2>1
<1> HIDE DEF f5
<1>8. /\ Values(f6, 1) = v1 /\ Values(f6, 10) = v10 /\ Values(f6, 2) = v2
      /\ Values(f6, 3) = v3 /\ Values(f6, 8) = v8 /\ Values(f6, 9) = v9
  <2>1. /\ \A k : k # 9 => Values(f6, k) = Values(f5, k)
        /\ Values(f5, 9) = <<>> => Values(f6, 9) = v9
    BY <1>1, <1>7, ValuesGrow
  <2> QED
    BY <1>7, <2>1
<1> QED
  BY <1>2, <1>8 DEF v1, v10, v2, v3, v8, v9

\* The peers of a message are read as they were written.
LEMMA PeersRoundTrip ==
  ASSUME NEW s \in Seq(Infos)
  PROVE  /\ [i \in DOMAIN PeerValues(s) |-> PeerOf(PeerValues(s)[i])] = s
         /\ \A b \in ToSet(PeerValues(s)) : HasId(b)
<1>1. /\ DOMAIN s = 1..Len(s) /\ s = [i \in 1..Len(s) |-> s[i]]
      /\ \A i \in 1..Len(s) : s[i] \in Infos
  OBVIOUS
<1>2. DOMAIN PeerValues(s) = 1..Len(s)
      /\ \A i \in 1..Len(s) : PeerValues(s)[i] = EncodePeer(s[i])
  BY <1>1 DEF PeerValues
<1>3. \A i \in 1..Len(s) : PeerOf(PeerValues(s)[i]) = s[i] /\ HasId(PeerValues(s)[i])
  BY <1>1, <1>2, PeerRoundTrip
<1>4. [i \in DOMAIN PeerValues(s) |-> PeerOf(PeerValues(s)[i])] = [i \in 1..Len(s) |-> s[i]]
  BY <1>2, <1>3
<1>5. \A b \in ToSet(PeerValues(s)) : \E i \in 1..Len(s) : b = PeerValues(s)[i]
  BY <1>2 DEF ToSet
<1> QED
  BY <1>1, <1>3, <1>4, <1>5

LEMMA ConcatSet ==
  ASSUME NEW S, NEW s \in Seq(S), NEW t \in Seq(S)
  PROVE  ToSet(s \o t) = ToSet(s) \cup ToSet(t)
<1>1. /\ s \o t \in Seq(S) /\ Len(s \o t) = Len(s) + Len(t)
      /\ \A i \in 1..(Len(s) + Len(t)) :
           (s \o t)[i] = IF i <= Len(s) THEN s[i] ELSE t[i - Len(s)]
  BY ConcatProperties
<1>2. /\ DOMAIN s = 1..Len(s) /\ DOMAIN t = 1..Len(t) /\ Len(s) \in Nat /\ Len(t) \in Nat
      /\ DOMAIN (s \o t) = 1..(Len(s) + Len(t))
  BY <1>1
<1> DEFINE u == s \o t
           n == Len(s)
           k == Len(t)
<1> HIDE DEF u, n, k
<1>3. \A i \in 1..(n + k) : u[i] = IF i <= n THEN s[i] ELSE t[i - n]
  BY <1>1 DEF u, n, k
<1>4. DOMAIN s = 1..n /\ DOMAIN t = 1..k /\ DOMAIN u = 1..(n + k) /\ n \in Nat /\ k \in Nat
  BY <1>2 DEF u, n, k
<1>5. ASSUME NEW e \in ToSet(u)
      PROVE  e \in ToSet(s) \cup ToSet(t)
  <2>1. PICK i \in 1..(n + k) : e = u[i]
    BY <1>4 DEF ToSet
  <2>2. CASE i <= n
    <3>1. i \in 1..n
      BY <1>4, <2>2
    <3> QED
      BY <1>3, <1>4, <2>1, <2>2, <3>1 DEF ToSet
  <2>3. CASE ~(i <= n)
    <3>1. i - n \in 1..k
      BY <1>4, <2>3
    <3> QED
      BY <1>3, <1>4, <2>1, <2>3, <3>1 DEF ToSet
  <2> QED
    BY <2>2, <2>3
<1>6. ASSUME NEW e \in ToSet(s)
      PROVE  e \in ToSet(u)
  <2>1. PICK i \in 1..n : e = s[i]
    BY <1>4 DEF ToSet
  <2>2. i \in 1..(n + k) /\ i <= n
    BY <1>4
  <2> QED
    BY <1>3, <1>4, <2>1, <2>2 DEF ToSet
<1>7. ASSUME NEW e \in ToSet(t)
      PROVE  e \in ToSet(u)
  <2>1. PICK i \in 1..k : e = t[i]
    BY <1>4 DEF ToSet
  <2>2. n + i \in 1..(n + k) /\ ~(n + i <= n) /\ (n + i) - n = i
    BY <1>4
  <2>3. u[n + i] = t[i]
    BY <1>3, <2>2
  <2> QED
    BY <1>4, <2>1, <2>2, <2>3 DEF ToSet
<1> QED
  BY <1>5, <1>6, <1>7 DEF u

\* What is written is read.
LEMMA ReadsMessage ==
  ASSUME NEW m \in Message
  PROVE  /\ Encode(m) \in Seq(Nat)
         /\ DecodeFields(Encode(m)) =
              [ok |-> TRUE, next |-> 1 + Len(Encode(m)), fields |-> MessageFs(m)]
<1> DEFINE w == Encode(m)
<1>1. w = FlattenSeq(Parts(m))
  BY DEF Encode
<1>2. w \in Seq(Nat)
  BY <1>1, MessagePairsUp, Flattened DEF PairsUp
<1>3. Shows(w, 1, w)
  <2>1. Len(w) \in Nat /\ \A i \in 1..Len(w) : 1 + i - 1 = i
    BY <1>2
  <2> HIDE DEF w
  <2> QED
    BY <2>1 DEF Shows
<1>4. ReadAll(w, 1, 1 + Len(w), MessageField(w)) =
        [ok |-> TRUE, next |-> 1 + Len(w), fields |-> MessageFs(m)]
  <2>1. ReadsPairs(w, MessageField(w), MessagePairs) /\ PairsUp(Parts(m), MessageFs(m), MessagePairs)
    BY <1>2, ReadsMessageFields, MessagePairsUp
  <2> HIDE DEF w
  <2> QED
    BY <1>1, <1>2, <1>3, <2>1, ReadsParts
<1>5. 1 + Len(w) = Len(w) + 1
  BY <1>2
<1> HIDE DEF w
<1>6. DecodeFields(w) = [ok |-> TRUE, next |-> 1 + Len(w), fields |-> MessageFs(m)]
  BY <1>4, <1>5 DEF DecodeFields
<1> QED
  BY <1>2, <1>6 DEF w

\* The codec gives back every message that is written: the encoder and the decoder agree
\* on the numbers and the wire types of all fields, also of those that the schema numbers
\* otherwise, and lengths say where each field ends (message/dht.ts:52-348,
\* message/index.ts:70-99).
THEOREM RoundTrip ==
  ASSUME NEW m \in Message
  PROVE  Encode(m) \in Seq(Nat) /\ Readable(Encode(m)) /\ Decode(Encode(m)) = m
<1> DEFINE w == Encode(m)
           fs == MessageFs(m)
<1>1. w \in Seq(Nat) /\ DecodeFields(w).ok /\ DecodeFields(w).fields = fs
  BY ReadsMessage
<1>2. /\ m.type \in ToSet(MessageTypes) /\ m.key \in Seq(Nat) /\ m.level \in Nat
      /\ m.record \in Seq(Nat) /\ m.closer \in Seq(Infos) /\ m.providers \in Seq(Infos)
      /\ m = [type |-> m.type, key |-> m.key, level |-> m.level, record |-> m.record,
              closer |-> m.closer, providers |-> m.providers]
  BY DEF Message
<1>3. /\ Values(fs, 1) = <<<<TypeNumber(m.type)>>>> /\ Values(fs, 10) = <<<<m.level>>>>
      /\ Values(fs, 2) = <<m.key>>
      /\ Values(fs, 3) = IF m.record = <<>> THEN <<>> ELSE <<m.record>>
      /\ Values(fs, 8) = PeerValues(m.closer) /\ Values(fs, 9) = PeerValues(m.providers)
  BY MessageFieldsHold
<1> HIDE DEF w, fs
<1>4. Readable(w)
  <2>1. ToSet(Values(fs, 8) \o Values(fs, 9)) = ToSet(Values(fs, 8)) \cup ToSet(Values(fs, 9))
    <3>1. PeerValues(m.closer) \in Seq(Seq(Nat)) /\ PeerValues(m.providers) \in Seq(Seq(Nat))
      BY <1>2, PeerValuesAre
    <3> QED
      BY <1>3, <3>1, ConcatSet
  <2>2. \A b \in ToSet(Values(fs, 8)) \cup ToSet(Values(fs, 9)) : HasId(b)
    BY <1>2, <1>3, PeersRoundTrip
  <2> QED
    BY <1>1, <2>1, <2>2 DEF Readable
<1>5. \A a : <<a>> # <<>> /\ Last(<<a>>) = a /\ <<a>>[1] = a
  BY DEF Last
<1>6. /\ LastOf(fs, 1, <<0>>)[1] = TypeNumber(m.type)
      /\ LastOf(fs, 2, <<>>) = m.key
      /\ LastOf(fs, 10, <<0>>)[1] = m.level
      /\ LastOf(fs, 3, <<>>) = m.record
  <2>1. LastOf(fs, 1, <<0>>) = <<TypeNumber(m.type)>>
    BY <1>3, <1>5 DEF LastOf
  <2>2. LastOf(fs, 2, <<>>) = m.key
    BY <1>3, <1>5 DEF LastOf
  <2>3. LastOf(fs, 10, <<0>>) = <<m.level>>
    BY <1>3, <1>5 DEF LastOf
  <2>4. LastOf(fs, 3, <<>>) = m.record
    BY <1>3, <1>5 DEF LastOf
  <2> QED
    BY <1>5, <2>1, <2>2, <2>3, <2>4
<1>7. /\ [i \in DOMAIN Values(fs, 8) |-> PeerOf(Values(fs, 8)[i])] = m.closer
      /\ [i \in DOMAIN Values(fs, 9) |-> PeerOf(Values(fs, 9)[i])] = m.providers
  BY <1>2, <1>3, PeersRoundTrip
<1>8. MessageTypes[LastOf(fs, 1, <<0>>)[1] + 1] = m.type
  BY <1>2, <1>6, TypeNumbers
<1>9. Decode(w) = [type |-> m.type, key |-> m.key, level |-> m.level, record |-> m.record,
                   closer |-> m.closer, providers |-> m.providers]
  <2>1. DecodeFields(w).fields = fs
    BY <1>1
  <2> QED
    BY <1>6, <1>7, <1>8, <2>1, Zenon DEF Decode
<1> QED
  BY <1>1, <1>2, <1>4, <1>9 DEF w

-----------------------------------------------------------------------------
(* Who is known as a provider, and what becomes of an announcement.        *)

Written == Seq(Nat) \cup {Encode(Request(c)) : c \in Calls}

Shape ==
  /\ DOMAIN providers = Ours
  /\ DOMAIN call = Calls /\ DOMAIN stream = Streams /\ DOMAIN server = Streams
  /\ \A c \in Calls : DOMAIN call[c] = {"phase", "outcome", "named", "known"}
  /\ \A s \in Streams :
       /\ DOMAIN stream[s] = {"toServer", "closed", "toClient", "ended", "reset"}
       /\ DOMAIN server[s] = {"phase", "msg"}
       /\ stream[s].toServer \in Seq(Written)

\* All that is under way to a server has been claimed, and so has what it knows.
Vouched ==
  /\ \A s \in Streams : \A i \in 1..Len(stream[s].toServer) :
       Claims(s, stream[s].toServer[i]) \subseteq claims
  /\ \A s \in Streams : server[s].phase = "handling" => Says(s, server[s].msg) \subseteq claims
  /\ ProvidersVouchForThemselves

\* An announcement is on its way, in the hands of the server, stored or lost, and if it
\* is lost then the stream does not end.
Announces(c) == OneWay(c) /\ Callee[c] \in Ours /\ OwnAddrs[Caller[c]] # {}
Stored(c) == <<Multihash(About[c]), Caller[c]>> \in providers[Callee[c]]
Delivery(c) ==
  /\ server[c].phase = "incoming" => stream[c].toServer = <<Encode(Request(c))>>
  /\ server[c].phase = "reading" =>
       \/ stream[c].toServer = <<Encode(Request(c))>>
       \/ stream[c].toServer = <<>> /\ Stored(c)
  /\ server[c].phase = "handling" =>
       stream[c].toServer = <<>> /\ server[c].msg = Request(c)
  /\ stream[c].ended \/ call[c].outcome = "PEER_RESPONSE" => Stored(c)

RpcInv == Shape /\ Vouched /\ \A c \in Calls : Announces(c) => Delivery(c)

-----------------------------------------------------------------------------
LEMMA StreamsOfCalls == Calls \subseteq Streams /\ \A c \in Calls : c \notin Raw
BY RpcAssumption DEF Streams

LEMMA InitInv == Init => RpcInv
<1> SUFFICES ASSUME Init PROVE RpcInv OBVIOUS
<1> USE DEF Init
<1>1. /\ DOMAIN providers = Ours /\ DOMAIN call = Calls
      /\ DOMAIN stream = Streams /\ DOMAIN server = Streams
  OBVIOUS
<1>2. ASSUME NEW c \in Calls
      PROVE  DOMAIN call[c] = {"phase", "outcome", "named", "known"} /\ call[c].outcome = "none"
  BY DEF NoCall, Unused
<1>3. ASSUME NEW s \in Streams
      PROVE  /\ stream[s] = NoStream /\ DOMAIN server[s] = {"phase", "msg"}
             /\ server[s].phase \in {"none", "unused"}
  BY DEF NoServer, Unused
<1>4. ASSUME NEW s \in Streams
      PROVE  /\ DOMAIN stream[s] = {"toServer", "closed", "toClient", "ended", "reset"}
             /\ stream[s].toServer = <<>> /\ ~stream[s].ended
  BY <1>3 DEF NoStream
<1>5. <<>> \in Seq(Written) /\ Len(<<>>) = 0 OBVIOUS
<1>6. Shape BY <1>1, <1>2, <1>3, <1>4, <1>5 DEF Shape
<1>7. Vouched
  <2>1. ProvidersVouchForThemselves BY DEF ProvidersVouchForThemselves
  <2> QED BY <2>1, <1>3, <1>4, <1>5 DEF Vouched
<1>8. ASSUME NEW c \in Calls PROVE Delivery(c)
  <2>1. c \in Streams BY StreamsOfCalls
  <2> QED BY <2>1, <1>2, <1>3, <1>4 DEF Delivery
<1> QED BY <1>6, <1>7, <1>8 DEF RpcInv

\* A step of a client leaves alone what is on its way to servers, and knows of a success
\* of an announcement only from the end of the stream.
LEMMA CallShape ==
  ASSUME NEW c \in Calls, Shape, Call(c) \/ Connected(c) \/ CannotOpen(c) \/ Drained(c) \/ NoAnswer(c)
                                   \/ Aborted(c) \/ Answered(c)
  PROVE  /\ Shape'
         /\ UNCHANGED <<providers, claims, server>>
         /\ \A s \in Streams : /\ stream'[s].toServer = stream[s].toServer
                               /\ stream'[s].ended = stream[s].ended
         /\ \A d \in Calls : OneWay(d) /\ call'[d].outcome = "PEER_RESPONSE" =>
              call[d].outcome = "PEER_RESPONSE" \/ stream[d].ended
<1>0. DOMAIN call = Calls /\ DOMAIN stream = Streams /\ c \in Streams
  BY StreamsOfCalls DEF Shape
<1>1. UNCHANGED <<providers, claims, server>>
  BY DEF Call, Connected, CannotOpen, Drained, NoAnswer, Aborted, Answered
<1>2. \/ UNCHANGED stream
      \/ stream' = [stream EXCEPT ![c].reset = TRUE]
      \/ stream' = [stream EXCEPT ![c].toClient = Tail(@)]
  BY DEF Call, Connected, CannotOpen, Drained, NoAnswer, Aborted, Answered
<1>3. /\ DOMAIN stream' = Streams
      /\ \A s \in Streams : /\ stream'[s].toServer = stream[s].toServer
                            /\ stream'[s].ended = stream[s].ended
                            /\ DOMAIN stream'[s] = DOMAIN stream[s]
  BY <1>0, <1>2 DEF Shape
<1>4. /\ DOMAIN call' = Calls /\ \A d \in Calls \ {c} : UNCHANGED call[d]
      /\ DOMAIN call'[c] = DOMAIN call[c]
      /\ \/ call'[c].outcome \in {"silent", "QUERY_ERROR", call[c].outcome}
         \/ ~OneWay(c) \/ stream[c].ended
  <2> DOMAIN call[c] = {"phase", "outcome", "named", "known"} BY DEF Shape
  <2>1. CASE Call(c)
    <3>1. CASE running[Caller[c]]
      <4>1. call' = [call EXCEPT ![c] = [@ EXCEPT !.phase = "dialing", !.known = Told(c)]]
        BY <2>1, <3>1 DEF Call
      <4> QED BY <4>1, <1>0
    <3>2. CASE ~running[Caller[c]]
      <4>1. call' = [call EXCEPT ![c] = [@ EXCEPT !.phase = "done", !.outcome = "silent"]]
        BY <2>1, <3>2 DEF Call
      <4> QED BY <4>1, <1>0
    <3> QED BY <3>1, <3>2
  <2>2. CASE Connected(c)
    BY <2>2, <1>0 DEF Connected
  <2>3. CASE Done(c, "QUERY_ERROR", {})
    BY <2>3, <1>0 DEF Done
  <2>4. CASE \E named : Done(c, "PEER_RESPONSE", named) /\ (~OneWay(c) \/ stream[c].ended)
    BY <2>4, <1>0 DEF Done
  <2> QED BY <2>1, <2>2, <2>3, <2>4 DEF CannotOpen, Drained, NoAnswer, Aborted, Answered, Fails
<1>5. DOMAIN call' = Calls /\ \A d \in Calls : DOMAIN call'[d] = DOMAIN call[d]
  BY <1>4
<1>6. Shape' BY <1>1, <1>3, <1>5 DEF Shape
<1>7. ASSUME NEW d \in Calls, OneWay(d), call'[d].outcome = "PEER_RESPONSE"
      PROVE  call[d].outcome = "PEER_RESPONSE" \/ stream[d].ended
  BY <1>0, <1>4, <1>7
<1> QED BY <1>1, <1>3, <1>6, <1>7

\* Steps that leave providers, claims and what is under way to servers alone, and in
\* which a server starts to read, throws, or ends a stream of which it has read all, if
\* anything, keep the invariant.
LEMMA QuietStep ==
  ASSUME RpcInv, Shape', UNCHANGED <<providers, claims>>,
         \A s \in Streams :
           /\ stream'[s].toServer = stream[s].toServer
           /\ stream'[s].ended =>
                \/ stream[s].ended \/ Server(s) \notin Ours
                \/ server[s].phase = "reading" /\ stream[s].toServer = <<>>
           /\ \/ UNCHANGED server[s]
              \/ server'[s].phase \in {"threw", "ended"}
              \/ server[s].phase = "incoming" /\ server'[s].phase = "reading",
         \A c \in Calls :
           OneWay(c) /\ call'[c].outcome = "PEER_RESPONSE" =>
             call[c].outcome = "PEER_RESPONSE" \/ stream[c].ended
  PROVE  RpcInv'
<1>1. Vouched'
  <2>1. ASSUME NEW s \in Streams PROVE server'[s].phase = "handling" => UNCHANGED server[s]
    OBVIOUS
  <2>2. ASSUME NEW s \in Streams, server'[s].phase = "handling"
        PROVE  Says(s, server'[s].msg) \subseteq claims'
    BY <2>1, <2>2 DEF RpcInv, Vouched
  <2>3. ASSUME NEW s \in Streams, NEW i \in 1..Len(stream'[s].toServer)
        PROVE  Claims(s, stream'[s].toServer[i]) \subseteq claims'
    BY DEF RpcInv, Vouched
  <2>4. ProvidersVouchForThemselves'
    BY DEF RpcInv, Vouched, ProvidersVouchForThemselves
  <2> QED BY <2>2, <2>3, <2>4 DEF Vouched
<1>2. ASSUME NEW c \in Calls, Announces(c) PROVE Delivery(c)'
  <2>1. c \in Streams /\ Delivery(c) /\ OneWay(c)
    BY <1>2, StreamsOfCalls DEF RpcInv, Announces
  <2>2. Stored(c)' = Stored(c) BY DEF Stored
  <2>3. \/ UNCHANGED server[c]
        \/ server'[c].phase \in {"threw", "ended"}
        \/ server[c].phase = "incoming" /\ server'[c].phase = "reading"
    BY <2>1
  <2>4. Server(c) \in Ours BY <1>2 DEF Announces, Server
  <2>5. server[c].phase = "reading" /\ stream[c].toServer = <<>> => Stored(c)
    BY <2>1 DEF Delivery
  <2>6. stream'[c].ended => Stored(c) BY <2>1, <2>4, <2>5 DEF Delivery
  <2>7. call'[c].outcome = "PEER_RESPONSE" => Stored(c) BY <2>1 DEF Delivery
  <2> QED BY <2>1, <2>2, <2>3, <2>6, <2>7 DEF Delivery
<1> QED BY <1>1, <1>2 DEF RpcInv, Announces, OneWay

-----------------------------------------------------------------------------
(* The steps of the client, and those in which a server takes no message.  *)

\* The steps of a client.
LEMMA CallKeeps ==
  ASSUME NEW c \in Calls, RpcInv, Call(c) \/ Connected(c) \/ CannotOpen(c) \/ Drained(c)
                                    \/ NoAnswer(c) \/ Aborted(c) \/ Answered(c)
  PROVE  RpcInv'
BY CallShape, QuietStep DEF RpcInv

\* The steps of a server, other than to take a message and to handle it.
Waits(s) ==
  \/ Incoming(s) \/ EndOfMessages(s) \/ ResetSeen(s) \/ Lost(s)
  \/ Throw(s) /\ UNCHANGED <<providers, call, claims>>
  \/ s \in Calls /\ ForeignAnswer(s)

\* None of them brings a server a message.
LEMMA WaitKeeps ==
  ASSUME NEW s \in Streams, RpcInv, Waits(s)
  PROVE  RpcInv'
<1>0. /\ DOMAIN stream = Streams /\ DOMAIN server = Streams
      /\ \A r \in Streams :
           /\ DOMAIN stream[r] = {"toServer", "closed", "toClient", "ended", "reset"}
           /\ DOMAIN server[r] = {"phase", "msg"}
  BY DEF RpcInv, Shape
<1>1. UNCHANGED <<providers, call, claims>>
  BY DEF Waits, Incoming, EndOfMessages, ResetSeen, Lost, ForeignAnswer
<1>2. \/ UNCHANGED server
      \/ server' = [server EXCEPT ![s].phase = "reading"] /\ server[s].phase = "incoming"
      \/ \E p \in {"threw", "ended"} : server' = [server EXCEPT ![s].phase = p]
  BY DEF Waits, Incoming, EndOfMessages, ResetSeen, Lost, ForeignAnswer, Throw
<1>3. \/ UNCHANGED stream
      \/ stream' = [stream EXCEPT ![s].reset = TRUE]
      \/ \E w : stream' = [stream EXCEPT ![s].toClient = Append(@, w)]
      \/ /\ stream' = [stream EXCEPT ![s].ended = TRUE]
         /\ \/ Server(s) \notin Ours
            \/ server[s].phase = "reading" /\ stream[s].toServer = <<>>
  BY DEF Waits, Incoming, EndOfMessages, ResetSeen, Lost, ForeignAnswer, Throw
<1>4. ASSUME NEW r \in Streams
      PROVE  /\ DOMAIN server'[r] = DOMAIN server[r]
             /\ \/ UNCHANGED server[r]
                \/ server'[r].phase \in {"threw", "ended"}
                \/ server[r].phase = "incoming" /\ server'[r].phase = "reading"
  BY <1>0, <1>2
<1>5. ASSUME NEW r \in Streams
      PROVE  /\ DOMAIN stream'[r] = DOMAIN stream[r]
             /\ stream'[r].toServer = stream[r].toServer
             /\ stream'[r].ended =>
                  \/ stream[r].ended \/ Server(r) \notin Ours
                  \/ server[r].phase = "reading" /\ stream[r].toServer = <<>>
  BY <1>0, <1>3
<1>6. DOMAIN server' = Streams /\ DOMAIN stream' = Streams
  BY <1>0, <1>2, <1>3
<1>7. Shape' BY <1>1, <1>4, <1>5, <1>6 DEF RpcInv, Shape
<1> QED BY <1>1, <1>4, <1>5, <1>7, QuietStep

-----------------------------------------------------------------------------
(* A message is written, taken, and handled.                               *)

\* What is written to a new stream is claimed at once.
LEMMA OpenKeeps ==
  ASSUME NEW s \in Streams, NEW script \in Seq(Written), NEW closes \in BOOLEAN, RpcInv,
         Open(s, script, closes), UNCHANGED providers, DOMAIN call' = Calls,
         \A c \in Calls : /\ DOMAIN call'[c] = DOMAIN call[c]
                          /\ call'[c].outcome = call[c].outcome,
         s \in Calls => script = <<Encode(Request(s))>>
  PROVE  RpcInv'
<1>0. /\ DOMAIN stream = Streams /\ DOMAIN server = Streams
      /\ DOMAIN server[s] = {"phase", "msg"}
  BY DEF RpcInv, Shape
<1>1. /\ DOMAIN stream' = Streams /\ \A r \in Streams \ {s} : UNCHANGED stream[r]
      /\ DOMAIN stream'[s] = {"toServer", "closed", "toClient", "ended", "reset"}
      /\ stream'[s].toServer = script /\ ~stream'[s].ended
  BY <1>0 DEF Open, NoStream
<1>2. /\ DOMAIN server' = Streams /\ \A r \in Streams \ {s} : UNCHANGED server[r]
      /\ DOMAIN server'[s] = {"phase", "msg"} /\ server'[s].phase = "incoming"
  BY <1>0 DEF Open
<1>3. /\ claims \subseteq claims'
      /\ \A i \in 1..Len(script) : Claims(s, script[i]) \subseteq claims'
  <2>1. ASSUME NEW i \in 1..Len(script) PROVE script[i] \in ToSet(script)
    BY DEF ToSet
  <2> QED BY <2>1 DEF Open
<1>4. Shape' BY <1>1, <1>2 DEF RpcInv, Shape
<1>5. Vouched'
  <2>1. ProvidersVouchForThemselves'
    BY <1>3 DEF RpcInv, Vouched, ProvidersVouchForThemselves
  <2>2. ASSUME NEW r \in Streams, NEW i \in 1..Len(stream'[r].toServer)
        PROVE  Claims(r, stream'[r].toServer[i]) \subseteq claims'
    BY <1>1, <1>3 DEF RpcInv, Vouched
  <2>3. ASSUME NEW r \in Streams, server'[r].phase = "handling"
        PROVE  Says(r, server'[r].msg) \subseteq claims'
    BY <1>2, <1>3, <2>3 DEF RpcInv, Vouched
  <2> QED BY <2>1, <2>2, <2>3 DEF Vouched
<1>6. ASSUME NEW c \in Calls, Announces(c) PROVE Delivery(c)'
  <2>1. c \in Streams /\ Delivery(c)
    BY <1>6, StreamsOfCalls DEF RpcInv
  <2>2. Stored(c)' = Stored(c) BY DEF Stored
  <2>3. call'[c].outcome = call[c].outcome OBVIOUS
  <2>4. CASE c = s
    BY <1>1, <1>2, <2>1, <2>2, <2>3, <2>4 DEF Delivery
  <2>5. CASE c # s
    BY <1>1, <1>2, <2>1, <2>2, <2>3, <2>5 DEF Delivery
  <2> QED BY <2>4, <2>5
<1> QED BY <1>4, <1>5, <1>6 DEF RpcInv, Announces, OneWay

\* An announced content id is decoded to itself, and its hash is the key.
LEMMA KeyOfCid ==
  \A cid : /\ IsCid(CidBytes(cid)) /\ ProviderKey(CidBytes(cid)) = Multihash(cid)
           /\ CidBytes(cid) = <<1, Code[cid], cid>>
<1> SUFFICES ASSUME NEW cid
             PROVE  /\ IsCid(CidBytes(cid)) /\ ProviderKey(CidBytes(cid)) = Multihash(cid)
                    /\ CidBytes(cid) = <<1, Code[cid], cid>>
  OBVIOUS
<1> DEFINE S == {1, Code[cid], cid}
<1>1. CidBytes(cid) = <<1, Code[cid], cid>>
  <2>1. <<1>> \in Seq(S) /\ Multihash(cid) \in Seq(S) /\ Len(<<1>>) = 1 /\ Len(Multihash(cid)) = 2
    BY DEF Multihash
  <2>2. /\ CidBytes(cid) \in Seq(S) /\ Len(CidBytes(cid)) = 3
        /\ \A i \in 1..3 : CidBytes(cid)[i] = IF i <= 1 THEN <<1>>[i] ELSE Multihash(cid)[i - 1]
    <3> DEFINE a == <<1>>  b == Multihash(cid)
    <3> HIDE DEF a, b, S
    <3>1. a \in Seq(S) /\ b \in Seq(S) /\ Len(a) = 1 /\ Len(b) = 2 BY <2>1 DEF a, b
    <3>2. /\ a \o b \in Seq(S) /\ Len(a \o b) = 3
          /\ \A i \in 1..3 : (a \o b)[i] = IF i <= 1 THEN a[i] ELSE b[i - 1]
      <4>1. /\ a \o b \in Seq(S) /\ Len(a \o b) = Len(a) + Len(b)
            /\ \A i \in 1 .. Len(a) + Len(b) :
                 (a \o b)[i] = IF i <= Len(a) THEN a[i] ELSE b[i - Len(a)]
        BY <3>1, ConcatProperties, Zenon
      <4> QED BY <3>1, <4>1
    <3> QED BY <3>2 DEF CidBytes, a, b
  <2>3. CidBytes(cid)[1] = 1 /\ CidBytes(cid)[2] = Code[cid] /\ CidBytes(cid)[3] = cid
    BY <2>2 DEF Multihash
  <2> QED BY <2>2, <2>3
<1>2. Len(CidBytes(cid)) = 3 /\ CidBytes(cid)[1] = 1 /\ Tail(CidBytes(cid)) = <<Code[cid], cid>>
  BY <1>1
<1> QED BY <1>1, <1>2 DEF IsCid, ProviderKey, Multihash

\* A message with other peers or another record is a message.
LEMMA MessageWith ==
  ASSUME NEW m \in Message
  PROVE  /\ \A s \in Seq(Infos) : [m EXCEPT !.providers = s] \in Message
         /\ \A s \in Seq(Infos) : [m EXCEPT !.closer = s] \in Message
         /\ \A b \in Seq(Nat) : [m EXCEPT !.record = b] \in Message
<1>1. m \in [type : ToSet(MessageTypes), key : Seq(Nat), level : Nat, record : Seq(Nat),
              closer : Seq(Infos), providers : Seq(Infos)]
  BY DEF Message
<1> DEFINE M == Seq(Infos)
<1>2. m \in [type : ToSet(MessageTypes), key : Seq(Nat), level : Nat,
             record : Seq(Nat), closer : M, providers : M]
  BY <1>1
<1> HIDE DEF M
<1>3. /\ \A s \in M : [m EXCEPT !.providers = s] \in
           [type : ToSet(MessageTypes), key : Seq(Nat), level : Nat,
            record : Seq(Nat), closer : M, providers : M]
      /\ \A s \in M : [m EXCEPT !.closer = s] \in
           [type : ToSet(MessageTypes), key : Seq(Nat), level : Nat,
            record : Seq(Nat), closer : M, providers : M]
      /\ \A b \in Seq(Nat) : [m EXCEPT !.record = b] \in
           [type : ToSet(MessageTypes), key : Seq(Nat), level : Nat,
            record : Seq(Nat), closer : M, providers : M]
  BY <1>2
<1> QED
  BY <1>3 DEF Message, M

\* A request is a message.
LEMMA RequestIsMessage == \A c \in Calls : Request(c) \in Message
<1> SUFFICES ASSUME NEW c \in Calls PROVE Request(c) \in Message
  OBVIOUS
<1>1. /\ Caller[c] \in Peers /\ Caller[c] \in Nat /\ About[c] \in Nat
      /\ OwnAddrs[Caller[c]] \in SUBSET Nat /\ IsFiniteSet(OwnAddrs[Caller[c]])
  BY RpcAssumption
<1>2. Type[c] \in {"ADD_PROVIDER", "GET_PROVIDERS"} => About[c] \in Cids /\ Code[About[c]] \in Nat
  BY RpcAssumption
<1>3. ASSUME NEW type \in ToSet(MessageTypes), NEW key \in Seq(Nat)
      PROVE  NewMessage(type, key, 0) \in Message
  BY DEF NewMessage, Message
<1>4. Type[c] \in ToSet(MessageTypes)
  BY RpcAssumption
<1>5. CASE Type[c] = "ADD_PROVIDER"
  <2>1. CidBytes(About[c]) \in Seq(Nat)
    <3>1. CidBytes(About[c]) = <<1, Code[About[c]], About[c]>>
      BY KeyOfCid
    <3> QED
      BY <1>1, <1>2, <1>5, <3>1
  <2>2. NewMessage("ADD_PROVIDER", CidBytes(About[c]), 0) \in Message
    BY <1>3, <1>4, <1>5, <2>1
  <2>3. Info(Caller[c], OwnAddrs[Caller[c]], {}) \in Infos
    BY <1>1, FS_EmptySet DEF Info, Infos
  <2>4. Request(c) = [NewMessage("ADD_PROVIDER", CidBytes(About[c]), 0) EXCEPT
                        !.providers = <<Info(Caller[c], OwnAddrs[Caller[c]], {})>>]
    BY <1>5 DEF Request
  <2>5. <<Info(Caller[c], OwnAddrs[Caller[c]], {})>> \in Seq(Infos)
    BY <2>3
  <2> QED
    BY <2>2, <2>4, <2>5, MessageWith
<1>6. CASE Type[c] = "GET_PROVIDERS"
  <2>1. Multihash(About[c]) \in Seq(Nat)
    BY <1>1, <1>2, <1>6 DEF Multihash
  <2>2. Request(c) = NewMessage("GET_PROVIDERS", Multihash(About[c]), 0)
    BY <1>6 DEF Request
  <2> QED
    BY <1>3, <1>4, <1>6, <2>1, <2>2
<1>7. CASE Type[c] \notin {"ADD_PROVIDER", "GET_PROVIDERS"}
  <2>1. Request(c) = NewMessage(Type[c], <<About[c]>>, 0) /\ <<About[c]>> \in Seq(Nat)
    BY <1>1, <1>7 DEF Request
  <2> QED
    BY <1>3, <1>4, <2>1
<1> QED
  BY <1>5, <1>6, <1>7

\* A server takes the first message, which is read as it was written.
LEMMA ReceiveKeeps ==
  ASSUME NEW s \in Streams, RpcInv, Receive(s)
  PROVE  RpcInv'
<1> DEFINE w == Head(stream[s].toServer)
<1>0. /\ DOMAIN stream = Streams /\ DOMAIN server = Streams
      /\ DOMAIN stream[s] = {"toServer", "closed", "toClient", "ended", "reset"}
      /\ stream[s].toServer \in Seq(Written) /\ stream[s].toServer # <<>>
      /\ server[s].phase = "reading"
  BY DEF RpcInv, Shape, Receive
<1>1. CASE ~Readable(w)
  BY <1>1, WaitKeeps DEF Waits, Receive
<1>2. CASE Readable(w)
  <2>1. /\ stream' = [stream EXCEPT ![s].toServer = Tail(@)]
        /\ server' = [server EXCEPT ![s] = [phase |-> "handling", msg |-> Decode(w)]]
        /\ UNCHANGED <<providers, call, claims>>
    BY <1>2 DEF Receive
  <2>2. /\ DOMAIN stream' = Streams /\ \A r \in Streams \ {s} : UNCHANGED stream[r]
        /\ DOMAIN stream'[s] = DOMAIN stream[s]
        /\ stream'[s].toServer = Tail(stream[s].toServer)
        /\ stream'[s].ended = stream[s].ended
    BY <1>0, <2>1
  <2>3. /\ DOMAIN server' = Streams /\ \A r \in Streams \ {s} : UNCHANGED server[r]
        /\ server'[s] = [phase |-> "handling", msg |-> Decode(w)]
    BY <1>0, <2>1
  <2>4. /\ Tail(stream[s].toServer) \in Seq(Written)
        /\ Len(Tail(stream[s].toServer)) = Len(stream[s].toServer) - 1
        /\ Len(stream[s].toServer) \in Nat \ {0}
        /\ \A i \in 1..(Len(stream[s].toServer) - 1) :
             Tail(stream[s].toServer)[i] = stream[s].toServer[i + 1]
    BY <1>0
  <2>5. Shape' BY <1>0, <2>1, <2>2, <2>3, <2>4 DEF RpcInv, Shape
  <2>6. Vouched'
    <3>1. ProvidersVouchForThemselves'
      BY <2>1 DEF RpcInv, Vouched, ProvidersVouchForThemselves
    <3>2. ASSUME NEW r \in Streams, NEW i \in 1..Len(stream'[r].toServer)
          PROVE  Claims(r, stream'[r].toServer[i]) \subseteq claims'
      <4>1. CASE r = s
        <5>1. i + 1 \in 1..Len(stream[s].toServer)
          <6>1. i \in 1..Len(Tail(stream[s].toServer)) BY <2>2, <4>1
          <6>2. i \in Nat /\ 1 <= i /\ i <= Len(stream[s].toServer) - 1 BY <2>4, <6>1
          <6> HIDE DEF w
          <6> QED BY <2>4, <6>2
        <5>2. Claims(s, stream[s].toServer[i + 1]) \subseteq claims
          BY <5>1 DEF RpcInv, Vouched
        <5> QED BY <2>1, <2>2, <2>4, <4>1, <5>2
      <4>2. CASE r # s
        BY <2>1, <2>2, <4>2 DEF RpcInv, Vouched
      <4> QED BY <4>1, <4>2
    <3>3. ASSUME NEW r \in Streams, server'[r].phase = "handling"
          PROVE  Says(r, server'[r].msg) \subseteq claims'
      <4>1. CASE r = s
        <5>1. 1 \in 1..Len(stream[s].toServer) /\ w = stream[s].toServer[1] BY <1>0, <2>4
        <5>2. Claims(s, w) \subseteq claims BY <5>1 DEF RpcInv, Vouched
        <5> QED BY <1>2, <2>1, <2>3, <4>1, <5>2 DEF Claims
      <4>2. CASE r # s
        BY <2>1, <2>3, <3>3, <4>2 DEF RpcInv, Vouched
      <4> QED BY <4>1, <4>2
    <3> QED BY <3>1, <3>2, <3>3 DEF Vouched
  <2>7. ASSUME NEW c \in Calls, Announces(c) PROVE Delivery(c)'
    <3>1. c \in Streams /\ Delivery(c)
      BY <2>7, StreamsOfCalls DEF RpcInv
    <3>2. Stored(c)' = Stored(c) BY <2>1 DEF Stored
    <3>3. CASE c = s
      <4>1. stream[s].toServer = <<Encode(Request(c))>>
        BY <1>0, <3>1, <3>3 DEF Delivery
      <4>2. Tail(stream[s].toServer) = <<>> /\ w = Encode(Request(c))
        BY <4>1
      <4>3. Decode(w) = Request(c) BY <4>2, RequestIsMessage, RoundTrip
      <4> QED BY <1>0, <2>1, <2>2, <2>3, <3>1, <3>2, <3>3, <4>2, <4>3 DEF Delivery
    <3>4. CASE c # s
      BY <2>1, <2>2, <2>3, <3>1, <3>2, <3>4 DEF Delivery
    <3> QED BY <3>3, <3>4
  <2> QED BY <2>5, <2>6, <2>7 DEF RpcInv, Announces, OneWay
<1> QED BY <1>1, <1>2

\* A handler has stored only what the message vouches for, and all that it announces, if
\* it returns and does not throw.
LEMMA HandledKeeps ==
  ASSUME NEW s \in Streams, RpcInv, server[s].phase = "handling",
         \/ /\ server' = [server EXCEPT ![s].phase = "reading"]
            /\ \/ UNCHANGED stream
               \/ \E x : stream' = [stream EXCEPT ![s].toClient = x]
            /\ s \in Calls /\ Announces(s) => Stored(s)'
         \/ Throw(s),
         UNCHANGED <<call, claims>>, DOMAIN providers' = Ours,
         \A n \in Ours : providers[n] \subseteq providers'[n],
         \A n \in Ours : \A entry \in providers'[n] \ providers[n] :
           <<n, entry[1], entry[2]>> \in Says(s, server[s].msg)
  PROVE  RpcInv'
<1>0. /\ DOMAIN stream = Streams /\ DOMAIN server = Streams
      /\ \A r \in Streams :
           /\ DOMAIN stream[r] = {"toServer", "closed", "toClient", "ended", "reset"}
           /\ DOMAIN server[r] = {"phase", "msg"}
  BY DEF RpcInv, Shape
<1>1. /\ DOMAIN stream' = Streams
      /\ \A r \in Streams : /\ DOMAIN stream'[r] = DOMAIN stream[r]
                            /\ stream'[r].toServer = stream[r].toServer
                            /\ stream'[r].ended = stream[r].ended
  BY <1>0 DEF Throw
<1>2. /\ DOMAIN server' = Streams /\ \A r \in Streams \ {s} : UNCHANGED server[r]
      /\ DOMAIN server'[s] = DOMAIN server[s]
      /\ \/ server'[s].phase = "reading" /\ (s \in Calls /\ Announces(s) => Stored(s)')
         \/ server'[s].phase = "threw"
  BY <1>0 DEF Throw
<1>3. Shape' BY <1>1, <1>2 DEF RpcInv, Shape
<1>4. Vouched'
  <2>1. Says(s, server[s].msg) \subseteq claims BY DEF RpcInv, Vouched
  <2>2. ProvidersVouchForThemselves'
    BY <2>1 DEF RpcInv, Vouched, ProvidersVouchForThemselves
  <2>3. ASSUME NEW r \in Streams, NEW i \in 1..Len(stream'[r].toServer)
        PROVE  Claims(r, stream'[r].toServer[i]) \subseteq claims'
    BY <1>1 DEF RpcInv, Vouched
  <2>4. ASSUME NEW r \in Streams, server'[r].phase = "handling"
        PROVE  Says(r, server'[r].msg) \subseteq claims'
    <3>1. r # s BY <1>2, <2>4
    <3> QED BY <1>2, <2>4, <3>1 DEF RpcInv, Vouched
  <2> QED BY <2>2, <2>3, <2>4 DEF Vouched
<1>5. ASSUME NEW c \in Calls, Announces(c) PROVE Delivery(c)'
  <2>1. c \in Streams /\ Delivery(c)
    BY <1>5, StreamsOfCalls DEF RpcInv
  <2>2. Stored(c) => Stored(c)' BY <1>5 DEF Stored, Announces
  <2>3. CASE c = s
    <3>1. server'[s].phase = "threw" \/ (server'[s].phase = "reading" /\ Stored(s)')
      BY <1>2, <1>5, <2>3
    <3> QED BY <1>0, <1>1, <2>1, <2>2, <2>3, <3>1 DEF Delivery
  <2>4. CASE c # s
    BY <1>1, <1>2, <2>1, <2>2, <2>4 DEF Delivery
  <2> QED BY <2>3, <2>4
<1> QED BY <1>3, <1>4, <1>5 DEF RpcInv, Announces, OneWay

\* All handlers, whether they return or throw.
LEMMA HandleKeeps ==
  ASSUME NEW s \in Streams, RpcInv, Handle(s)
  PROVE  RpcInv'
<1> DEFINE m == server[s].msg
<1>0. /\ server[s].phase = "handling" /\ DOMAIN providers = Ours
      /\ UNCHANGED <<call, claims>>
      /\ s \in Calls /\ Announces(s) => m = Request(s) /\ m.type = "ADD_PROVIDER"
  <2>1. ASSUME s \in Calls, Announces(s) PROVE m = Request(s) /\ m.type = "ADD_PROVIDER"
    <3>1. m = Request(s) BY <2>1 DEF RpcInv, Delivery, Handle
    <3> QED BY <2>1, <3>1 DEF Announces, OneWay, Request, NewMessage
  <2> QED BY <2>1 DEF RpcInv, Shape, Handle
<1>1. CASE Throw(s) /\ UNCHANGED providers
  BY <1>0, <1>1, WaitKeeps DEF Waits
<1>2. CASE m.type # "ADD_PROVIDER" /\ (\E a : Respond(s, a)) /\ UNCHANGED providers
  BY <1>0, <1>2, HandledKeeps DEF Respond
<1>3. CASE ~Refused(m) /\ AddProvider(s, m)
  <2> DEFINE n == Server(s)
             own == {p \in ToSet(m.providers) : p.id = Remote(s) /\ p.addrs # {}}
             new == {<<ProviderKey(m.key), p>> : p \in {p.id : p \in own}}
  <2>1. /\ m.type = "ADD_PROVIDER" /\ IsCid(m.key)
        /\ providers' = [providers EXCEPT ![n] = @ \cup new]
        /\ \/ server' = [server EXCEPT ![s].phase = "reading"] /\ UNCHANGED stream
           \/ Throw(s)
    BY <1>3 DEF AddProvider, Refused
  <2>2. \A entry \in new : <<n, entry[1], entry[2]>> \in Says(s, m)
    BY <2>1 DEF Says
  <2>3. ASSUME s \in Calls, Announces(s) PROVE Stored(s)'
    <3>1. m = Request(s) BY <1>0, <2>3
    <3>2. m.key = CidBytes(About[s]) /\ m.providers = <<Info(Caller[s], OwnAddrs[Caller[s]], {})>>
      BY <2>1, <2>3, <3>1 DEF Request, NewMessage, Announces, OneWay
    <3>3. Remote(s) = Caller[s] /\ n = Callee[s] /\ n \in Ours
      BY <2>3 DEF Remote, Server, Announces
    <3>4. Info(Caller[s], OwnAddrs[Caller[s]], {}) \in own
      BY <2>3, <3>2, <3>3 DEF ToSet, Info, Announces
    <3>5. <<Multihash(About[s]), Caller[s]>> \in new
      BY <3>2, <3>4, KeyOfCid DEF Info
    <3> HIDE DEF new
    <3> QED BY <1>0, <2>1, <3>3, <3>5 DEF Stored
  <2> HIDE DEF m, new
  <2>4. /\ DOMAIN providers' = Ours
        /\ \A k \in Ours : providers[k] \subseteq providers'[k]
        /\ \A k \in Ours : \A entry \in providers'[k] \ providers[k] : k = n /\ entry \in new
    BY <1>0, <2>1
  <2>5. \A k \in Ours : \A entry \in providers'[k] \ providers[k] :
          <<k, entry[1], entry[2]>> \in Says(s, m)
    BY <2>2, <2>4
  <2> USE DEF m
  <2> QED BY <1>0, <2>1, <2>3, <2>4, <2>5, HandledKeeps
<1>4. \/ Throw(s) /\ UNCHANGED providers
      \/ m.type # "ADD_PROVIDER" /\ (\E a : Respond(s, a)) /\ UNCHANGED providers
      \/ ~Refused(m) /\ AddProvider(s, m)
  BY DEF Handle, Ping, FindNode, GetProviders, GetValue, PutValue
<1> QED BY <1>1, <1>2, <1>3, <1>4

-----------------------------------------------------------------------------
(* The theorems.                                                           *)

LEMMA StepKeeps == RpcInv /\ [Next]_rpcVars => RpcInv'
<1> SUFFICES ASSUME RpcInv, [Next]_rpcVars PROVE RpcInv' OBVIOUS
<1>1. ASSUME NEW c \in Calls, Call(c) \/ CallStep(c) \/ ForeignAnswer(c) PROVE RpcInv'
  <2>0. c \in Streams BY StreamsOfCalls
  <2>1. CASE Opened(c)
    <3>1. <<Encode(Request(c))>> \in Seq(Written) BY DEF Written
    <3>2. \A d \in Calls : /\ DOMAIN call'[d] = DOMAIN call[d]
                           /\ call'[d].outcome = call[d].outcome
      BY <2>1 DEF Opened, RpcInv, Shape
    <3>3. DOMAIN call' = Calls BY <2>1 DEF Opened, RpcInv, Shape
    <3> QED BY <2>0, <2>1, <3>1, <3>2, <3>3, OpenKeeps DEF Opened
  <2>2. CASE ForeignAnswer(c) BY <2>0, <2>2, WaitKeeps DEF Waits
  <2> QED BY <1>1, <2>1, <2>2, CallKeeps DEF CallStep
<1>2. ASSUME NEW s \in Streams, ServerStep(s) \/ Lost(s) PROVE RpcInv'
  BY <1>2, WaitKeeps, ReceiveKeeps, HandleKeeps DEF ServerStep, Waits
<1>3. ASSUME NEW s \in Raw, RawStream(s) PROVE RpcInv'
  <2>1. s \in Streams /\ s \notin Calls BY RpcAssumption DEF Streams
  <2>2. PICK script \in Scripts, closes \in BOOLEAN : Open(s, script, closes)
    BY <1>3 DEF RawStream
  <2>3. script \in Seq(Written)
    <3>1. script \in Seq(Seq(Nat)) BY RpcAssumption
    <3>2. Seq(Nat) \subseteq Written BY DEF Written
    <3> QED BY <3>1, <3>2
  <2>4. UNCHANGED <<providers, call>> /\ DOMAIN call = Calls
    BY <1>3 DEF RawStream, RpcInv, Shape
  <2> QED BY <2>1, <2>2, <2>3, <2>4, OpenKeeps
<1>4. ASSUME NEW n \in Ours, Stop(n) PROVE RpcInv'
  BY <1>4, QuietStep DEF Stop, RpcInv, Shape
<1>5. ASSUME UNCHANGED rpcVars PROVE RpcInv'
  BY <1>5, QuietStep DEF rpcVars, RpcInv, Shape
<1> QED BY <1>1, <1>2, <1>3, <1>4, <1>5 DEF Next

LEMMA RpcInvHolds == Spec => []RpcInv
BY InitInv, StepKeeps, PTL DEF Spec

\* Whatever other nodes write, however many messages to a stream, and however streams
\* are lost and servers stopped: a node knows a provider only from that peer itself
\* (rpc/handlers/add-provider.ts:38-56).
THEOREM NoForeignProviders == Spec => []ProvidersVouchForThemselves
<1>1. RpcInv => ProvidersVouchForThemselves BY DEF RpcInv, Vouched
<1> QED BY <1>1, RpcInvHolds, PTL

\* A node whose announcement has ended without an error finds itself among the providers
\* that the other node knows (network.ts:128-170, rpc/index.ts:89-110).
THEOREM AnnouncementsArrive == Spec => []SuccessMeansStored
<1>1. RpcInv => SuccessMeansStored
  BY DEF RpcInv, Announces, Delivery, Stored, SuccessMeansStored
<1> QED BY <1>1, RpcInvHolds, PTL

-----------------------------------------------------------------------------
(* Who is announced is found: what the answers on their way say.           *)

Tables == DOMAIN table = Ours /\ \A n \in Ours : table[n] \subseteq Peers

\* Only nodes of ours serve.
Serving ==
  \A s \in Streams : server[s].phase \in {"reading", "handling"} => Server(s) \in Ours

\* Who had told the callee is known to it.
IsKnown(c, p) ==
  /\ p \in Peers
  /\ OwnAddrs[p] # {} => <<Multihash(About[c]), p>> \in providers[Callee[c]]
KnownAreStored ==
  \A c \in Calls : Callee[c] \in Ours => \A p \in call[c].known : IsKnown(c, p)

\* Of the known providers, these are all that an answer to call c has to name.
Finds(c, known, ids) ==
  Type[c] = "GET_PROVIDERS" /\ Callee[c] \in Ours =>
    \A p \in known : OwnAddrs[p] # {} /\ Usable(Book[Callee[c]][p]) # {} => p \in ids

\* What may be on its way back.
IsAnswer(c, known, w) ==
  /\ w \in Seq(Nat) /\ Named(w) \subseteq Peers
  /\ Readable(w) => Finds(c, known, {p.id : p \in ToSet(Decode(w).providers)})

\* The request and nothing else goes to the server, and answers to it come back; a call
\* that has not begun has neither.
Exchange(c) ==
  /\ stream[c].toClient \in Seq(Seq(Nat))
  /\ \A i \in 1..Len(stream[c].toClient) : IsAnswer(c, call[c].known, stream[c].toClient[i])
  /\ Callee[c] \in Ours =>
       /\ stream[c].toServer \in {<<>>, <<Encode(Request(c))>>}
       /\ server[c].phase = "handling" => server[c].msg = Request(c)
  /\ call[c].phase = "idle" =>
       /\ server[c].phase \in {"none", "unused"} /\ stream[c].toClient = <<>>
       /\ call[c].outcome = "none"
  /\ call[c].outcome = "PEER_RESPONSE" => Finds(c, call[c].known, call[c].named)

FindInv == Tables /\ Serving /\ KnownAreStored /\ \A c \in Calls : Exchange(c)

LEMMA FindInvInit == Init => FindInv
<1> SUFFICES ASSUME Init PROVE FindInv
  OBVIOUS
<1>1. Tables
  BY DEF Init, Tables
<1>2. \A s \in Streams : stream[s] = NoStream /\ server[s].phase \in {"none", "unused"}
  BY DEF Init, NoServer, Unused
<1>3. \A c \in Calls : call[c].known = {} /\ call[c].outcome = "none"
  BY DEF Init, NoCall, Unused
<1>4. Serving
  BY <1>2 DEF Serving
<1>5. KnownAreStored
  BY <1>3 DEF KnownAreStored
<1>6. ASSUME NEW c \in Calls
      PROVE  Exchange(c)
  <2>1. c \in Streams
    BY StreamsOfCalls
  <2>2. stream[c].toClient = <<>> /\ stream[c].toServer = <<>>
    BY <1>2, <2>1 DEF NoStream
  <2>3. stream[c].toClient \in Seq(Seq(Nat)) /\ Len(stream[c].toClient) = 0
    BY <2>2
  <2> QED
    BY <1>2, <1>3, <2>1, <2>2, <2>3 DEF Exchange
<1> QED
  BY <1>1, <1>4, <1>5, <1>6 DEF FindInv

\* A call that goes on knows what it knew.
Goes(c) ==
  /\ call'[c].known = call[c].known
  /\ \/ UNCHANGED call[c]
     \/ /\ call'[c].phase # "idle"
        /\ call'[c].outcome = "PEER_RESPONSE" => Finds(c, call[c].known, call'[c].named)

\* What is under way for it.
Exchanges(c) ==
  /\ \/ UNCHANGED stream[c].toClient
     \/ /\ call[c].phase # "idle" /\ stream'[c].toClient \in Seq(Seq(Nat))
        /\ \A i \in 1..Len(stream'[c].toClient) : IsAnswer(c, call[c].known, stream'[c].toClient[i])
  /\ Callee[c] \in Ours =>
       /\ stream'[c].toServer \in {<<>>, <<Encode(Request(c))>>}
       /\ server'[c].phase = "handling" => server'[c].msg = Request(c)
  /\ call[c].phase = "idle" => server'[c].phase \in {"none", "unused"}

\* Whatever step does no more than that keeps the invariant.
LEMMA FindKeeps ==
  ASSUME FindInv, Tables', Serving',
         \A n \in Ours : providers[n] \subseteq providers'[n],
         \A c \in Calls : Goes(c) /\ Exchanges(c)
  PROVE  FindInv'
<1>1. KnownAreStored'
  <2>1. ASSUME NEW c \in Calls, Callee[c] \in Ours, NEW p \in call'[c].known
        PROVE  IsKnown(c, p)'
    <3>1. IsKnown(c, p)
      BY <2>1 DEF FindInv, KnownAreStored, Goes
    <3> QED
      BY <2>1, <3>1 DEF IsKnown
  <2> QED
    BY <2>1 DEF KnownAreStored
<1>2. ASSUME NEW c \in Calls
      PROVE  Exchange(c)'
  <2>1. Exchange(c) /\ Goes(c) /\ Exchanges(c)
    BY DEF FindInv
  <2>2. call'[c].known = call[c].known
    BY <2>1 DEF Goes
  <2>4. /\ stream'[c].toClient \in Seq(Seq(Nat))
        /\ \A i \in 1..Len(stream'[c].toClient) :
             IsAnswer(c, call[c].known, stream'[c].toClient[i])
    BY <2>1 DEF Exchange, Exchanges
  <2>5. call'[c].outcome = "PEER_RESPONSE" => Finds(c, call[c].known, call'[c].named)
    BY <2>1 DEF Exchange, Goes
  <2>6. call'[c].phase = "idle" =>
          /\ server'[c].phase \in {"none", "unused"} /\ stream'[c].toClient = <<>>
          /\ call'[c].outcome = "none"
    BY <2>1 DEF Exchange, Exchanges, Goes
  <2> QED
    BY <2>1, <2>2, <2>4, <2>5, <2>6 DEF Exchange, Exchanges
<1> QED
  BY <1>1, <1>2 DEF FindInv

\* A call of which nothing is sent or received.
LEMMA NothingSent ==
  ASSUME FindInv, NEW c \in Calls,
         stream'[c].toClient = stream[c].toClient, stream'[c].toServer = stream[c].toServer,
         server'[c].phase = "handling" => UNCHANGED server[c],
         server[c].phase \in {"none", "unused"} => UNCHANGED server[c]
  PROVE  Exchanges(c)
<1>1. Exchange(c)
  BY DEF FindInv
<1> QED
  BY <1>1 DEF Exchange, Exchanges

\* And so does one in which no message is sent or received.
LEMMA StillKeeps ==
  ASSUME FindInv, Shape, Tables',
         \A n \in Ours : providers[n] \subseteq providers'[n],
         \A c \in Calls : Goes(c),
         \A s \in Streams :
           /\ stream'[s].toClient = stream[s].toClient
           /\ stream'[s].toServer = stream[s].toServer
           /\ server'[s].phase = "handling" => UNCHANGED server[s]
           /\ server[s].phase \in {"none", "unused"} => UNCHANGED server[s]
           /\ server'[s].phase = "reading" => server[s].phase = "reading" \/ Server(s) \in Ours
  PROVE  FindInv'
<1>1. Serving'
  BY DEF FindInv, Serving
<1>2. ASSUME NEW c \in Calls
      PROVE  Exchanges(c)
  <2>1. c \in Streams
    BY StreamsOfCalls
  <2> QED
    BY <2>1, NothingSent
<1> QED
  BY <1>1, <1>2, FindKeeps

\* The steps of a client, other than those that open a stream or take an answer.
LEMMA ClientKeepsFinds ==
  ASSUME NEW c \in Calls, FindInv, Shape,
         Connected(c) \/ CannotOpen(c) \/ Aborted(c) \/ Drained(c) \/ NoAnswer(c)
  PROVE  FindInv'
<1>1. /\ DOMAIN call = Calls /\ DOMAIN stream = Streams /\ c \in Streams
      /\ DOMAIN call[c] = {"phase", "outcome", "named", "known"}
      /\ DOMAIN stream[c] = {"toServer", "closed", "toClient", "ended", "reset"}
  BY StreamsOfCalls DEF Shape
<1>2. UNCHANGED <<table, providers, server>>
  BY DEF Connected, CannotOpen, Aborted, Drained, NoAnswer
<1>3. UNCHANGED stream \/ stream' = [stream EXCEPT ![c].reset = TRUE]
  BY DEF Connected, CannotOpen, Aborted, Drained, NoAnswer
<1>4. \A s \in Streams : /\ stream'[s].toClient = stream[s].toClient
                         /\ stream'[s].toServer = stream[s].toServer
  <2>1. CASE UNCHANGED stream
    BY <2>1
  <2>2. CASE stream' = [stream EXCEPT ![c].reset = TRUE]
    BY <1>1, <2>2
  <2> QED
    BY <1>3, <2>1, <2>2
<1>5. /\ \A d \in Calls \ {c} : UNCHANGED call[d]
      /\ call'[c].known = call[c].known /\ call'[c].phase # "idle"
      /\ \/ call'[c].outcome \in {"QUERY_ERROR"} \/ OneWay(c)
         \/ call'[c].outcome = call[c].outcome /\ call'[c].named = call[c].named
  <2>1. CASE Connected(c)
    <3>1. call' = [call EXCEPT ![c].phase = "opening"]
      BY <2>1 DEF Connected
    <3> QED
      BY <1>1, <3>1
  <2>2. CASE Fails(c)
    BY <1>1, <2>2 DEF Fails, Done
  <2>3. CASE Drained(c)
    BY <1>1, <2>3 DEF Drained, Done
  <2> QED
    BY <2>1, <2>2, <2>3 DEF CannotOpen, Aborted, NoAnswer
<1>6. ASSUME NEW d \in Calls
      PROVE  Goes(d)
  <2>1. CASE d # c
    BY <1>5, <2>1 DEF Goes
  <2>2. CASE d = c
    <3>1. Exchange(c)
      BY DEF FindInv
    <3>2. call'[c].outcome = "PEER_RESPONSE" => Finds(c, call[c].known, call'[c].named)
      BY <1>5, <3>1 DEF Exchange, Finds, OneWay
    <3> QED
      BY <1>5, <2>2, <3>2 DEF Goes
  <2> QED
    BY <2>1, <2>2
<1>7. Tables' /\ \A n \in Ours : providers[n] \subseteq providers'[n]
  BY <1>2 DEF FindInv, Tables
<1>8. \A s \in Streams : UNCHANGED server[s]
  BY <1>2
<1> QED
  BY <1>4, <1>6, <1>7, <1>8, StillKeeps

\* A call begins.  Who has told its callee by then is stored there.
LEMMA CallKeepsFinds ==
  ASSUME NEW c \in Calls, FindInv, RpcInv, Call(c)
  PROVE  FindInv'
<1>1. /\ DOMAIN call = Calls /\ DOMAIN call[c] = {"phase", "outcome", "named", "known"}
  BY DEF RpcInv, Shape
<1>2. call[c].phase = "idle" /\ UNCHANGED <<table, providers, server, stream>>
  BY DEF Call
<1>3. CASE ~running[Caller[c]]
  <2>1. call' = [call EXCEPT ![c] = [@ EXCEPT !.phase = "done", !.outcome = "silent"]]
    BY <1>3 DEF Call
  <2>2. \A d \in Calls : Goes(d)
    BY <1>1, <2>1 DEF Goes
  <2>3. Shape /\ Tables' /\ \A n \in Ours : providers[n] \subseteq providers'[n]
    BY <1>2 DEF RpcInv, FindInv, Tables
  <2> QED
    BY <1>2, <2>2, <2>3, StillKeeps
<1>4. CASE running[Caller[c]]
  <2>1. call' = [call EXCEPT ![c] = [@ EXCEPT !.phase = "dialing", !.known = Told(c)]]
    BY <1>4 DEF Call
  <2>2. /\ \A d \in Calls \ {c} : UNCHANGED call[d]
        /\ call'[c].phase = "dialing" /\ call'[c].known = Told(c)
        /\ call'[c].outcome = call[c].outcome
    BY <1>1, <2>1
  <2>3. ASSUME Callee[c] \in Ours, NEW p \in Told(c)
        PROVE  IsKnown(c, p)
    <3>1. PICK d \in Calls : /\ p = Caller[d] /\ call[d].outcome = "PEER_RESPONSE"
                             /\ Type[d] = "ADD_PROVIDER"
                             /\ Callee[d] = Callee[c] /\ About[d] = About[c]
      BY DEF Told
    <3>2. p \in Peers
      BY <3>1, RpcAssumption
    <3>3. OwnAddrs[p] # {} => Stored(d)
      BY <2>3, <3>1 DEF RpcInv, Announces, OneWay, Delivery
    <3> QED
      BY <3>1, <3>2, <3>3 DEF IsKnown, Stored
  <2>4. KnownAreStored'
    <3>1. ASSUME NEW d \in Calls, Callee[d] \in Ours, NEW p \in call'[d].known
          PROVE  IsKnown(d, p)'
      <4>1. IsKnown(d, p)
        BY <2>2, <2>3, <3>1 DEF FindInv, KnownAreStored
      <4> QED
        BY <1>2, <4>1 DEF IsKnown
    <3> QED
      BY <3>1 DEF KnownAreStored
  <2>5. ASSUME NEW d \in Calls
        PROVE  Exchange(d)'
    <3>1. Exchange(d)
      BY DEF FindInv
    <3>2. CASE d # c
      BY <1>2, <2>2, <3>1, <3>2 DEF Exchange
    <3>3. CASE d = c
      <4>1. /\ stream[c].toClient = <<>> /\ call[c].outcome = "none"
            /\ stream[c].toClient \in Seq(Seq(Nat)) /\ Len(<<>>) = 0
        BY <1>2, <3>1, <3>3 DEF Exchange
      <4> QED
        BY <1>2, <2>2, <3>1, <3>3, <4>1 DEF Exchange
    <3> QED
      BY <3>2, <3>3
  <2>6. Tables' /\ Serving'
    BY <1>2 DEF FindInv, Tables, Serving
  <2> QED
    BY <2>4, <2>5, <2>6 DEF FindInv
<1> QED
  BY <1>3, <1>4

\* A request is written.
LEMMA OpenedKeepsFinds ==
  ASSUME NEW c \in Calls, FindInv, Shape, Opened(c)
  PROVE  FindInv'
<1>1. /\ DOMAIN call = Calls /\ DOMAIN stream = Streams /\ DOMAIN server = Streams /\ c \in Streams
      /\ DOMAIN call[c] = {"phase", "outcome", "named", "known"}
      /\ DOMAIN server[c] = {"phase", "msg"}
  BY StreamsOfCalls DEF Shape
<1>2. /\ call[c].phase = "opening" /\ UNCHANGED <<table, providers>>
      /\ call' = [call EXCEPT ![c].phase = "open"]
      /\ stream' = [stream EXCEPT ![c] =
           [NoStream EXCEPT !.toServer = <<Encode(Request(c))>>, !.closed = TRUE]]
      /\ server' = [server EXCEPT ![c].phase = "incoming"]
  BY DEF Opened, Open
<1>3. /\ \A d \in Calls \ {c} : UNCHANGED call[d]
      /\ call'[c].phase = "open" /\ call'[c].known = call[c].known
      /\ call'[c].outcome = call[c].outcome /\ call'[c].named = call[c].named
  BY <1>1, <1>2
<1>4. /\ \A s \in Streams \ {c} : UNCHANGED <<stream[s], server[s]>>
      /\ stream'[c].toServer = <<Encode(Request(c))>> /\ stream'[c].toClient = <<>>
      /\ server'[c].phase = "incoming"
  BY <1>1, <1>2 DEF NoStream
<1>5. ASSUME NEW d \in Calls
      PROVE  Goes(d) /\ Exchanges(d)
  <2>1. Exchange(d) /\ d \in Streams
    BY StreamsOfCalls DEF FindInv
  <2>2. CASE d # c
    <3>1. Goes(d)
      BY <1>3, <2>2 DEF Goes
    <3> QED
      BY <1>4, <2>1, <2>2, <3>1, NothingSent
  <2>3. CASE d = c
    <3>1. Goes(c)
      BY <1>3, <2>1, <2>3 DEF Goes, Exchange
    <3>2. /\ stream'[c].toClient \in Seq(Seq(Nat))
          /\ \A i \in 1..Len(stream'[c].toClient) :
               IsAnswer(c, call[c].known, stream'[c].toClient[i])
      BY <1>4
    <3>3. /\ stream'[c].toServer \in {<<>>, <<Encode(Request(c))>>}
          /\ server'[c].phase # "handling" /\ call[c].phase # "idle"
      BY <1>2, <1>4
    <3>4. Exchanges(c)
      BY <3>2, <3>3 DEF Exchanges
    <3> QED
      BY <2>3, <3>1, <3>4
  <2> QED
    BY <2>2, <2>3
<1>6. Tables' /\ \A n \in Ours : providers[n] \subseteq providers'[n]
  BY <1>2 DEF FindInv, Tables
<1>7. Serving'
  BY <1>4 DEF FindInv, Serving
<1> QED
  BY <1>5, <1>6, <1>7, FindKeeps

\* Who asks or is asked is a peer, and so is what is put into a table.
LEMMA RemoteIsPeer == \A s \in Streams : Remote(s) \in Peers
BY RpcAssumption DEF Streams, Remote

LEMMA AddKeepsTables ==
  ASSUME Tables, NEW n, NEW new \in SUBSET Peers, AddToTable(n, new)
  PROVE  Tables'
<1>1. table' = [table EXCEPT ![n] = IF running[n] THEN @ \cup new ELSE @]
  BY DEF AddToTable
<1>2. DOMAIN table = Ours /\ \A k \in Ours : table[k] \subseteq Peers
  BY DEF Tables
<1>3. DOMAIN table' = Ours
  BY <1>1, <1>2
<1>4. ASSUME NEW k \in Ours
      PROVE  table'[k] \subseteq Peers
  <2>1. CASE k # n
    BY <1>1, <1>2, <2>1
  <2>2. CASE k = n /\ running[n]
    <3>1. table'[k] = table[k] \cup new
      BY <1>1, <1>2, <2>2
    <3> QED
      BY <1>2, <3>1
  <2>3. CASE k = n /\ ~running[n]
    <3>1. table'[k] = table[k]
      BY <1>1, <1>2, <2>3
    <3> QED
      BY <1>2, <3>1
  <2> QED
    BY <2>1, <2>2, <2>3
<1> QED
  BY <1>3, <1>4 DEF Tables

\* A server begins to read, ends the stream, sees its end or throws.
LEMMA WaitKeepsFinds ==
  ASSUME NEW s \in Streams, FindInv, Shape, Tables', UNCHANGED <<providers, call>>,
         server[s].phase \notin {"none", "unused"},
         \/ UNCHANGED stream
         \/ stream' = [stream EXCEPT ![s].reset = TRUE]
         \/ stream' = [stream EXCEPT ![s].ended = TRUE],
         \/ server' = [server EXCEPT ![s].phase = "threw"]
         \/ server' = [server EXCEPT ![s].phase = "ended"]
         \/ server' = [server EXCEPT ![s].phase = "reading"] /\ Server(s) \in Ours
  PROVE  FindInv'
<1>1. /\ DOMAIN stream = Streams /\ DOMAIN server = Streams
      /\ DOMAIN stream[s] = {"toServer", "closed", "toClient", "ended", "reset"}
      /\ DOMAIN server[s] = {"phase", "msg"}
  BY DEF Shape
<1>2. \A r \in Streams : /\ stream'[r].toClient = stream[r].toClient
                         /\ stream'[r].toServer = stream[r].toServer
  <2>1. CASE UNCHANGED stream
    BY <2>1
  <2>2. CASE stream' = [stream EXCEPT ![s].reset = TRUE]
    BY <1>1, <2>2
  <2>3. CASE stream' = [stream EXCEPT ![s].ended = TRUE]
    BY <1>1, <2>3
  <2> QED
    BY <2>1, <2>2, <2>3
<1>3. /\ \A r \in Streams \ {s} : UNCHANGED server[r]
      /\ \/ server'[s].phase \in {"threw", "ended"}
         \/ server'[s].phase = "reading" /\ Server(s) \in Ours
  BY <1>1
<1>4. ASSUME NEW r \in Streams
      PROVE  /\ server'[r].phase = "handling" => UNCHANGED server[r]
             /\ server[r].phase \in {"none", "unused"} => UNCHANGED server[r]
             /\ server'[r].phase = "reading" => server[r].phase = "reading" \/ Server(r) \in Ours
  <2>1. CASE r = s
    BY <1>3, <2>1
  <2>2. CASE r # s
    BY <1>3, <2>2
  <2> QED
    BY <2>1, <2>2
<1>5. \A c \in Calls : Goes(c)
  BY DEF Goes
<1>6. \A n \in Ours : providers[n] \subseteq providers'[n]
  OBVIOUS
<1> QED
  BY <1>2, <1>4, <1>5, <1>6, StillKeeps

LEMMA QuietKeepsFinds ==
  ASSUME NEW s \in Streams, FindInv, Shape,
         \/ Incoming(s) \/ EndOfMessages(s) \/ ResetSeen(s)
         \/ server[s].phase = "handling" /\ AddToTable(Server(s), {Remote(s)}) /\ Throw(s)
            /\ UNCHANGED <<providers, call>>
         \/ server[s].phase = "reading" /\ Throw(s) /\ UNCHANGED <<table, providers, call>>
  PROVE  FindInv'
<1>1. UNCHANGED table \/ AddToTable(Server(s), {Remote(s)})
  BY DEF Incoming, EndOfMessages, ResetSeen
<1>2. Tables'
  <2>1. Tables /\ {Remote(s)} \in SUBSET Peers
    BY RemoteIsPeer DEF FindInv
  <2> QED
    BY <1>1, <2>1, AddKeepsTables DEF Tables
<1>3. /\ UNCHANGED <<providers, call>> /\ server[s].phase \in {"incoming", "reading", "handling"}
      /\ \/ UNCHANGED stream
         \/ stream' = [stream EXCEPT ![s].reset = TRUE]
         \/ stream' = [stream EXCEPT ![s].ended = TRUE]
      /\ \/ server' = [server EXCEPT ![s].phase = "threw"]
         \/ server' = [server EXCEPT ![s].phase = "ended"]
         \/ server' = [server EXCEPT ![s].phase = "reading"] /\ Server(s) \in Ours
  BY DEF Incoming, EndOfMessages, ResetSeen, Throw
<1> QED
  BY <1>2, <1>3, WaitKeepsFinds

\* A lost connection and the stop of a node.
LEMMA LossKeepsFinds ==
  ASSUME FindInv, Shape, (\E s \in Streams : Lost(s)) \/ (\E n \in Ours : Stop(n))
  PROVE  FindInv'
<1>1. UNCHANGED <<providers, call, server>>
  BY DEF Lost, Stop
<1>2. \A r \in Streams : /\ stream'[r].toClient = stream[r].toClient
                         /\ stream'[r].toServer = stream[r].toServer
  <2>1. CASE UNCHANGED stream
    BY <2>1
  <2>2. ASSUME NEW s \in Streams, Lost(s)
        PROVE  \A r \in Streams : /\ stream'[r].toClient = stream[r].toClient
                                  /\ stream'[r].toServer = stream[r].toServer
    <3>1. /\ stream' = [stream EXCEPT ![s].reset = TRUE] /\ DOMAIN stream = Streams
          /\ DOMAIN stream[s] = {"toServer", "closed", "toClient", "ended", "reset"}
      BY <2>2 DEF Lost, Shape
    <3> QED
      BY <3>1
  <2> QED
    BY <2>1, <2>2 DEF Stop
<1>3. Tables'
  <2>1. CASE UNCHANGED table
    BY <2>1 DEF FindInv, Tables
  <2>2. ASSUME NEW n \in Ours, Stop(n)
        PROVE  Tables'
    BY <2>2 DEF FindInv, Tables, Stop
  <2> QED
    BY <2>1, <2>2 DEF Lost
<1>4. \A c \in Calls : Goes(c)
  BY <1>1 DEF Goes
<1>5. \A r \in Streams : UNCHANGED server[r]
  BY <1>1
<1>6. \A n \in Ours : providers[n] \subseteq providers'[n]
  BY <1>1
<1> QED
  BY <1>2, <1>3, <1>4, <1>5, <1>6, StillKeeps

\* The client takes an answer.
LEMMA AnsweredKeepsFinds ==
  ASSUME NEW c \in Calls, FindInv, Shape, Answered(c)
  PROVE  FindInv'
<1> DEFINE queue == stream[c].toClient
           answer == Head(queue)
           ids == {p.id : p \in ToSet(Decode(answer).providers)}
<1>1. /\ DOMAIN call = Calls /\ DOMAIN stream = Streams /\ c \in Streams
      /\ DOMAIN call[c] = {"phase", "outcome", "named", "known"}
      /\ DOMAIN stream[c] = {"toServer", "closed", "toClient", "ended", "reset"}
  BY StreamsOfCalls DEF Shape
<1>2. /\ call[c].phase = "open" /\ queue # <<>>
      /\ stream' = [stream EXCEPT ![c].toClient = Tail(@)]
      /\ UNCHANGED <<providers, server>>
  BY DEF Answered
<1>3. /\ \A s \in Streams \ {c} : UNCHANGED stream[s]
      /\ stream'[c].toServer = stream[c].toServer /\ stream'[c].toClient = Tail(queue)
  BY <1>1, <1>2
<1>4. queue \in Seq(Seq(Nat)) /\ \A i \in 1..Len(queue) : IsAnswer(c, call[c].known, queue[i])
  BY DEF FindInv, Exchange
<1>5. IsAnswer(c, call[c].known, answer)
  <2>1. 1 \in 1..Len(queue) /\ answer = queue[1]
    <3> HIDE DEF queue
    <3> QED
      BY <1>2, <1>4
  <2> QED
    BY <1>4, <2>1
<1>6. /\ Tail(queue) \in Seq(Seq(Nat))
      /\ \A i \in 1..Len(Tail(queue)) : IsAnswer(c, call[c].known, Tail(queue)[i])
  <2>1. /\ Tail(queue) \in Seq(Seq(Nat)) /\ Len(Tail(queue)) = Len(queue) - 1
        /\ Len(queue) \in Nat
        /\ \A i \in 1..(Len(queue) - 1) : Tail(queue)[i] = queue[i + 1]
    <3> HIDE DEF queue
    <3> QED
      BY <1>2, <1>4
  <2>2. ASSUME NEW i \in 1..Len(Tail(queue))
        PROVE  IsAnswer(c, call[c].known, Tail(queue)[i])
    <3>1. i + 1 \in 1..Len(queue) /\ Tail(queue)[i] = queue[i + 1]
      <4>1. i \in 1..(Len(queue) - 1)
        BY <2>1
      <4> HIDE DEF queue
      <4> QED
        BY <2>1, <4>1
    <3> QED
      BY <1>4, <3>1
  <2> QED
    BY <2>1, <2>2
<1>7. \/ /\ Readable(answer)
         /\ Done(c, "PEER_RESPONSE", ids)
         /\ \E new \in SUBSET Named(answer) : AddToTable(Caller[c], new)
      \/ Fails(c) /\ UNCHANGED table
  <2>1. CASE Readable(answer)
    <3> DEFINE named == ToSet(Decode(answer).closer \o Decode(answer).providers)
               new == {p.id : p \in {p \in named : Usable(p.addrs) # {}}}
    <3>1. Done(c, "PEER_RESPONSE", ids) /\ AddToTable(Caller[c], new)
      BY <2>1 DEF Answered
    <3>2. Named(answer) = {p.id : p \in named}
      BY <2>1 DEF Named
    <3>3. new \in SUBSET Named(answer)
      BY <3>2
    <3> QED
      BY <2>1, <3>1, <3>3
  <2>2. CASE ~Readable(answer)
    BY <2>2 DEF Answered
  <2> QED
    BY <2>1, <2>2
<1>8. Tables'
  <2>1. Tables /\ Named(answer) \subseteq Peers
    BY <1>5 DEF FindInv, IsAnswer
  <2>2. CASE UNCHANGED table
    BY <2>1, <2>2 DEF Tables
  <2>3. ASSUME NEW new \in SUBSET Named(answer), AddToTable(Caller[c], new)
        PROVE  Tables'
    <3>1. new \in SUBSET Peers
      BY <2>1
    <3> QED
      BY <2>1, <2>3, <3>1, AddKeepsTables
  <2> QED
    BY <1>7, <2>2, <2>3
<1>9. /\ \A d \in Calls \ {c} : UNCHANGED call[d]
      /\ call'[c].known = call[c].known /\ call'[c].phase = "done"
      /\ call'[c].outcome = "PEER_RESPONSE" => Readable(answer) /\ call'[c].named = ids
  <2> HIDE DEF answer, ids
  <2>1. CASE Done(c, "PEER_RESPONSE", ids) /\ Readable(answer)
    BY <1>1, <2>1 DEF Done
  <2>2. CASE Fails(c)
    BY <1>1, <2>2 DEF Fails, Done
  <2> QED
    BY <1>7, <2>1, <2>2
<1>10. ASSUME NEW d \in Calls
       PROVE  Goes(d) /\ Exchanges(d)
  <2>1. Exchange(d) /\ d \in Streams
    BY StreamsOfCalls DEF FindInv
  <2>2. CASE d # c
    <3>1. Goes(d)
      BY <1>9, <2>2 DEF Goes
    <3>2. UNCHANGED stream[d] /\ UNCHANGED server[d]
      BY <1>2, <1>3, <2>1, <2>2
    <3> QED
      BY <2>1, <3>1, <3>2, NothingSent
  <2>3. CASE d = c
    <3>1. call'[c].outcome = "PEER_RESPONSE" => Finds(c, call[c].known, call'[c].named)
      BY <1>5, <1>9 DEF IsAnswer
    <3>2. Goes(c)
      BY <1>9, <3>1 DEF Goes
    <3>3. Exchanges(c)
      <4>1. UNCHANGED server[c] /\ UNCHANGED stream[c].toServer /\ call[c].phase # "idle"
        BY <1>2, <1>3
      <4>2. /\ stream'[c].toClient \in Seq(Seq(Nat))
            /\ \A i \in 1..Len(stream'[c].toClient) :
                 IsAnswer(c, call[c].known, stream'[c].toClient[i])
        BY <1>3, <1>6
      <4> QED
        BY <2>1, <2>3, <4>1, <4>2 DEF Exchange, Exchanges
    <3> QED
      BY <2>3, <3>2, <3>3
  <2> QED
    BY <2>2, <2>3
<1>11. Serving'
  BY <1>2 DEF FindInv, Serving
<1>12. \A n \in Ours : providers[n] \subseteq providers'[n]
  BY <1>2
<1> QED
  BY <1>8, <1>10, <1>11, <1>12, FindKeeps

\* A server reads a request as it was written.
LEMMA ReceiveKeepsFinds ==
  ASSUME NEW s \in Streams, FindInv, Shape, Receive(s)
  PROVE  FindInv'
<1> DEFINE w == Head(stream[s].toServer)
<1>1. /\ DOMAIN stream = Streams /\ DOMAIN server = Streams
      /\ DOMAIN stream[s] = {"toServer", "closed", "toClient", "ended", "reset"}
      /\ DOMAIN server[s] = {"phase", "msg"}
      /\ server[s].phase = "reading" /\ stream[s].toServer # <<>>
      /\ UNCHANGED <<table, providers, call>>
  BY DEF Shape, Receive
<1>2. CASE ~Readable(w)
  <2>1. Throw(s)
    BY <1>2 DEF Receive
  <2> QED
    BY <1>1, <2>1, QuietKeepsFinds
<1>3. CASE Readable(w)
  <2>1. /\ stream' = [stream EXCEPT ![s].toServer = Tail(@)]
        /\ server' = [server EXCEPT ![s] = [phase |-> "handling", msg |-> Decode(w)]]
    BY <1>3 DEF Receive
  <2>2. /\ \A r \in Streams \ {s} : UNCHANGED <<stream[r], server[r]>>
        /\ stream'[s].toServer = Tail(stream[s].toServer)
        /\ UNCHANGED stream[s].toClient
        /\ server'[s].phase = "handling" /\ server'[s].msg = Decode(w)
    BY <1>1, <2>1
  <2>3. ASSUME NEW c \in Calls
        PROVE  Goes(c) /\ Exchanges(c)
    <3>1. Exchange(c) /\ c \in Streams /\ Goes(c)
      BY <1>1, StreamsOfCalls DEF FindInv, Goes
    <3>2. CASE c # s
      <4>1. UNCHANGED stream[c] /\ UNCHANGED server[c]
        BY <2>2, <3>1, <3>2
      <4> QED
        BY <3>1, <4>1, NothingSent
    <3>3. CASE c = s
      <4>1. ASSUME Callee[c] \in Ours
            PROVE  stream'[c].toServer = <<>> /\ server'[c].msg = Request(c)
        <5>1. stream[c].toServer = <<Encode(Request(c))>>
          BY <1>1, <3>1, <3>3, <4>1 DEF Exchange
        <5>2. w = Encode(Request(c)) /\ Tail(stream[c].toServer) = <<>>
          BY <3>3, <5>1
        <5>3. Decode(w) = Request(c)
          BY <5>2, RequestIsMessage, RoundTrip
        <5> QED
          BY <2>2, <3>3, <5>2, <5>3
      <4>2. UNCHANGED stream[c].toClient /\ call[c].phase # "idle"
        BY <1>1, <2>2, <3>1, <3>3 DEF Exchange
      <4> QED
        BY <3>1, <4>1, <4>2 DEF Exchanges
    <3> QED
      BY <3>2, <3>3
  <2>4. Serving'
    <3>1. Server(s) \in Ours
      BY <1>1 DEF FindInv, Serving
    <3> QED
      BY <2>2, <3>1 DEF FindInv, Serving
  <2>5. Tables' /\ \A n \in Ours : providers[n] \subseteq providers'[n]
    BY <1>1 DEF FindInv, Tables
  <2> QED
    BY <2>3, <2>4, <2>5, FindKeeps
<1> QED
  BY <1>2, <1>3

\* What other nodes do.
LEMMA RawKeepsFinds ==
  ASSUME NEW s \in Raw, FindInv, Shape, RawStream(s)
  PROVE  FindInv'
<1>1. /\ s \in Streams /\ s \notin Calls /\ DOMAIN stream = Streams /\ DOMAIN server = Streams
      /\ DOMAIN server[s] = {"phase", "msg"}
  BY RpcAssumption DEF Shape, Streams
<1>2. /\ UNCHANGED <<table, providers, call>>
      /\ server' = [server EXCEPT ![s].phase = "incoming"]
      /\ \E x : stream' = [stream EXCEPT ![s] = x]
  BY DEF RawStream, Open
<1>3. \A r \in Streams \ {s} : UNCHANGED <<stream[r], server[r]>>
  BY <1>1, <1>2
<1>4. server'[s].phase = "incoming"
  BY <1>1, <1>2
<1>5. ASSUME NEW c \in Calls
      PROVE  Goes(c) /\ Exchanges(c)
  <2>1. c \in Streams /\ c # s
    BY <1>1, StreamsOfCalls
  <2>2. UNCHANGED stream[c] /\ UNCHANGED server[c]
    BY <1>3, <2>1
  <2> QED
    BY <1>2, <2>2, NothingSent DEF Goes
<1>6. Serving'
  BY <1>3, <1>4 DEF FindInv, Serving
<1>7. Tables' /\ \A n \in Ours : providers[n] \subseteq providers'[n]
  BY <1>2 DEF FindInv, Tables
<1> QED
  BY <1>5, <1>6, <1>7, FindKeeps

\* An answer is added to what is on its way to call c.
LEMMA AppendAnswer ==
  ASSUME NEW c \in Calls, Exchange(c), NEW w, IsAnswer(c, call[c].known, w)
  PROVE  /\ Append(stream[c].toClient, w) \in Seq(Seq(Nat))
         /\ \A i \in 1..Len(Append(stream[c].toClient, w)) :
              IsAnswer(c, call[c].known, Append(stream[c].toClient, w)[i])
<1> DEFINE queue == stream[c].toClient
<1>1. queue \in Seq(Seq(Nat)) /\ \A i \in 1..Len(queue) : IsAnswer(c, call[c].known, queue[i])
  BY DEF Exchange
<1>2. w \in Seq(Nat)
  BY DEF IsAnswer
<1> HIDE DEF queue
<1>3. /\ Append(queue, w) \in Seq(Seq(Nat)) /\ Len(Append(queue, w)) = Len(queue) + 1
      /\ Len(queue) \in Nat
      /\ \A i \in 1..Len(queue) : Append(queue, w)[i] = queue[i]
      /\ Append(queue, w)[Len(queue) + 1] = w
  BY <1>1, <1>2
<1>4. ASSUME NEW i \in 1..Len(Append(queue, w))
      PROVE  IsAnswer(c, call[c].known, Append(queue, w)[i])
  <2>1. i \in 1..Len(queue) \/ i = Len(queue) + 1
    BY <1>3
  <2> QED
    BY <1>1, <1>3, <2>1
<1> QED
  BY <1>3, <1>4 DEF queue

LEMMA ForeignKeepsFinds ==
  ASSUME NEW c \in Calls, FindInv, Shape, ForeignAnswer(c)
  PROVE  FindInv'
<1>1. /\ c \in Streams /\ DOMAIN stream = Streams /\ DOMAIN server = Streams
      /\ DOMAIN stream[c] = {"toServer", "closed", "toClient", "ended", "reset"}
      /\ DOMAIN server[c] = {"phase", "msg"}
  BY StreamsOfCalls DEF Shape
<1>2. /\ server[c].phase = "incoming" /\ Server(c) \notin Ours
      /\ UNCHANGED <<table, providers, call>>
      /\ server' = [server EXCEPT ![c].phase = "ended"]
  BY DEF ForeignAnswer
<1>3. Callee[c] \notin Ours
  BY <1>2 DEF Server
<1>4. CASE stream' = [stream EXCEPT ![c].ended = TRUE]
  <2>1. Tables' /\ server[c].phase \notin {"none", "unused"}
    BY <1>2 DEF FindInv, Tables
  <2> QED
    BY <1>1, <1>2, <1>4, <2>1, WaitKeepsFinds
<1>5. ASSUME NEW w \in Replies, stream' = [stream EXCEPT ![c].toClient = Append(@, w)]
      PROVE  FindInv'
  <2>1. IsAnswer(c, call[c].known, w)
    BY <1>3, RpcAssumption DEF IsAnswer, Finds
  <2>2. /\ \A r \in Streams \ {c} : UNCHANGED <<stream[r], server[r]>>
        /\ stream'[c].toClient = Append(stream[c].toClient, w)
        /\ server'[c].phase = "ended"
    BY <1>1, <1>2, <1>5
  <2>3. ASSUME NEW d \in Calls
        PROVE  Goes(d) /\ Exchanges(d)
    <3>1. Exchange(d) /\ d \in Streams /\ Goes(d)
      BY <1>2, StreamsOfCalls DEF FindInv, Goes
    <3>2. CASE d # c
      <4>1. UNCHANGED stream[d] /\ UNCHANGED server[d]
        BY <2>2, <3>1, <3>2
      <4> QED
        BY <3>1, <4>1, NothingSent
    <3>3. CASE d = c
      <4>1. call[c].phase # "idle"
        BY <1>2, <3>1, <3>3 DEF Exchange
      <4>2. /\ stream'[c].toClient \in Seq(Seq(Nat))
            /\ \A i \in 1..Len(stream'[c].toClient) :
                 IsAnswer(c, call[c].known, stream'[c].toClient[i])
        BY <2>1, <2>2, <3>1, <3>3, AppendAnswer
      <4>3. Exchanges(c)
        BY <1>3, <4>1, <4>2 DEF Exchanges
      <4> QED
        BY <3>1, <3>3, <4>3
    <3> QED
      BY <3>2, <3>3
  <2>4. Serving'
    BY <2>2 DEF FindInv, Serving
  <2>5. Tables' /\ \A n \in Ours : providers[n] \subseteq providers'[n]
    BY <1>2 DEF FindInv, Tables
  <2> QED
    BY <2>3, <2>4, <2>5, FindKeeps
<1> QED
  BY <1>4, <1>5 DEF ForeignAnswer

-----------------------------------------------------------------------------
(* What the handlers answer.                                               *)

\* The peers that a node knows, with their addresses, are finitely many.
LEMMA InfosOf ==
  ASSUME NEW n \in Ours, NEW ids \in SUBSET Peers,
         NEW protocols \in {S \in SUBSET Nat : IsFiniteSet(S)}
  PROVE  LET infos == {Info(p, Book[n][p], protocols) : p \in ids}
         IN infos \in SUBSET Infos /\ IsFiniteSet(infos)
<1> DEFINE infos == {Info(p, Book[n][p], protocols) : p \in ids}
           f == [p \in ids |-> Info(p, Book[n][p], protocols)]
<1>1. IsFiniteSet(ids)
  BY RpcAssumption, FS_Subset
<1>2. f \in Surjection(ids, infos)
  BY DEF Surjection
<1>3. IsFiniteSet(infos)
  <2> HIDE DEF f, infos
  <2> QED
    BY <1>1, <1>2, FS_Surjection
<1>4. ASSUME NEW p \in ids
      PROVE  Info(p, Book[n][p], protocols) \in Infos
  <2>1. p \in Peers /\ p \in Nat /\ Book[n][p] \in SUBSET Nat /\ IsFiniteSet(Book[n][p])
    BY RpcAssumption
  <2> QED
    BY <2>1 DEF Info, Infos
<1> QED
  BY <1>3, <1>4

\* What is left of them when only usable addresses count.
LEMMA OnlyUsableIs ==
  ASSUME NEW infos \in SUBSET Infos, IsFiniteSet(infos)
  PROVE  /\ OnlyUsable(infos) \in Seq(Infos)
         /\ {p.id : p \in ToSet(OnlyUsable(infos))} =
              {p.id : p \in {p \in infos : Usable(p.addrs) # {}}}
<1> DEFINE f == [p \in infos |-> [p EXCEPT !.addrs = Usable(@)]]
           usable == {[p EXCEPT !.addrs = Usable(@)] : p \in infos}
           left == {p \in usable : p.addrs # {}}
<1>1. ASSUME NEW p \in infos
      PROVE  /\ [p EXCEPT !.addrs = Usable(@)] \in Infos
             /\ [p EXCEPT !.addrs = Usable(@)].id = p.id
             /\ [p EXCEPT !.addrs = Usable(@)].addrs = Usable(p.addrs)
  <2>1. /\ p \in Infos /\ p.addrs \in SUBSET Nat /\ IsFiniteSet(p.addrs)
        /\ p = [id |-> p.id, addrs |-> p.addrs, protocols |-> p.protocols]
        /\ p.id \in Nat /\ p.protocols \in {S \in SUBSET Nat : IsFiniteSet(S)}
    BY DEF Infos
  <2>2. Usable(p.addrs) \in SUBSET p.addrs
    BY DEF Usable
  <2>3. Usable(p.addrs) \in {S \in SUBSET Nat : IsFiniteSet(S)}
    BY <2>1, <2>2, FS_Subset
  <2>4. [p EXCEPT !.addrs = Usable(@)] =
          [id |-> p.id, addrs |-> Usable(p.addrs), protocols |-> p.protocols]
    BY <2>1
  <2> QED
    BY <2>1, <2>3, <2>4 DEF Infos
<1>2. IsFiniteSet(left)
  <2>1. f \in Surjection(infos, usable)
    BY DEF Surjection
  <2>2. IsFiniteSet(usable)
    <3> HIDE DEF f, usable
    <3> QED
      BY <2>1, FS_Surjection
  <2>3. left \in SUBSET usable
    OBVIOUS
  <2> HIDE DEF usable, left
  <2> QED
    BY <2>2, <2>3, FS_Subset
<1>3. Lists(SetToSeq(left), left) /\ OnlyUsable(infos) = SetToSeq(left)
  <2>1. OnlyUsable(infos) = SetToSeq(left)
    BY DEF OnlyUsable
  <2> HIDE DEF left
  <2> QED
    BY <1>2, <2>1, SetToSeqLists
<1>4. left \in SUBSET Infos
  BY <1>1
<1>5. OnlyUsable(infos) \in Seq(Infos) /\ ToSet(OnlyUsable(infos)) = left
  <2>1. OnlyUsable(infos) \in Seq(left) /\ ToSet(OnlyUsable(infos)) = left
    <3> HIDE DEF left
    <3> QED
      BY <1>3 DEF Lists, ToSet
  <2> HIDE DEF left
  <2> QED
    BY <1>4, <2>1
<1>6. {p.id : p \in left} = {p.id : p \in {p \in infos : Usable(p.addrs) # {}}}
  <2>1. ASSUME NEW q \in left
        PROVE  \E p \in infos : Usable(p.addrs) # {} /\ q.id = p.id
    <3>1. PICK p \in infos : q = [p EXCEPT !.addrs = Usable(@)]
      OBVIOUS
    <3>2. q.addrs # {}
      OBVIOUS
    <3> QED
      BY <1>1, <3>1, <3>2
  <2>2. ASSUME NEW p \in infos, Usable(p.addrs) # {}
        PROVE  \E q \in left : q.id = p.id
    <3>1. [p EXCEPT !.addrs = Usable(@)] \in left
      BY <1>1, <2>2
    <3> QED
      BY <1>1, <3>1
  <2> HIDE DEF left
  <2>3. ASSUME NEW x \in {p.id : p \in left}
        PROVE  x \in {p.id : p \in {p \in infos : Usable(p.addrs) # {}}}
    <3>1. PICK q \in left : x = q.id
      OBVIOUS
    <3>2. PICK p \in infos : Usable(p.addrs) # {} /\ q.id = p.id
      BY <2>1
    <3> QED
      BY <3>1, <3>2
  <2>4. ASSUME NEW x \in {p.id : p \in {p \in infos : Usable(p.addrs) # {}}}
        PROVE  x \in {p.id : p \in left}
    <3>1. PICK p \in infos : Usable(p.addrs) # {} /\ x = p.id
      OBVIOUS
    <3>2. PICK q \in left : q.id = p.id
      BY <2>2, <3>1
    <3> QED
      BY <3>1, <3>2
  <2> QED
    BY <2>3, <2>4
<1> QED
  BY <1>5, <1>6

LEMMA GetPeersIs ==
  ASSUME NEW n \in Ours, NEW ids \in SUBSET Peers
  PROVE  /\ GetPeers(n, ids) \in Seq(Infos)
         /\ {p.id : p \in ToSet(GetPeers(n, ids))} = {p \in ids : Usable(Book[n][p]) # {}}
<1> DEFINE infos == {Info(p, Book[n][p], {}) : p \in ids}
<1>1. infos \in SUBSET Infos /\ IsFiniteSet(infos)
  BY InfosOf, FS_EmptySet
<1>2. GetPeers(n, ids) = OnlyUsable(infos)
  BY DEF GetPeers
<1>3. {p.id : p \in {p \in infos : Usable(p.addrs) # {}}} = {p \in ids : Usable(Book[n][p]) # {}}
  <2>1. ASSUME NEW i \in infos, Usable(i.addrs) # {}
        PROVE  i.id \in ids /\ Usable(Book[n][i.id]) # {}
    <3>1. PICK p \in ids : i = Info(p, Book[n][p], {})
      OBVIOUS
    <3>2. i.id = p /\ i.addrs = Book[n][p]
      BY <3>1 DEF Info
    <3> QED
      BY <2>1, <3>2
  <2>2. ASSUME NEW p \in ids, Usable(Book[n][p]) # {}
        PROVE  \E i \in infos : Usable(i.addrs) # {} /\ i.id = p
    <3>1. Info(p, Book[n][p], {}) \in infos
      OBVIOUS
    <3>2. Info(p, Book[n][p], {}).id = p /\ Info(p, Book[n][p], {}).addrs = Book[n][p]
      BY DEF Info
    <3> QED
      BY <2>2, <3>1, <3>2
  <2> HIDE DEF infos
  <2> QED
    BY <2>1, <2>2
<1> HIDE DEF infos
<1> QED
  BY <1>1, <1>2, <1>3, OnlyUsableIs

\* A message that is written names the peers that it holds.
LEMMA WrittenIsAnswer ==
  ASSUME NEW c, NEW known, NEW a \in Message,
         {p.id : p \in ToSet(a.closer)} \subseteq Peers,
         {p.id : p \in ToSet(a.providers)} \subseteq Peers,
         Finds(c, known, {p.id : p \in ToSet(a.providers)})
  PROVE  IsAnswer(c, known, Encode(a))
<1>1. Encode(a) \in Seq(Nat) /\ Readable(Encode(a)) /\ Decode(Encode(a)) = a
  BY RoundTrip
<1>2. a.closer \in Seq(Infos) /\ a.providers \in Seq(Infos)
  BY DEF Message
<1>3. ToSet(a.closer \o a.providers) = ToSet(a.closer) \cup ToSet(a.providers)
  BY <1>2, ConcatSet
<1>4. Named(Encode(a)) = {p.id : p \in ToSet(a.closer \o a.providers)}
  BY <1>1 DEF Named
<1>5. Named(Encode(a)) \subseteq Peers
  BY <1>3, <1>4
<1> QED
  BY <1>1, <1>5 DEF IsAnswer

LEMMA CloserPeersAre ==
  ASSUME NEW n \in Ours, NEW asker, Tables'
  PROVE  /\ CloserPeers(n, asker) \in SUBSET Infos /\ IsFiniteSet(CloserPeers(n, asker))
         /\ \A p \in CloserPeers(n, asker) : p.id \in Peers
<1> DEFINE ids == table'[n] \ {asker}
<1>1. ids \in SUBSET Peers
  BY DEF Tables
<1>2. {n} \in {S \in SUBSET Nat : IsFiniteSet(S)}
  <2>1. n \in Nat
    BY RpcAssumption
  <2>2. IsFiniteSet({n})
    BY FS_Singleton
  <2> QED
    BY <2>1, <2>2
<1>3. CloserPeers(n, asker) = {Info(p, Book[n][p], {n}) : p \in ids}
  BY DEF CloserPeers
<1>4. \A p \in ids : Info(p, Book[n][p], {n}).id = p
  BY DEF Info
<1> HIDE DEF ids
<1>5. CloserPeers(n, asker) \in SUBSET Infos /\ IsFiniteSet(CloserPeers(n, asker))
  BY <1>1, <1>2, <1>3, InfosOf
<1>6. ASSUME NEW i \in CloserPeers(n, asker)
      PROVE  i.id \in Peers
  <2>1. PICK p \in ids : i = Info(p, Book[n][p], {n})
    BY <1>3
  <2> QED
    BY <1>1, <1>4, <2>1
<1> QED
  BY <1>5, <1>6

\* What a request asks for.
LEMMA RequestHas ==
  ASSUME NEW c \in Calls
  PROVE  /\ Request(c).type = Type[c] /\ Request(c).level = 0 /\ Request(c).closer = <<>>
         /\ Type[c] # "ADD_PROVIDER" => Request(c).providers = <<>>
         /\ Type[c] = "GET_PROVIDERS" => Request(c).key = Multihash(About[c])
BY DEF Request, NewMessage

\* The message that a handler makes.
Made(type, key, record, closer, providing) ==
  [type |-> type, key |-> key, level |-> 0, record |-> record,
   closer |-> closer, providers |-> providing]

\* If it names the right peers, it is an answer.
LEMMA MadeIsAnswer ==
  ASSUME NEW c, NEW known, NEW type \in ToSet(MessageTypes), NEW key \in Seq(Nat),
         NEW record \in Seq(Nat), NEW closer \in Seq(Infos), NEW providing \in Seq(Infos),
         {p.id : p \in ToSet(closer)} \subseteq Peers,
         {p.id : p \in ToSet(providing)} \subseteq Peers,
         Finds(c, known, {p.id : p \in ToSet(providing)})
  PROVE  IsAnswer(c, known, Encode(Made(type, key, record, closer, providing)))
<1> DEFINE a == Made(type, key, record, closer, providing)
<1>1. a \in Message
  BY DEF Made, Message
<1>2. a.closer = closer /\ a.providers = providing
  BY DEF Made
<1> HIDE DEF a
<1>3. IsAnswer(c, known, Encode(a))
  BY <1>1, <1>2, WrittenIsAnswer
<1> QED
  BY <1>3 DEF a

\* An answer is sent, to a call or to another stream.
LEMMA RespondKeepsFinds ==
  ASSUME NEW s \in Streams, FindInv, Shape, server[s].phase = "handling", Tables',
         UNCHANGED <<providers, call>>, NEW a, Respond(s, a),
         s \in Calls => IsAnswer(s, call[s].known, Encode(a))
  PROVE  FindInv'
<1>1. /\ DOMAIN stream = Streams /\ DOMAIN server = Streams
      /\ DOMAIN stream[s] = {"toServer", "closed", "toClient", "ended", "reset"}
      /\ DOMAIN server[s] = {"phase", "msg"}
  BY DEF Shape
<1>2. /\ server' = [server EXCEPT ![s].phase = "reading"]
      /\ stream' = [stream EXCEPT ![s].toClient =
                      IF stream[s].reset THEN @ ELSE Append(@, Encode(a))]
  BY DEF Respond
<1>3. /\ \A r \in Streams \ {s} : UNCHANGED <<stream[r], server[r]>>
      /\ server'[s].phase = "reading" /\ UNCHANGED stream[s].toServer
      /\ \/ UNCHANGED stream[s].toClient
         \/ stream'[s].toClient = Append(stream[s].toClient, Encode(a))
  BY <1>1, <1>2
<1>4. ASSUME NEW c \in Calls
      PROVE  Goes(c) /\ Exchanges(c)
  <2>1. Exchange(c) /\ c \in Streams /\ Goes(c)
    BY StreamsOfCalls DEF FindInv, Goes
  <2>2. CASE c # s
    <3>1. UNCHANGED stream[c] /\ UNCHANGED server[c]
      BY <1>3, <2>1, <2>2
    <3> QED
      BY <2>1, <3>1, NothingSent
  <2>3. CASE c = s
    <3>1. call[c].phase # "idle"
      BY <2>1, <2>3 DEF Exchange
    <3>2. /\ Append(stream[c].toClient, Encode(a)) \in Seq(Seq(Nat))
          /\ \A i \in 1..Len(Append(stream[c].toClient, Encode(a))) :
               IsAnswer(c, call[c].known, Append(stream[c].toClient, Encode(a))[i])
      BY <2>1, <2>3, AppendAnswer
    <3>3. \/ UNCHANGED stream[c].toClient
          \/ /\ stream'[c].toClient \in Seq(Seq(Nat))
             /\ \A i \in 1..Len(stream'[c].toClient) :
                  IsAnswer(c, call[c].known, stream'[c].toClient[i])
      BY <1>3, <2>3, <3>2
    <3>4. Exchanges(c)
      BY <1>3, <2>1, <2>3, <3>1, <3>3 DEF Exchange, Exchanges
    <3> QED
      BY <2>1, <3>4
  <2> QED
    BY <2>2, <2>3
<1>5. Serving'
  <2>1. Server(s) \in Ours
    BY DEF FindInv, Serving
  <2> QED
    BY <1>3, <2>1 DEF FindInv, Serving
<1>6. \A n \in Ours : providers[n] \subseteq providers'[n]
  OBVIOUS
<1> QED
  BY <1>4, <1>5, <1>6, FindKeeps

\* What the handlers of FIND_NODE, GET_PROVIDERS and GET_VALUE answer to a call.
LEMMA FindNodeAnswers ==
  ASSUME NEW s \in Calls, FindInv, server[s].phase = "handling", Tables',
         server[s].msg = Request(s), Server(s) \in Ours, FindNode(s, server[s].msg)
  PROVE  \E a : Respond(s, a) /\ IsAnswer(s, call[s].known, Encode(a))
<1> DEFINE m == server[s].msg
           n == Server(s)
           closer == IF m.key = <<n>> THEN {Info(n, OwnAddrs[n], {})}
                     ELSE CloserPeers(n, Remote(s))
           found == OnlyUsable(closer)
<1>1. /\ m.type = "FIND_NODE" /\ m.level = 0 /\ Type[s] = "FIND_NODE"
      /\ Respond(s, [NewMessage(m.type, <<>>, ClusterLevel(m)) EXCEPT !.closer = found])
  BY RequestHas DEF FindNode
<1>2. closer \in SUBSET Infos /\ IsFiniteSet(closer) /\ \A p \in closer : p.id \in Peers
  <2>1. CASE m.key = <<n>>
    <3>1. n \in Nat /\ n \in Peers /\ OwnAddrs[n] \in SUBSET Nat /\ IsFiniteSet(OwnAddrs[n])
      BY RpcAssumption
    <3>2. Info(n, OwnAddrs[n], {}) \in Infos /\ Info(n, OwnAddrs[n], {}).id = n
      BY <3>1, FS_EmptySet DEF Info, Infos
    <3>3. IsFiniteSet({Info(n, OwnAddrs[n], {})})
      BY FS_Singleton
    <3> QED
      BY <2>1, <3>1, <3>2, <3>3
  <2>2. CASE m.key # <<n>>
    BY <2>2, CloserPeersAre
  <2> QED
    BY <2>1, <2>2
<1>3. found \in Seq(Infos) /\ {p.id : p \in ToSet(found)} \subseteq Peers
  <2> HIDE DEF closer
  <2>1. /\ found \in Seq(Infos)
        /\ {p.id : p \in ToSet(found)} = {p.id : p \in {p \in closer : Usable(p.addrs) # {}}}
    BY <1>2, OnlyUsableIs
  <2> QED
    BY <1>2, <2>1
<1> HIDE DEF m, closer, found
<1>4. [NewMessage(m.type, <<>>, ClusterLevel(m)) EXCEPT !.closer = found]
        = Made("FIND_NODE", <<>>, <<>>, found, <<>>)
  BY <1>1 DEF NewMessage, Made, ClusterLevel
<1>5. IsAnswer(s, call[s].known, Encode(Made("FIND_NODE", <<>>, <<>>, found, <<>>)))
  <2>1. "FIND_NODE" \in ToSet(MessageTypes) /\ <<>> \in Seq(Nat) /\ <<>> \in Seq(Infos)
    BY <1>1, RpcAssumption
  <2>2. {p.id : p \in ToSet(<<>>)} = {}
    BY DEF ToSet
  <2>3. Finds(s, call[s].known, {p.id : p \in ToSet(<<>>)})
    BY <1>1 DEF Finds
  <2> QED
    BY <1>3, <2>1, <2>2, <2>3, MadeIsAnswer
<1> QED
  BY <1>1, <1>4, <1>5

LEMMA GetValueAnswers ==
  ASSUME NEW s \in Calls, FindInv, server[s].phase = "handling", Tables',
         server[s].msg = Request(s), Server(s) \in Ours, GetValue(s, server[s].msg)
  PROVE  \E a : Respond(s, a) /\ IsAnswer(s, call[s].known, Encode(a))
<1> DEFINE m == server[s].msg
<1>1. m.type = "GET_VALUE" /\ m.level = 0 /\ Type[s] = "GET_VALUE" /\ m.key \in Seq(Nat)
  BY RequestHas, RequestIsMessage DEF GetValue, Message
<1>2. PICK record \in {<<>>, m.key}, set \in {{}, CloserPeers(Server(s), Remote(s))} :
        Respond(s, [NewMessage(m.type, m.key, ClusterLevel(m)) EXCEPT
                      !.record = record, !.closer = SetToSeq(set)])
  BY DEF GetValue
<1> DEFINE closer == SetToSeq(set)
<1>3. closer \in Seq(Infos) /\ {p.id : p \in ToSet(closer)} \subseteq Peers
  <2> DEFINE peers == CloserPeers(Server(s), Remote(s))
  <2>0. peers \in SUBSET Infos /\ IsFiniteSet(peers) /\ \A p \in peers : p.id \in Peers
    BY CloserPeersAre
  <2> HIDE DEF peers
  <2>1. set \in SUBSET Infos /\ IsFiniteSet(set) /\ \A p \in set : p.id \in Peers
    <3>1. set = {} \/ set = peers
      BY <1>2 DEF peers
    <3> QED
      BY <2>0, <3>1, FS_EmptySet
  <2>2. closer \in Seq(set) /\ ToSet(closer) = set
    BY <2>1, SetToSeqLists DEF Lists, ToSet
  <2> QED
    BY <2>1, <2>2
<1> HIDE DEF m, closer
<1>4. [NewMessage(m.type, m.key, ClusterLevel(m)) EXCEPT !.record = record, !.closer = closer]
        = Made("GET_VALUE", m.key, record, closer, <<>>)
  <2>1. NewMessage(m.type, m.key, ClusterLevel(m)) = Made("GET_VALUE", m.key, <<>>, <<>>, <<>>)
    BY <1>1 DEF NewMessage, Made, ClusterLevel
  <2> DEFINE new == Made("GET_VALUE", m.key, <<>>, <<>>, <<>>)
  <2>2. [new EXCEPT !.record = record] = Made("GET_VALUE", m.key, record, <<>>, <<>>)
    BY DEF Made
  <2>3. [Made("GET_VALUE", m.key, record, <<>>, <<>>) EXCEPT !.closer = closer]
          = Made("GET_VALUE", m.key, record, closer, <<>>)
    BY DEF Made
  <2> HIDE DEF new
  <2>4. [[new EXCEPT !.record = record] EXCEPT !.closer = closer]
          = Made("GET_VALUE", m.key, record, closer, <<>>)
    BY <2>2, <2>3
  <2> QED
    BY <2>1, <2>4 DEF new
<1>5. IsAnswer(s, call[s].known, Encode(Made("GET_VALUE", m.key, record, closer, <<>>)))
  <2>1. "GET_VALUE" \in ToSet(MessageTypes)
    BY <1>1, RpcAssumption
  <2>4. <<>> \in Seq(Nat) /\ <<>> \in Seq(Infos)
    OBVIOUS
  <2>5. record \in Seq(Nat) /\ m.key \in Seq(Nat)
    BY <1>1, <2>4
  <2>2. {p.id : p \in ToSet(<<>>)} = {}
    BY DEF ToSet
  <2>3. Finds(s, call[s].known, {p.id : p \in ToSet(<<>>)})
    BY <1>1 DEF Finds
  <2> QED
    BY <1>3, <2>1, <2>2, <2>3, <2>4, <2>5, MadeIsAnswer
<1>6. Respond(s, [NewMessage(m.type, m.key, ClusterLevel(m)) EXCEPT
                    !.record = record, !.closer = closer])
  BY <1>2 DEF m, closer
<1>7. Respond(s, Made("GET_VALUE", m.key, record, closer, <<>>))
  BY <1>4, <1>6
<1> QED
  BY <1>5, <1>7

LEMMA GetProvidersAnswers ==
  ASSUME NEW s \in Calls, FindInv, server[s].phase = "handling", Tables',
         server[s].msg = Request(s), Server(s) \in Ours, GetProviders(s, server[s].msg)
  PROVE  \E a : Respond(s, a) /\ IsAnswer(s, call[s].known, Encode(a))
<1> DEFINE m == server[s].msg
           n == Server(s)
           here == {p \in Peers : <<ProviderKey(m.key), p>> \in providers[n]}
           closer == GetPeers(n, table'[n] \ {Remote(s)})
           providing == GetPeers(n, here)
<1>1. /\ m.type = "GET_PROVIDERS" /\ m.level = 0 /\ Type[s] = "GET_PROVIDERS"
      /\ m.key \in Seq(Nat) /\ m.key = Multihash(About[s])
      /\ Respond(s, [NewMessage(m.type, m.key, ClusterLevel(m)) EXCEPT
                       !.providers = providing, !.closer = closer])
  BY RequestHas, RequestIsMessage DEF GetProviders, Message
<1>2. closer \in Seq(Infos) /\ {p.id : p \in ToSet(closer)} \subseteq Peers
  <2>1. table'[n] \ {Remote(s)} \in SUBSET Peers
    BY DEF Tables
  <2> QED
    BY <2>1, GetPeersIs
<1>3. /\ providing \in Seq(Infos)
      /\ {p.id : p \in ToSet(providing)} = {p \in here : Usable(Book[n][p]) # {}}
  BY GetPeersIs
<1>4. ProviderKey(m.key) = Multihash(About[s])
  BY <1>1 DEF ProviderKey, Multihash
<1>5. Finds(s, call[s].known, {p.id : p \in ToSet(providing)})
  <2>1. n = Callee[s]
    BY DEF Server
  <2>2. ASSUME NEW p \in call[s].known, OwnAddrs[p] # {}, Usable(Book[n][p]) # {}
        PROVE  p \in here
    <3>1. IsKnown(s, p)
      BY <2>1 DEF FindInv, KnownAreStored
    <3> QED
      BY <1>4, <2>1, <2>2, <3>1 DEF IsKnown
  <2> QED
    BY <1>3, <2>1, <2>2 DEF Finds
<1> HIDE DEF m, closer, providing
<1>6. [NewMessage(m.type, m.key, ClusterLevel(m)) EXCEPT !.providers = providing, !.closer = closer]
        = Made("GET_PROVIDERS", m.key, <<>>, closer, providing)
  <2>1. NewMessage(m.type, m.key, ClusterLevel(m)) = Made("GET_PROVIDERS", m.key, <<>>, <<>>, <<>>)
    BY <1>1 DEF NewMessage, Made, ClusterLevel
  <2> DEFINE new == Made("GET_PROVIDERS", m.key, <<>>, <<>>, <<>>)
  <2>2. [new EXCEPT !.providers = providing] = Made("GET_PROVIDERS", m.key, <<>>, <<>>, providing)
    BY DEF Made
  <2>3. [Made("GET_PROVIDERS", m.key, <<>>, <<>>, providing) EXCEPT !.closer = closer]
          = Made("GET_PROVIDERS", m.key, <<>>, closer, providing)
    BY DEF Made
  <2> HIDE DEF new
  <2>4. [[new EXCEPT !.providers = providing] EXCEPT !.closer = closer]
          = Made("GET_PROVIDERS", m.key, <<>>, closer, providing)
    BY <2>2, <2>3
  <2> QED
    BY <2>1, <2>4 DEF new
<1>7. IsAnswer(s, call[s].known, Encode(Made("GET_PROVIDERS", m.key, <<>>, closer, providing)))
  <2>1. "GET_PROVIDERS" \in ToSet(MessageTypes) /\ <<>> \in Seq(Nat)
    BY <1>1, RpcAssumption
  <2>2. {p.id : p \in ToSet(providing)} \subseteq Peers
    BY <1>3
  <2> QED
    BY <1>1, <1>2, <1>3, <1>5, <2>1, <2>2, MadeIsAnswer
<1> QED
  BY <1>1, <1>6, <1>7

\* All handlers.
LEMMA HandleKeepsFinds ==
  ASSUME NEW s \in Streams, FindInv, Shape, Handle(s)
  PROVE  FindInv'
<1> DEFINE m == server[s].msg
<1>1. /\ server[s].phase = "handling" /\ AddToTable(Server(s), {Remote(s)})
      /\ UNCHANGED call
      /\ \/ Ping(s, m) \/ FindNode(s, m) \/ AddProvider(s, m)
         \/ GetProviders(s, m) \/ GetValue(s, m) \/ PutValue(s, m)
         \/ Throw(s) /\ UNCHANGED providers
  BY DEF Handle
<1>2. Tables'
  <2>1. Tables /\ {Remote(s)} \in SUBSET Peers
    BY RemoteIsPeer DEF FindInv
  <2> QED
    BY <1>1, <2>1, AddKeepsTables
<1>3. Server(s) \in Ours
  BY <1>1 DEF FindInv, Serving
<1>4. s \in Calls => m = Request(s)
  BY <1>1, <1>3 DEF FindInv, Exchange, Server
<1>5. CASE Throw(s) /\ UNCHANGED providers
  BY <1>1, <1>5, QuietKeepsFinds
<1>6. CASE AddProvider(s, m)
  <2>1. /\ \/ server' = [server EXCEPT ![s].phase = "reading"] /\ UNCHANGED stream
           \/ Throw(s)
        /\ \E new : providers' = [providers EXCEPT ![Server(s)] = @ \cup new]
    BY <1>6 DEF AddProvider
  <2>2. /\ DOMAIN server = Streams /\ DOMAIN server[s] = {"phase", "msg"}
        /\ DOMAIN stream = Streams /\ DOMAIN providers = Ours
        /\ DOMAIN stream[s] = {"toServer", "closed", "toClient", "ended", "reset"}
    BY DEF Shape
  <2>3. \A n \in Ours : providers[n] \subseteq providers'[n]
    BY <2>1, <2>2
  <2>4. /\ server'[s].phase \in {"reading", "threw"}
        /\ \A r \in Streams \ {s} : UNCHANGED server[r]
    BY <2>1, <2>2 DEF Throw
  <2>5. ASSUME NEW r \in Streams
        PROVE  /\ server'[r].phase = "handling" => UNCHANGED server[r]
               /\ server[r].phase \in {"none", "unused"} => UNCHANGED server[r]
               /\ server'[r].phase = "reading" => server[r].phase = "reading" \/ Server(r) \in Ours
    <3>1. CASE r = s
      BY <1>1, <1>3, <2>4, <3>1
    <3>2. CASE r # s
      BY <2>4, <3>2
    <3> QED
      BY <3>1, <3>2
  <2>6. \A c \in Calls : Goes(c)
    BY <1>1 DEF Goes
  <2>7. \A r \in Streams : /\ stream'[r].toClient = stream[r].toClient
                           /\ stream'[r].toServer = stream[r].toServer
    BY <2>1, <2>2 DEF Throw
  <2> QED
    BY <1>2, <2>3, <2>5, <2>6, <2>7, StillKeeps
<1>7. CASE s \notin Calls /\ ~AddProvider(s, m) /\ ~(Throw(s) /\ UNCHANGED providers)
  <2>1. UNCHANGED providers /\ \E a : Respond(s, a)
    BY <1>1, <1>7 DEF Ping, FindNode, GetProviders, GetValue, PutValue
  <2> QED
    BY <1>1, <1>2, <1>7, <2>1, RespondKeepsFinds
<1>8. CASE s \in Calls /\ ~AddProvider(s, m) /\ ~(Throw(s) /\ UNCHANGED providers)
  <2>1. UNCHANGED providers
    BY <1>1, <1>8 DEF Ping, FindNode, GetProviders, GetValue, PutValue
  <2>2. \E a : Respond(s, a) /\ IsAnswer(s, call[s].known, Encode(a))
    <3>1. CASE Ping(s, m) \/ PutValue(s, m)
      <4>1. m \in Message /\ m.type \notin {"ADD_PROVIDER", "GET_PROVIDERS"} /\ Respond(s, m)
        BY <1>4, <1>8, <3>1, RequestIsMessage DEF Ping, PutValue
      <4>2. Type[s] = m.type /\ m.closer = <<>> /\ m.providers = <<>>
        BY <1>4, <1>8, <4>1, RequestHas
      <4>3. {p.id : p \in ToSet(<<>>)} = {}
        BY DEF ToSet
      <4>4. Finds(s, call[s].known, {p.id : p \in ToSet(m.providers)})
        BY <4>1, <4>2 DEF Finds
      <4>5. /\ {p.id : p \in ToSet(m.closer)} \subseteq Peers
            /\ {p.id : p \in ToSet(m.providers)} \subseteq Peers
        BY <4>2, <4>3
      <4> HIDE DEF m
      <4>6. IsAnswer(s, call[s].known, Encode(m))
        BY <4>1, <4>4, <4>5, WrittenIsAnswer
      <4> QED
        BY <4>1, <4>6
    <3>2. CASE FindNode(s, m)
      BY <1>1, <1>2, <1>3, <1>4, <1>8, <3>2, FindNodeAnswers
    <3>3. CASE GetProviders(s, m)
      BY <1>1, <1>2, <1>3, <1>4, <1>8, <3>3, GetProvidersAnswers
    <3>4. CASE GetValue(s, m)
      BY <1>1, <1>2, <1>3, <1>4, <1>8, <3>4, GetValueAnswers
    <3> QED
      BY <1>1, <1>8, <3>1, <3>2, <3>3, <3>4
  <2>3. PICK a : Respond(s, a) /\ IsAnswer(s, call[s].known, Encode(a))
    BY <2>2
  <2> QED
    BY <1>1, <1>2, <2>1, <2>3, RespondKeepsFinds
<1> QED
  BY <1>1, <1>5, <1>6, <1>7, <1>8

LEMMA StepKeepsFinds == RpcInv /\ FindInv /\ [Next]_rpcVars => FindInv'
<1> SUFFICES ASSUME RpcInv, FindInv, [Next]_rpcVars
             PROVE  FindInv'
  OBVIOUS
<1>1. Shape
  BY DEF RpcInv
<1>2. ASSUME NEW c \in Calls, Call(c) \/ CallStep(c) \/ ForeignAnswer(c)
      PROVE  FindInv'
  BY <1>1, <1>2, CallKeepsFinds, ClientKeepsFinds, OpenedKeepsFinds, AnsweredKeepsFinds,
     ForeignKeepsFinds DEF CallStep
<1>3. ASSUME NEW s \in Streams, ServerStep(s) \/ Lost(s)
      PROVE  FindInv'
  BY <1>1, <1>3, QuietKeepsFinds, ReceiveKeepsFinds, HandleKeepsFinds, LossKeepsFinds DEF ServerStep
<1>4. ASSUME NEW s \in Raw, RawStream(s)
      PROVE  FindInv'
  BY <1>1, <1>4, RawKeepsFinds
<1>5. ASSUME NEW n \in Ours, Stop(n)
      PROVE  FindInv'
  BY <1>1, <1>5, LossKeepsFinds
<1>6. ASSUME UNCHANGED rpcVars
      PROVE  FindInv'
  <2>1. /\ Tables' /\ (\A n \in Ours : providers[n] \subseteq providers'[n])
        /\ \A c \in Calls : Goes(c)
    BY <1>6 DEF rpcVars, FindInv, Tables, Goes
  <2>2. UNCHANGED <<stream, server>>
    BY <1>6 DEF rpcVars
  <2> QED
    BY <1>1, <2>1, <2>2, StillKeeps
<1> QED
  BY <1>2, <1>3, <1>4, <1>5, <1>6 DEF Next

\* Who asks a node of ours for the providers of a content id is told of every peer whose
\* announcement had ended without an error before, if the node has an address of it for
\* this DHT: whatever other nodes send and answer meanwhile, and whatever is lost
\* (content-routing/index.ts:66,160, rpc/handlers/get-providers.ts:44-97).
THEOREM AnnouncedAreFound == Spec => []AnnouncedIsFound
<1>1. Init => FindInv
  BY FindInvInit
<1>2. FindInv => AnnouncedIsFound
  BY DEF FindInv, Exchange, Finds, AnnouncedIsFound
<1> QED
  BY <1>1, <1>2, StepKeepsFinds, RpcInvHolds, PTL DEF Spec
=============================================================================
