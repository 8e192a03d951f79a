------------------------- MODULE QueryManagerProofs ------------------------
(***************************************************************************)
(* What holds of the query managers whatever the runs, the options objects *)
(* they share and the order of stops, timeouts and cancellations: the      *)
(* count of running queries, the controllers a stop reaches and the life   *)
(* of the timers. Nothing is assumed of the number of runs.                *)
(***************************************************************************)
EXTENDS QueryManager, FiniteSetTheorems, TLAPS

-----------------------------------------------------------------------------
(* The inductive invariant. The number of queries is a natural number only *)
(* because it is the number of live runs, which is finite because runs     *)
(* begin one at a time; so the type invariant is inductive together with   *)
(* the count, and the count with the finiteness.                           *)

Types ==
  /\ running \in [Managers -> BOOLEAN]
  /\ controllers \in [Managers -> SUBSET Runs]
  /\ signal \in [Options -> Runs \cup {NoSignal, UserSignal}]
  /\ cancelled \subseteq UserSignals
  /\ stopped \subseteq Runs
  /\ timer \in [Runs -> {"none", "armed", "fired", "cleared"}]
  /\ listens \in [Runs -> Runs \cup {NoSignal, UserSignal}]
  /\ status \in [Runs -> {"idle", "live", "refused", "returned", "threw"}]

CountsLive ==
  /\ queries \in [Managers -> Nat]
  /\ \A m \in Managers :
       IsFiniteSet(LiveOn(m)) /\ queries[m] = Cardinality(LiveOn(m))

\* A stopped manager holds no controllers.
StoppedHoldsNone == \A m \in Managers : ~running[m] => controllers[m] = {}

\* A live run that listens to its own timer has a timer that will fire or has.
OwnTimerGuards ==
  \A r \in Runs :
    status[r] = "live" /\ listens[r] = r => timer[r] \in {"armed", "fired"}

ManagerInv ==
  /\ Types
  /\ CountsLive
  /\ StopReachesAllRuns
  /\ StoppedHoldsNone
  /\ TimersEndWithRuns
  /\ OwnTimerGuards

-----------------------------------------------------------------------------
(* What the steps do to the live runs. *)

LEMMA BeginAddsOne ==
  ASSUME Types, NEW r \in Runs, Begin(r)
  PROVE  \A m \in Managers :
           LiveOn(m)' = IF m = ManagerOf[r] THEN LiveOn(m) \cup {r} ELSE LiveOn(m)
BY DEF Types, Begin, LiveOn, Live

LEMMA FinallyRemovesOne ==
  ASSUME Types, NEW r \in Runs, NEW end \in {"returned", "threw"},
         status[r] = "live", Finally(r, end)
  PROVE  \A m \in Managers :
           LiveOn(m)' = IF m = ManagerOf[r] THEN LiveOn(m) \ {r} ELSE LiveOn(m)
BY DEF Types, Finally, LiveOn, Live

LEMMA EndsByFinally ==
  ASSUME NEW r \in Runs, Ends(r)
  PROVE  status[r] = "live" /\ \E end \in {"returned", "threw"} : Finally(r, end)
BY DEF Ends, Return, AbortError, OtherError

LEMMA OthersKeepLive ==
  ASSUME Types, UNCHANGED status
  PROVE  \A m \in Managers : LiveOn(m)' = LiveOn(m)
BY DEF LiveOn, Live

LEMMA RefuseKeepsLive ==
  ASSUME Types, NEW r \in Runs, Refuse(r)
  PROVE  \A m \in Managers : LiveOn(m)' = LiveOn(m)
BY DEF Types, Refuse, LiveOn, Live
-----------------------------------------------------------------------------
LEMMA InitManager == Init => ManagerInv
<1> SUFFICES ASSUME Init PROVE ManagerInv OBVIOUS
<1>1. \A m \in Managers : LiveOn(m) = {} BY DEF Init, LiveOn, Live
<1>2. Types BY ManagerAssumption DEF Init, Types
<1>3. CountsLive BY <1>1, FS_EmptySet DEF Init, CountsLive
<1>4. StopReachesAllRuns BY <1>1 DEF Init, StopReachesAllRuns
<1>5. StoppedHoldsNone /\ TimersEndWithRuns /\ OwnTimerGuards
  BY DEF Init, StoppedHoldsNone, TimersEndWithRuns, OwnTimerGuards
<1> QED BY <1>2, <1>3, <1>4, <1>5 DEF ManagerInv

LEMMA BeginKeeps ==
  ASSUME ManagerInv, NEW r \in Runs, Begin(r)
  PROVE  ManagerInv'
<1> DEFINE m == ManagerOf[r]
<1>1. m \in Managers /\ OptionsOf[r] \in Options BY ManagerAssumption
<1>2. Types BY DEF ManagerInv
<1>3. \A n \in Managers : LiveOn(n)' = IF n = m THEN LiveOn(n) \cup {r} ELSE LiveOn(n)
  BY <1>2, BeginAddsOne
<1>4. r \notin LiveOn(m) BY DEF Begin, LiveOn, Live
<1>5. ChosenSignal(r) \in Runs \cup {NoSignal, UserSignal}
  BY <1>1, <1>2 DEF ChosenSignal, Types
<1>6. Types'
  BY <1>1, <1>2, <1>5 DEF Begin, Types
<1>7. CountsLive'
  <2>1. queries' \in [Managers -> Nat] BY <1>1 DEF Begin, ManagerInv, CountsLive
  <2>2. ASSUME NEW n \in Managers
        PROVE  IsFiniteSet(LiveOn(n)') /\ queries'[n] = Cardinality(LiveOn(n)')
    <3>1. IsFiniteSet(LiveOn(n)) /\ queries[n] = Cardinality(LiveOn(n))
      BY DEF ManagerInv, CountsLive
    <3>2. CASE n = m
      <4>1. queries'[n] = queries[n] + 1 BY <3>2 DEF Begin, ManagerInv, CountsLive
      <4>2. LiveOn(n)' = LiveOn(n) \cup {r} /\ r \notin LiveOn(n) BY <1>3, <1>4, <3>2
      <4> QED BY <3>1, <4>1, <4>2, FS_AddElement
    <3>3. CASE n # m
      <4>1. queries'[n] = queries[n] BY <3>3 DEF Begin, ManagerInv, CountsLive
      <4> QED BY <1>3, <3>1, <3>3, <4>1
    <3> QED BY <3>2, <3>3
  <2> QED BY <2>1, <2>2 DEF CountsLive
<1>8. StopReachesAllRuns'
  BY <1>1, <1>2, <1>3 DEF Begin, ManagerInv, StopReachesAllRuns, Types
<1>9. StoppedHoldsNone'
  BY <1>1, <1>2 DEF Begin, ManagerInv, StoppedHoldsNone, Types
<1>10. TimersEndWithRuns'
  BY <1>2 DEF Begin, ManagerInv, TimersEndWithRuns, Types
<1>11. OwnTimerGuards'
  BY <1>2 DEF Begin, ManagerInv, OwnTimerGuards, Types
<1> QED BY <1>6, <1>7, <1>8, <1>9, <1>10, <1>11 DEF ManagerInv

LEMMA EndsKeeps ==
  ASSUME ManagerInv, NEW r \in Runs, Ends(r)
  PROVE  ManagerInv'
<1> DEFINE m == ManagerOf[r]
<1>1. m \in Managers BY ManagerAssumption
<1>2. Types BY DEF ManagerInv
<1>3. status[r] = "live" BY EndsByFinally
<1>4. PICK end \in {"returned", "threw"} : Finally(r, end) BY EndsByFinally
<1>5. \A n \in Managers : LiveOn(n)' = IF n = m THEN LiveOn(n) \ {r} ELSE LiveOn(n)
  BY <1>2, <1>3, <1>4, FinallyRemovesOne
<1>6. r \in LiveOn(m) BY <1>3 DEF LiveOn, Live
<1>7. Types' BY <1>1, <1>2, <1>4 DEF Finally, Types
<1>8. CountsLive'
  <2>1. queries' \in [Managers -> Nat]
    <3>1. queries[m] = Cardinality(LiveOn(m)) /\ IsFiniteSet(LiveOn(m)) /\ queries[m] \in Nat
      BY <1>1 DEF ManagerInv, CountsLive
    <3>2. Cardinality(LiveOn(m)) # 0 BY <1>6, <3>1, FS_EmptySet
    <3>3. queries[m] - 1 \in Nat BY <3>1, <3>2
    <3> QED BY <1>1, <1>4, <3>3 DEF Finally, ManagerInv, CountsLive
  <2>2. ASSUME NEW n \in Managers
        PROVE  IsFiniteSet(LiveOn(n)') /\ queries'[n] = Cardinality(LiveOn(n)')
    <3>1. IsFiniteSet(LiveOn(n)) /\ queries[n] = Cardinality(LiveOn(n))
      BY DEF ManagerInv, CountsLive
    <3>2. CASE n = m
      <4>1. queries'[n] = queries[n] - 1
        BY <1>4, <3>2 DEF Finally, ManagerInv, CountsLive
      <4>2. LiveOn(n)' = LiveOn(n) \ {r} /\ r \in LiveOn(n) BY <1>5, <1>6, <3>2
      <4> QED BY <3>1, <4>1, <4>2, FS_RemoveElement
    <3>3. CASE n # m
      <4>1. queries'[n] = queries[n]
        BY <1>4, <3>3 DEF Finally, ManagerInv, CountsLive
      <4> QED BY <1>5, <3>1, <3>3, <4>1
    <3> QED BY <3>2, <3>3
  <2> QED BY <2>1, <2>2 DEF CountsLive
<1>9. StopReachesAllRuns'
  BY <1>1, <1>2, <1>4, <1>5 DEF Finally, ManagerInv, StopReachesAllRuns, Types
<1>10. StoppedHoldsNone'
  BY <1>1, <1>2, <1>4 DEF Finally, ManagerInv, StoppedHoldsNone, Types
<1>11. TimersEndWithRuns'
  BY <1>2, <1>4 DEF Finally, ManagerInv, TimersEndWithRuns, Types
<1>12. OwnTimerGuards'
  BY <1>2, <1>4 DEF Finally, ManagerInv, OwnTimerGuards, Types
<1> QED BY <1>7, <1>8, <1>9, <1>10, <1>11, <1>12 DEF ManagerInv

LEMMA CountStays ==
  ASSUME CountsLive, UNCHANGED queries, \A m \in Managers : LiveOn(m)' = LiveOn(m)
  PROVE  CountsLive'
BY DEF CountsLive

LEMMA SwitchKeeps ==
  ASSUME ManagerInv, NEW m \in Managers, Start(m) \/ Stop(m)
  PROVE  ManagerInv'
<1>1. Types /\ UNCHANGED status BY DEF ManagerInv, Start, Stop
<1>2. \A n \in Managers : LiveOn(n)' = LiveOn(n) BY <1>1, OthersKeepLive
<1>3. Types' BY DEF ManagerInv, Types, Start, Stop
<1>4. CountsLive' BY <1>2, CountStays DEF ManagerInv, Start, Stop
<1>5. StopReachesAllRuns'
  BY <1>2 DEF ManagerInv, Types, StopReachesAllRuns, Start, Stop
<1>6. StoppedHoldsNone' BY DEF ManagerInv, Types, StoppedHoldsNone, Start, Stop
<1>7. TimersEndWithRuns' /\ OwnTimerGuards'
  BY DEF ManagerInv, TimersEndWithRuns, OwnTimerGuards, Start, Stop
<1> QED BY <1>3, <1>4, <1>5, <1>6, <1>7 DEF ManagerInv

LEMMA RefuseKeeps ==
  ASSUME ManagerInv, NEW r \in Runs, Refuse(r)
  PROVE  ManagerInv'
<1>1. Types BY DEF ManagerInv
<1>2. \A n \in Managers : LiveOn(n)' = LiveOn(n) BY <1>1, RefuseKeepsLive
<1>3. Types' BY DEF ManagerInv, Types, Refuse
<1>4. CountsLive' BY <1>2, CountStays DEF ManagerInv, Refuse
<1>5. StopReachesAllRuns' BY <1>2 DEF ManagerInv, StopReachesAllRuns, Refuse
<1>6. StoppedHoldsNone' BY DEF ManagerInv, StoppedHoldsNone, Refuse
<1>7. TimersEndWithRuns' /\ OwnTimerGuards'
  BY DEF ManagerInv, Types, TimersEndWithRuns, OwnTimerGuards, Refuse
<1> QED BY <1>3, <1>4, <1>5, <1>6, <1>7 DEF ManagerInv

LEMMA SignalKeeps ==
  ASSUME ManagerInv,
         \/ \E r \in Runs : TimerFires(r)
         \/ \E o \in Options : Cancel(o)
         \/ UNCHANGED vars
  PROVE  ManagerInv'
<1> USE DEF TimerFires, Cancel, vars
<1>1. Types /\ UNCHANGED status BY DEF ManagerInv
<1>2. \A n \in Managers : LiveOn(n)' = LiveOn(n) BY <1>1, OthersKeepLive
<1>3. Types' BY DEF ManagerInv, Types
<1>4. CountsLive' BY <1>2, CountStays DEF ManagerInv
<1>5. StopReachesAllRuns' BY <1>2 DEF ManagerInv, StopReachesAllRuns
<1>6. StoppedHoldsNone' BY DEF ManagerInv, StoppedHoldsNone
<1>7. TimersEndWithRuns' /\ OwnTimerGuards'
  BY DEF ManagerInv, Types, TimersEndWithRuns, OwnTimerGuards
<1> QED BY <1>3, <1>4, <1>5, <1>6, <1>7 DEF ManagerInv

LEMMA NextKeeps == ManagerInv /\ [Next]_vars => ManagerInv'
<1> SUFFICES ASSUME ManagerInv, [Next]_vars PROVE ManagerInv' OBVIOUS
<1>1. ASSUME NEW m \in Managers, Start(m) \/ Stop(m) PROVE ManagerInv'
  BY <1>1, SwitchKeeps
<1>2. ASSUME NEW r \in Runs, Refuse(r) PROVE ManagerInv' BY <1>2, RefuseKeeps
<1>3. ASSUME NEW r \in Runs, Begin(r) PROVE ManagerInv' BY <1>3, BeginKeeps
<1>4. ASSUME NEW r \in Runs, Ends(r) PROVE ManagerInv' BY <1>4, EndsKeeps
<1>5. ASSUME NEW r \in Runs, TimerFires(r) PROVE ManagerInv' BY <1>5, SignalKeeps
<1>6. ASSUME NEW o \in Options, Cancel(o) PROVE ManagerInv' BY <1>6, SignalKeeps
<1>7. CASE UNCHANGED vars BY <1>7, SignalKeeps
<1> QED BY <1>1, <1>2, <1>3, <1>4, <1>5, <1>6, <1>7 DEF Next

LEMMA ManagerInvariant == Spec => []ManagerInv
BY InitManager, NextKeeps, PTL DEF Spec

LEMMA Consequences ==
  ASSUME ManagerInv
  PROVE  /\ TypeOK /\ QueriesCounted
         /\ \A m \in Managers : ~running[m] => LiveOn(m) \subseteq stopped
BY DEF ManagerInv, Types, CountsLive, TypeOK, QueriesCounted, StoppedHoldsNone,
       StopReachesAllRuns

-----------------------------------------------------------------------------
(* The theorems. *)

\* All variables keep their types: above all, the number of queries a manager
\* reports never falls below zero (manager.ts:188).
THEOREM ManagerTypes == Spec => []TypeOK
BY ManagerInvariant, Consequences, PTL

\* However the runs of a manager end - returned, thrown, aborted, or stopped in
\* between - the number of queries it reports is the number of its runs that are
\* going on (manager.ts:133, 188).
THEOREM EveryQueryCounted == Spec => []QueriesCounted
BY ManagerInvariant, Consequences, PTL

\* At any time a stop would reach every live run that has not been aborted by an
\* earlier one, and it aborts no run that is over (manager.ts:74-82, 107, 182).
THEOREM StopReaches == Spec => []StopReachesAllRuns
BY ManagerInvariant, PTL DEF ManagerInv

\* While a manager is stopped each of its live runs has been aborted: no run slips
\* in between the stop and the next start (manager.ts:74-82, 99-107).
THEOREM StoppedRunsAreAborted ==
  Spec => [](\A m \in Managers : ~running[m] => LiveOn(m) \subseteq stopped)
BY ManagerInvariant, Consequences, PTL

\* An armed timer belongs to a live run (manager.ts:184-186).
THEOREM NoTimerOutlivesItsRun == Spec => []TimersEndWithRuns
BY ManagerInvariant, PTL DEF ManagerInv

\* A live run that made its own timer is guarded by it until it ends: only its
\* own end clears the timer (manager.ts:92-96, 184-186). A run that found the
\* timer of another run in its options has no such guard.
THEOREM OwnTimerStays == Spec => []OwnTimerGuards
BY ManagerInvariant, PTL DEF ManagerInv
=============================================================================
