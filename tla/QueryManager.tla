---------------------------- MODULE QueryManager ---------------------------
(***************************************************************************)
(* The query managers of the LAN and the WAN DHT and the life of their     *)
(* runs: starting and stopping a manager, the abort controller and the     *)
(* timeout of each run, the options object a run is started with (it is    *)
(* written to, and one object may serve several runs), and how a run ends. *)
(* What a run does in between is module Query.                             *)
(***************************************************************************)
EXTENDS Naturals, FiniteSets

CONSTANTS
  Managers,     \* the query managers
  Runs,         \* calls of run()
  Options,      \* options objects
  ManagerOf,    \* the manager each run is started on
  OptionsOf,    \* the options object each run is started with
  UserSignals,  \* the options objects that come with a signal of the caller
  NoSignal,     \* options.signal is not set
  UserSignal    \* options.signal is the caller's

ASSUME ManagerAssumption ==
  /\ ManagerOf \in [Runs -> Managers]
  /\ OptionsOf \in [Runs -> Options]
  /\ UserSignals \subseteq Options
  /\ NoSignal \notin Runs /\ UserSignal \notin Runs /\ NoSignal # UserSignal

VARIABLES
  running,      \* per manager: started and not stopped since
  controllers,  \* per manager: the runs whose abort controller it holds
  queries,      \* per manager: the number of running queries it reports
  signal,       \* per options object: its signal, a run stands for its timer's
  cancelled,    \* options objects whose caller has aborted the signal
  stopped,      \* runs whose own abort controller has been aborted
  timer,        \* per run: its timeout controller
  listens,      \* per run: the options signal it listens to
  status        \* per run: where it is

vars == <<running, controllers, queries, signal, cancelled, stopped, timer,
          listens, status>>

Live == {r \in Runs : status[r] = "live"}
LiveOn(m) == {r \in Live : ManagerOf[r] = m}

\* Has the signal a run listens to been aborted?
SignalAborted(r) ==
  \/ listens[r] = UserSignal /\ OptionsOf[r] \in cancelled
  \/ listens[r] \in Runs /\ timer[listens[r]] = "fired"

Aborted(r) == r \in stopped \/ SignalAborted(r)

Init ==
  /\ running = [m \in Managers |-> FALSE]
  /\ controllers = [m \in Managers |-> {}]
  /\ queries = [m \in Managers |-> 0]
  /\ signal = [o \in Options |-> IF o \in UserSignals THEN UserSignal ELSE NoSignal]
  /\ cancelled = {}
  /\ stopped = {}
  /\ timer = [r \in Runs |-> "none"]
  /\ listens = [r \in Runs |-> NoSignal]
  /\ status = [r \in Runs |-> "idle"]

Start(m) ==
  /\ running' = [running EXCEPT ![m] = TRUE]
  /\ UNCHANGED <<controllers, queries, signal, cancelled, stopped, timer, listens,
                 status>>

\* Abort the controllers of all runs and forget them.
Mut_Stop(m) ==
  /\ running' = [running EXCEPT ![m] = FALSE]
  /\ controllers' = [controllers EXCEPT ![m] = {}]
  /\ UNCHANGED <<queries, signal, cancelled, stopped, timer, listens, status>>
Stop(m) ==
  /\ running' = [running EXCEPT ![m] = FALSE]
  /\ stopped' = stopped \cup controllers[m]
  /\ controllers' = [controllers EXCEPT ![m] = {}]
  /\ UNCHANGED <<queries, signal, cancelled, timer, listens, status>>

\* The signal a run uses: the one in its options, or its own timer's, which it
\* writes into the options.
ChosenSignal(r) ==
  IF signal[OptionsOf[r]] = NoSignal THEN r ELSE signal[OptionsOf[r]]

Begin(r) ==
  LET m == ManagerOf[r]
      chosen == ChosenSignal(r)
  IN
  /\ status[r] = "idle" /\ running[m]
  /\ signal' = [signal EXCEPT ![OptionsOf[r]] = chosen]
  /\ timer' = IF chosen = r THEN [timer EXCEPT ![r] = "armed"] ELSE timer
  /\ listens' = [listens EXCEPT ![r] = chosen]
  /\ controllers' = [controllers EXCEPT ![m] = @ \cup {r}]
  /\ queries' = [queries EXCEPT ![m] = @ + 1]
  /\ status' = [status EXCEPT ![r] = "live"]
  /\ UNCHANGED <<running, cancelled, stopped>>

\* The finally block of run().
Mut_Finally(r, end) ==
  LET m == ManagerOf[r] IN
  /\ controllers' = [controllers EXCEPT ![m] = @ \ {r}]
  /\ timer' = timer
  /\ queries' = [queries EXCEPT ![m] = @ - 1]
  /\ status' = [status EXCEPT ![r] = end]
  /\ UNCHANGED <<running, signal, cancelled, stopped, listens>>
Mut_FinallySharedTimer(r, end) ==
  LET m == ManagerOf[r] IN
  /\ controllers' = [controllers EXCEPT ![m] = @ \ {r}]
  /\ timer' = [t \in Runs |->
                 IF t = signal[OptionsOf[r]] /\ timer[t] = "armed" THEN "cleared"
                                                                  ELSE timer[t]]
  /\ queries' = [queries EXCEPT ![m] = @ - 1]
  /\ status' = [status EXCEPT ![r] = end]
  /\ UNCHANGED <<running, signal, cancelled, stopped, listens>>
Mut_FinallyNotThrown(r, end) ==
  LET m == ManagerOf[r] IN
  /\ controllers' = [controllers EXCEPT ![m] = @ \ {r}]
  /\ timer' = [timer EXCEPT ![r] = IF @ = "armed" THEN "cleared" ELSE @]
  /\ queries' = [queries EXCEPT ![m] = IF end = "threw" THEN @ ELSE @ - 1]
  /\ status' = [status EXCEPT ![r] = end]
  /\ UNCHANGED <<running, signal, cancelled, stopped, listens>>
Finally(r, end) ==
  LET m == ManagerOf[r] IN
  /\ controllers' = [controllers EXCEPT ![m] = @ \ {r}]
  /\ timer' = [timer EXCEPT ![r] = IF @ = "armed" THEN "cleared" ELSE @]
  /\ queries' = [queries EXCEPT ![m] = @ - 1]
  /\ status' = [status EXCEPT ![r] = end]
  /\ UNCHANGED <<running, signal, cancelled, stopped, listens>>

\* run() on a manager that is not started throws before it touches anything.
Refuse(r) ==
  /\ status[r] = "idle" /\ ~running[ManagerOf[r]]
  /\ status' = [status EXCEPT ![r] = "refused"]
  /\ UNCHANGED <<running, controllers, queries, signal, cancelled, stopped, timer,
                 listens>>

\* The walk is exhausted, there was no peer to ask, or the caller leaves the loop.
Return(r) == status[r] = "live" /\ Finally(r, "returned")

\* A path throws ERR_QUERY_ABORTED: the error is swallowed if the manager is
\* stopped when it gets here.
AbortError(r) ==
  /\ status[r] = "live" /\ Aborted(r)
  /\ Finally(r, IF running[ManagerOf[r]] THEN "threw" ELSE "returned")

\* A path whose generator had not started when the signal was aborted throws the
\* error of its query function instead, which has another code.
OtherError(r) ==
  /\ status[r] = "live" /\ Aborted(r)
  /\ Finally(r, "threw")

\* The 30s timer of a run.
TimerFires(r) ==
  /\ timer[r] = "armed"
  /\ timer' = [timer EXCEPT ![r] = "fired"]
  /\ UNCHANGED <<running, controllers, queries, signal, cancelled, stopped, listens,
                 status>>

\* The caller aborts its signal.
Cancel(o) ==
  /\ o \in UserSignals \ cancelled
  /\ cancelled' = cancelled \cup {o}
  /\ UNCHANGED <<running, controllers, queries, signal, stopped, timer, listens,
                 status>>

Ends(r) == Return(r) \/ AbortError(r) \/ OtherError(r)

Next ==
  \/ \E m \in Managers : Start(m) \/ Stop(m)
  \/ \E r \in Runs : Refuse(r) \/ Begin(r) \/ Ends(r) \/ TimerFires(r)
  \/ \E o \in Options : Cancel(o)

\* Timers fire, and a run whose signal is aborted ends (module Query: RunEnds and
\* AbortStopsWalk); nothing is assumed of one that is not.
Fairness ==
  \A r \in Runs : WF_vars(TimerFires(r)) /\ WF_vars(Aborted(r) /\ Ends(r))

Spec == Init /\ [][Next]_vars
FairSpec == Spec /\ Fairness

-----------------------------------------------------------------------------
TypeOK ==
  /\ running \in [Managers -> BOOLEAN]
  /\ controllers \in [Managers -> SUBSET Runs]
  /\ queries \in [Managers -> Nat]
  /\ signal \in [Options -> Runs \cup {NoSignal, UserSignal}]
  /\ cancelled \subseteq UserSignals
  /\ stopped \subseteq Runs
  /\ timer \in [Runs -> {"none", "armed", "fired", "cleared"}]
  /\ listens \in [Runs -> Runs \cup {NoSignal, UserSignal}]
  /\ status \in [Runs -> {"idle", "live", "refused", "returned", "threw"}]

\* However runs end, the reported number of running queries is the number of
\* runs that are going on (manager.ts:133, 188).
QueriesCounted == \A m \in Managers : queries[m] = Cardinality(LiveOn(m))

\* Stopping a manager reaches all of its runs: each live run is either still in
\* the set of controllers or has been aborted, and the set holds no other runs
\* (manager.ts:74-82, 107, 182).
StopReachesAllRuns ==
  \A m \in Managers :
    /\ controllers[m] \subseteq LiveOn(m)
    /\ LiveOn(m) \subseteq controllers[m] \cup stopped

\* No timer outlives its run, so a finished query does not keep the process
\* alive (manager.ts:184-186).
TimersEndWithRuns == \A r \in Runs : timer[r] = "armed" => status[r] = "live"

\* After a stop the runs of a manager come to an end, or it is started again.
StopDrains ==
  \A m \in Managers : ~running[m] ~> (LiveOn(m) = {} \/ running[m])

\* A run that uses its own timer ends, whatever the peers do.
TimedRunsEnd ==
  \A r \in Runs : status[r] = "live" /\ listens[r] = r ~> status[r] # "live"

-----------------------------------------------------------------------------
\* manager.ts:92 "don't let queries run forever": a run without a signal of the
\* caller has a timer that will fire or has fired.
NoRunForever ==
  \A r \in Live : listens[r] \in Runs => timer[listens[r]] \in {"armed", "fired"}

\* manager.ts:177 "ignore query aborted errors that were thrown during query
\* manager shutdown": a run that only the shutdown aborted does not throw.
ShutdownIsSilent ==
  \A r \in Runs : r \in stopped /\ ~SignalAborted(r) => status[r] # "threw"
=============================================================================
