------------------------------ MODULE Lifecycle -----------------------------
(***************************************************************************)
(* The life of one KadDHT: start, stop and setMode with their awaits, the  *)
(* protocol handler and the topology at the registrar, and the two loops   *)
(* that re-arm a timer: the self query and the refresh of the routing      *)
(* table.                                                                  *)
(*                                                                         *)
(* The flags `running' (`started') of the providers, the query manager,    *)
(* the network, the routing table, the topology listener and the self      *)
(* query are set in one go by start() and cleared in one go by stop(), so  *)
(* `parts' stands for all of them.  The queries of the loops end at some   *)
(* time, which is all that is kept of them, of their timeouts and of the   *)
(* abort of the last self query by stop().                                 *)
(***************************************************************************)
CONSTANTS
  Starts,       \* bound: the calls of start()
  SetModes,     \* bound: the calls of setMode()
  Refreshes,    \* bound: the loops that refreshRoutingTable() may begin
  None          \* no id

ASSUME CallsAssumption ==
  /\ None \notin Starts \cup Refreshes
  /\ Starts \cap SetModes = {}
  /\ Starts \cap Refreshes = {}

Calls == Starts \cup SetModes
Modes == {"client", "server"}

VARIABLES
  running,      \* KadDHT.running
  mode,         \* KadDHT.clientMode
  call,         \* what each call awaits; a mode if it awaits unhandle to set it
  parts,        \* are the parts of the DHT running?
  handles,      \* registrar: is our protocol handled?
  registered,   \* registrar: the topologies, each named by the call that made it
  registrarId,  \* TopologyListener.registrarId
  self,         \* the loops of QuerySelf, each named by the call that began it
  selfTimer,    \* QuerySelf.timeoutId: the loop that armed it
  refresh,      \* the loops of RoutingTableRefresh
  refreshTimer  \* RoutingTableRefresh.refreshTimeoutId

modeVars == <<mode, handles>>
topologyVars == <<registered, registrarId>>
selfVars == <<self, selfTimer>>
refreshVars == <<refresh, refreshTimer>>
vars == <<running, call, parts, modeVars, topologyVars, selfVars, refreshVars>>

Phases == {"idle", "set", "register", "started", "done"} \cup Modes
\* A "round" of a loop looks up nothing.
LoopStates == {"none", "query", "round", "timer"}

Settled == \A c \in Calls : call[c] \in {"idle", "done"}

Goto(c, phase) == call' = [call EXCEPT ![c] = phase]

\* clearTimeout: the loop whose timer it is ends, unless its query is running.
Cleared(loops, t) == [l \in DOMAIN loops |->
                        IF l = t /\ loops[l] = "timer" THEN "none" ELSE loops[l]]

-----------------------------------------------------------------------------
Init ==
  /\ running = FALSE /\ parts = FALSE /\ handles = FALSE
  /\ mode \in Modes
  /\ call = [c \in Calls |-> "idle"]
  /\ registered = {} /\ registrarId = None
  /\ self = [l \in Starts |-> "none"] /\ selfTimer = None
  /\ refresh = [l \in Starts \cup Refreshes |-> "none"] /\ refreshTimer = None

\* setMode(want), called by call c, up to the await of unhandle.
CallSetMode(c, want) ==
  /\ call[c] = "idle"
  /\ Goto(c, want)
  /\ handles' = FALSE
  /\ UNCHANGED <<mode, parts, topologyVars, selfVars, refreshVars>>

SetMode(c) ==
  /\ \E want \in Modes : CallSetMode(c, want)
  /\ UNCHANGED running

Start(s) ==
  /\ CallSetMode(s, mode)
  /\ running' = TRUE

\* The rest of setMode, after the handler is gone.
Mut_Unhandled(c) ==
  /\ call[c] \in Modes
  /\ mode' = call[c]
  /\ handles' = (call[c] = "server" /\ mode = "client")
  /\ Goto(c, "set")
  /\ UNCHANGED <<running, parts, topologyVars, selfVars, refreshVars>>
Unhandled(c) ==
  /\ call[c] \in Modes
  /\ mode' = call[c]
  /\ handles' = (handles \/ call[c] = "server")
  /\ Goto(c, "set")
  /\ UNCHANGED <<running, parts, topologyVars, selfVars, refreshVars>>

ModeIsSet(c) ==
  /\ call[c] = "set"
  /\ Goto(c, "done")
  /\ UNCHANGED <<running, parts, modeVars, topologyVars, selfVars, refreshVars>>

\* start() goes on: each part starts unless it is running already.  The topology
\* listener awaits the registrar, the self query begins its loop.
StartParts(s) ==
  /\ call[s] = "set" /\ ~parts
  /\ parts' = TRUE
  /\ registered' = registered \cup {s}
  /\ self' = [self EXCEPT ![s] = "query"]
  /\ Goto(s, "register")
  /\ UNCHANGED <<running, modeVars, registrarId, selfTimer, refreshVars>>

PartsAreRunning(s) ==
  /\ call[s] = "set" /\ parts
  /\ Goto(s, "started")
  /\ UNCHANGED <<running, parts, modeVars, topologyVars, selfVars, refreshVars>>

Registered(s) ==
  /\ call[s] = "register"
  /\ registrarId' = s
  /\ Goto(s, "started")
  /\ UNCHANGED <<running, parts, modeVars, registered, selfVars, refreshVars>>

\* The parts have started; the refresh has no flag and always begins a loop.
Mut_StartRefresh(s) ==
  /\ call[s] = "started"
  /\ refresh' = IF refreshTimer = None THEN [refresh EXCEPT ![s] = "query"] ELSE refresh
  /\ Goto(s, "done")
  /\ UNCHANGED <<running, parts, modeVars, topologyVars, selfVars, refreshTimer>>
StartRefresh(s) ==
  /\ call[s] = "started"
  /\ refresh' = [refresh EXCEPT ![s] = "query"]
  /\ Goto(s, "done")
  /\ UNCHANGED <<running, parts, modeVars, topologyVars, selfVars, refreshTimer>>

\* stop() does not await anything before all parts are stopped, and it leaves the
\* protocol handler alone.
Mut_StopKeepsRunning ==
  /\ running' = FALSE /\ parts' = parts
  /\ self' = Cleared(self, selfTimer)
  /\ refresh' = Cleared(refresh, refreshTimer)
  /\ registered' = registered \ {registrarId} /\ registrarId' = None
  /\ UNCHANGED <<call, modeVars, selfTimer, refreshTimer>>
Stop ==
  /\ running' = FALSE /\ parts' = FALSE
  /\ self' = Cleared(self, selfTimer)
  /\ refresh' = Cleared(refresh, refreshTimer)
  /\ registered' = registered \ {registrarId} /\ registrarId' = None
  /\ UNCHANGED <<call, modeVars, selfTimer, refreshTimer>>

-----------------------------------------------------------------------------
(* The loops.  Their timers are armed when the work is done, whatever came *)
(* in between.                                                             *)

Mut_SelfQueryEnds(l) ==
  /\ self[l] = "query"
  /\ self' = [self EXCEPT ![l] = IF selfTimer = None THEN "timer" ELSE "none"]
  /\ selfTimer' = l
  /\ UNCHANGED <<running, call, parts, modeVars, topologyVars, refreshVars>>
SelfQueryEnds(l) ==
  /\ self[l] = "query"
  /\ self' = [self EXCEPT ![l] = "timer"]
  /\ selfTimer' = l
  /\ UNCHANGED <<running, call, parts, modeVars, topologyVars, refreshVars>>

SelfTimerFires(l) ==
  /\ self[l] = "timer"
  /\ self' = [self EXCEPT ![l] = "query"]
  /\ UNCHANGED <<running, call, parts, modeVars, topologyVars, selfTimer, refreshVars>>

RefreshEnds(l) ==
  /\ refresh[l] \in {"query", "round"}
  /\ refresh' = [refresh EXCEPT ![l] = "timer"]
  /\ refreshTimer' = l
  /\ UNCHANGED <<running, call, parts, modeVars, topologyVars, selfVars>>

\* The round of a timer is not a forced one: it finds every length refreshed just
\* now, makes no lookup, and arms the timer again (see module Refresh).
RefreshTimerFires(l) ==
  /\ refresh[l] = "timer"
  /\ refresh' = [refresh EXCEPT ![l] = "round"]
  /\ UNCHANGED <<running, call, parts, modeVars, topologyVars, selfVars, refreshTimer>>

\* refreshRoutingTable(), which begins another loop with a forced round.
RefreshRoutingTable(l) ==
  /\ refresh[l] = "none"
  /\ refresh' = [refresh EXCEPT ![l] = "query"]
  /\ UNCHANGED <<running, call, parts, modeVars, topologyVars, selfVars, refreshTimer>>

StartStep(s) ==
  StartParts(s) \/ PartsAreRunning(s) \/ Registered(s) \/ StartRefresh(s)

SelfStep(l) == SelfQueryEnds(l) \/ SelfTimerFires(l)
RefreshStep(l) == RefreshEnds(l) \/ RefreshTimerFires(l)

Next ==
  \/ \E s \in Starts : Start(s) \/ StartStep(s) \/ SelfStep(s)
  \/ \E m \in SetModes : SetMode(m) \/ ModeIsSet(m)
  \/ \E c \in Calls : Unhandled(c)
  \/ \E l \in Starts \cup Refreshes : RefreshStep(l)
  \/ \E l \in Refreshes : RefreshRoutingTable(l)
  \/ Stop

\* The registrar answers, queries end because they have timeouts, timers fire.
\* Nothing is assumed of the callers of start, stop, setMode and refresh.
Fairness ==
  /\ \A c \in Calls : WF_vars(Unhandled(c))
  /\ \A m \in SetModes : WF_vars(ModeIsSet(m))
  /\ \A s \in Starts : WF_vars(StartStep(s)) /\ WF_vars(SelfStep(s))
  /\ \A l \in Starts \cup Refreshes : WF_vars(RefreshStep(l))

Spec == Init /\ [][Next]_vars
FairSpec == Spec /\ Fairness

-----------------------------------------------------------------------------
(* Safety.                                                                 *)

\* In particular the id the listener keeps is one the registrar knows.
TypeOK ==
  /\ running \in BOOLEAN /\ parts \in BOOLEAN /\ handles \in BOOLEAN
  /\ mode \in Modes
  /\ call \in [Calls -> Phases]
  /\ registered \subseteq Starts
  /\ registrarId \in registered \cup {None}
  /\ self \in [Starts -> LoopStates] /\ selfTimer \in Starts \cup {None}
  /\ refresh \in [Starts \cup Refreshes -> LoopStates]
  /\ refreshTimer \in Starts \cup Refreshes \cup {None}

\* However calls of start and setMode overlap: once they are done, a node that has
\* been started or set to server mode answers queries (kad-dht.ts:252-265).
ServerAnswers ==
  Settled /\ mode = "server" /\ (\E c \in Calls : call[c] = "done") => handles

\* However starts and stops overlap: once the calls are done, a DHT whose parts run
\* is told of new peers by a topology whose id it keeps (topology-listener.ts:46-76).
\* It may be told by others as well: a topology whose registration overlapped a stop
\* stays registered, its id is lost to the next one, and no stop ends it.
PeersAreObserved == Settled /\ parts => registrarId \in registered

-----------------------------------------------------------------------------
(* Liveness.                                                               *)

\* A DHT that stays running keeps looking for itself, whatever stops came between
\* the queries of earlier starts (query-self.ts:72-103).
SelfQueriesGoOn == <>[]parts => []<>(\E l \in Starts : self[l] = "query")

\* The timer of the refresh of a DHT that stays running keeps firing, whatever stops
\* came between the lookups of earlier rounds (refresh.ts:93-124).  That is not to say
\* that the table is refreshed: the rounds of the timer look up nothing.
RefreshTimerGoesOn ==
  <>[]parts => []<>(\E l \in DOMAIN refresh : refresh[l] = "round")

-----------------------------------------------------------------------------
(* What the comments of the code say, and the code does not do.            *)

\* kad-dht.ts:290 "Stop accepting incoming connections and sending outgoing
\* messages": nothing removes the protocol handler of a server.
StoppedDoesNotAnswer == [][Settled /\ running /\ ~running' => ~handles']_vars

\* The same comment: a start that awaits setMode at the stop goes on and starts all
\* the parts of a stopped DHT.
StopReachesStart == Settled /\ ~running => ~parts

\* kad-dht.ts:250 "If 'server' this node will respond to DHT queries, if 'client'
\* this node will not": setMode('client') may take the handler away, a setMode
\* that is in progress install it again, and the first one finish with the mode.
ClientsDoNotAnswer == Settled /\ mode = "client" => ~handles

\* query-self.ts:60-69: stop clears the timer and aborts the query, but a query that
\* ends after the stop arms the timer again, and a restart begins a second loop.
OneSelfLoop == \A k, l \in Starts : self[k] # "none" /\ self[l] # "none" => k = l
=============================================================================
