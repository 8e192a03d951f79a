-------------------------- MODULE LifecycleProofs --------------------------
(* What holds of the life cycle for any calls of start, stop and setMode.  *)
EXTENDS Lifecycle, TLAPS

\* A start that awaits the registrar is registered already, and the id the listener
\* keeps is that of a start that awaits it no more: stop never takes away a
\* registration that is about to be kept (topology-listener.ts:62-75).
Registrations ==
  /\ \A s \in Starts : call[s] = "register" => s \in registered
  /\ registrarId # None => call[registrarId] \in {"started", "done"}

\* While the parts run, the listener has an id or awaits one.
ListenerHasId ==
  parts => registrarId # None \/ \E s \in Starts : call[s] = "register"

\* A server without a handler is one that has not begun, or a setMode between its
\* unhandle and the rest has taken the handler away.
HandlerComesBack ==
  mode = "server" /\ ~handles =>
    \/ \E c \in Calls : call[c] \in Modes
    \/ \A c \in Calls : call[c] = "idle"

IInv == TypeOK /\ Registrations /\ ListenerHasId /\ HandlerComesBack

-----------------------------------------------------------------------------
\* Clearing a timer leaves a loop in one of its states.
LEMMA ClearedType ==
  ASSUME NEW L, NEW loops \in [L -> LoopStates], NEW t
  PROVE  Cleared(loops, t) \in [L -> LoopStates]
BY DEF Cleared, LoopStates

LEMMA InitInv == Init => IInv
BY CallsAssumption
   DEF Init, IInv, TypeOK, Registrations, ListenerHasId, HandlerComesBack, Calls,
       Modes, Phases, LoopStates

-----------------------------------------------------------------------------
\* The steps of setMode, of which start is one caller.
LEMMA ModeStep ==
  ASSUME IInv, NEW c \in Calls,
         (\E want \in Modes : CallSetMode(c, want)) \/ Unhandled(c),
         running' \in BOOLEAN
  PROVE  IInv'
<1> USE DEF modeVars, topologyVars, selfVars, refreshVars, Phases, Calls
<1>1. CASE \E want \in Modes : CallSetMode(c, want)
  <2>1. PICK want \in Modes : CallSetMode(c, want)
    BY <1>1
  <2>2. TypeOK'
    BY <2>1 DEF IInv, TypeOK, CallSetMode, Goto
  <2>3. call'[c] = want /\ \A d \in Calls \ {c} : call'[d] = call[d]
    BY <2>1 DEF IInv, TypeOK, CallSetMode, Goto
  <2>4. Registrations'
    <3>1. \A s \in Starts : call'[s] = "register" => s \in registered'
      BY <2>1, <2>3 DEF IInv, Registrations, CallSetMode, Modes
    <3>2. registrarId' # None => call'[registrarId'] \in {"started", "done"}
      BY <2>1, <2>3, CallsAssumption
         DEF IInv, TypeOK, Registrations, CallSetMode, Modes
    <3> QED BY <3>1, <3>2 DEF Registrations
  <2>5. ListenerHasId'
    BY <2>1, <2>3 DEF IInv, ListenerHasId, CallSetMode, Modes
  <2>6. HandlerComesBack'
    BY <2>3 DEF HandlerComesBack
  <2> QED BY <2>2, <2>4, <2>5, <2>6 DEF IInv
<1>2. CASE Unhandled(c)
  <2>1. TypeOK'
    BY <1>2 DEF IInv, TypeOK, Unhandled, Goto
  <2>2. call[c] \in Modes /\ call'[c] = "set"
        /\ \A d \in Calls \ {c} : call'[d] = call[d]
    BY <1>2 DEF IInv, TypeOK, Unhandled, Goto
  <2>3. Registrations'
    <3>1. \A s \in Starts : call'[s] = "register" => s \in registered'
      BY <1>2, <2>2 DEF IInv, Registrations, Unhandled
    <3>2. registrarId' # None => call'[registrarId'] \in {"started", "done"}
      BY <1>2, <2>2 DEF IInv, TypeOK, Registrations, Unhandled, Modes
    <3> QED BY <3>1, <3>2 DEF Registrations
  <2>4. ListenerHasId'
    BY <1>2, <2>2 DEF IInv, ListenerHasId, Unhandled, Modes
  <2>5. HandlerComesBack'
    BY <1>2 DEF HandlerComesBack, Unhandled, Modes
  <2> QED BY <2>1, <2>3, <2>4, <2>5 DEF IInv
<1> QED BY <1>1, <1>2

\* A call that leaves "set" or a later phase: what setMode has done is not touched.
LEMMA LaterPhase ==
  ASSUME IInv, NEW c \in Calls, NEW phase, Goto(c, phase),
         call[c] \notin Modes \cup {"idle"}, UNCHANGED modeVars
  PROVE  HandlerComesBack'
<1>1. \A d \in Calls \ {c} : call'[d] = call[d]
  BY DEF IInv, TypeOK, Goto
<1>2. CASE \E d \in Calls : call[d] \in Modes
  BY <1>1, <1>2 DEF HandlerComesBack
<1>3. CASE \A d \in Calls : call[d] \notin Modes
  BY <1>3 DEF IInv, HandlerComesBack, modeVars
<1> QED BY <1>2, <1>3

\* The steps of start after setMode.
LEMMA StartsStep ==
  ASSUME IInv, NEW s \in Starts, StartStep(s)
  PROVE  IInv'
<1> USE DEF modeVars, topologyVars, selfVars, refreshVars, Phases, Calls
<1>0. s \in Calls /\ s # None
  BY CallsAssumption
<1>1. CASE StartParts(s)
  <2>1. TypeOK'
    BY <1>1 DEF IInv, TypeOK, StartParts, Goto, LoopStates
  <2>2. call[s] = "set" /\ call'[s] = "register"
        /\ \A d \in Calls \ {s} : call'[d] = call[d]
    BY <1>1, <1>0 DEF IInv, TypeOK, StartParts, Goto
  <2>3. Registrations'
    BY <1>1, <2>2 DEF IInv, TypeOK, Registrations, StartParts
  <2>4. ListenerHasId'
    BY <2>2 DEF ListenerHasId
  <2>5. HandlerComesBack'
    BY <1>1, <1>0, <2>2, LaterPhase DEF StartParts, Modes
  <2> QED BY <2>1, <2>3, <2>4, <2>5 DEF IInv
<1>2. CASE PartsAreRunning(s)
  <2>1. TypeOK'
    BY <1>2 DEF IInv, TypeOK, PartsAreRunning, Goto
  <2>2. call[s] = "set" /\ call'[s] = "started"
        /\ \A d \in Calls \ {s} : call'[d] = call[d]
    BY <1>2, <1>0 DEF IInv, TypeOK, PartsAreRunning, Goto
  <2>3. Registrations'
    BY <1>2, <2>2 DEF IInv, TypeOK, Registrations, PartsAreRunning
  <2>4. ListenerHasId'
    BY <1>2, <2>2 DEF IInv, ListenerHasId, PartsAreRunning
  <2>5. HandlerComesBack'
    BY <1>2, <1>0, <2>2, LaterPhase DEF PartsAreRunning, Modes
  <2> QED BY <2>1, <2>3, <2>4, <2>5 DEF IInv
<1>3. CASE Registered(s)
  <2>1. TypeOK'
    BY <1>3 DEF IInv, TypeOK, Registrations, Registered, Goto
  <2>2. call[s] = "register" /\ call'[s] = "started"
        /\ \A d \in Calls \ {s} : call'[d] = call[d]
    BY <1>3, <1>0 DEF IInv, TypeOK, Registered, Goto
  <2>3. Registrations'
    BY <1>3, <2>2 DEF IInv, TypeOK, Registrations, Registered
  <2>4. ListenerHasId'
    BY <1>0, <1>3 DEF ListenerHasId, Registered
  <2>5. HandlerComesBack'
    BY <1>3, <1>0, <2>2, LaterPhase DEF Registered, Modes
  <2> QED BY <2>1, <2>3, <2>4, <2>5 DEF IInv
<1>4. CASE StartRefresh(s)
  <2>1. TypeOK'
    BY <1>4 DEF IInv, TypeOK, StartRefresh, Goto, LoopStates
  <2>2. call[s] = "started" /\ call'[s] = "done"
        /\ \A d \in Calls \ {s} : call'[d] = call[d]
    BY <1>4, <1>0 DEF IInv, TypeOK, StartRefresh, Goto
  <2>3. Registrations'
    BY <1>4, <2>2 DEF IInv, TypeOK, Registrations, StartRefresh
  <2>4. ListenerHasId'
    BY <1>4, <2>2 DEF IInv, ListenerHasId, StartRefresh
  <2>5. HandlerComesBack'
    BY <1>4, <1>0, <2>2, LaterPhase DEF StartRefresh, Modes
  <2> QED BY <2>1, <2>3, <2>4, <2>5 DEF IInv
<1> QED BY <1>1, <1>2, <1>3, <1>4 DEF StartStep

LEMMA ModeIsSetStep ==
  ASSUME IInv, NEW m \in SetModes, ModeIsSet(m)
  PROVE  IInv'
<1> USE DEF modeVars, topologyVars, selfVars, refreshVars, Phases, Calls
<1>1. TypeOK'
  BY DEF IInv, TypeOK, ModeIsSet, Goto
<1>2. m \in Calls \ Starts
  BY CallsAssumption
<1>3. call[m] = "set" /\ call'[m] = "done"
      /\ \A d \in Calls \ {m} : call'[d] = call[d]
  BY <1>2 DEF IInv, TypeOK, ModeIsSet, Goto
<1>4. Registrations'
  BY <1>2, <1>3 DEF IInv, TypeOK, Registrations, ModeIsSet
<1>5. ListenerHasId'
  BY <1>2, <1>3 DEF IInv, ListenerHasId, ModeIsSet
<1>6. HandlerComesBack'
  BY <1>2, <1>3, LaterPhase DEF ModeIsSet, Modes
<1> QED BY <1>1, <1>4, <1>5, <1>6 DEF IInv

\* Stop takes away the registration the listener knows and nobody else waits for.
LEMMA StopStep ==
  ASSUME IInv, Stop
  PROVE  IInv'
<1>1. TypeOK'
  <2>1. self' \in [Starts -> LoopStates]
    BY ClearedType DEF IInv, TypeOK, Stop
  <2>2. refresh' \in [Starts \cup Refreshes -> LoopStates]
    BY ClearedType DEF IInv, TypeOK, Stop
  <2> QED BY <2>1, <2>2 DEF IInv, TypeOK, Stop, modeVars
<1>2. Registrations'
  BY CallsAssumption DEF IInv, TypeOK, Registrations, Stop
<1>3. ListenerHasId'
  BY DEF ListenerHasId, Stop
<1>4. HandlerComesBack'
  BY DEF IInv, HandlerComesBack, Stop, modeVars
<1> QED BY <1>1, <1>2, <1>3, <1>4 DEF IInv

\* The loops touch nothing but themselves.
LEMMA LoopsStep ==
  ASSUME IInv,
         \/ \E l \in Starts : SelfStep(l)
         \/ \E l \in Starts \cup Refreshes : RefreshStep(l)
         \/ \E l \in Refreshes : RefreshRoutingTable(l)
  PROVE  IInv'
<1> USE DEF modeVars, topologyVars, selfVars, refreshVars
<1>1. UNCHANGED <<call, parts, modeVars, topologyVars>>
  BY DEF SelfStep, SelfQueryEnds, SelfTimerFires, RefreshStep, RefreshEnds,
         RefreshTimerFires, RefreshRoutingTable
<1>2. TypeOK'
  BY <1>1 DEF IInv, TypeOK, LoopStates, SelfStep, SelfQueryEnds, SelfTimerFires,
              RefreshStep, RefreshEnds, RefreshTimerFires, RefreshRoutingTable
<1> QED
  BY <1>1, <1>2 DEF IInv, Registrations, ListenerHasId, HandlerComesBack

LEMMA StepInv == IInv /\ [Next]_vars => IInv'
<1> SUFFICES ASSUME IInv, [Next]_vars PROVE IInv'
  OBVIOUS
<1>1. CASE \E s \in Starts : Start(s)
  <2>1. PICK s \in Starts : Start(s)
    BY <1>1
  <2>2. running' \in BOOLEAN /\ CallSetMode(s, mode) /\ mode \in Modes
    BY <2>1 DEF Start, IInv, TypeOK
  <2> QED BY <2>2, ModeStep DEF Calls
<1>2. CASE \E m \in SetModes : SetMode(m)
  <2>1. PICK m \in SetModes : SetMode(m)
    BY <1>2
  <2>2. running' \in BOOLEAN
    BY <2>1 DEF SetMode, IInv, TypeOK
  <2> QED BY <2>1, <2>2, ModeStep DEF SetMode, Calls
<1>3. CASE \E c \in Calls : Unhandled(c)
  <2>1. running' \in BOOLEAN
    BY <1>3 DEF Unhandled, IInv, TypeOK
  <2> QED BY <1>3, <2>1, ModeStep
<1>4. CASE \E s \in Starts : StartStep(s)
  BY <1>4, StartsStep
<1>5. CASE \E m \in SetModes : ModeIsSet(m)
  BY <1>5, ModeIsSetStep
<1>6. CASE \/ \E l \in Starts : SelfStep(l)
           \/ \E l \in Starts \cup Refreshes : RefreshStep(l)
           \/ \E l \in Refreshes : RefreshRoutingTable(l)
  BY <1>6, LoopsStep
<1>7. CASE Stop
  BY <1>7, StopStep
<1>8. CASE UNCHANGED vars
  BY <1>8 DEF vars, modeVars, topologyVars, selfVars, refreshVars, IInv, TypeOK,
              Registrations, ListenerHasId, HandlerComesBack
<1> QED BY <1>1, <1>2, <1>3, <1>4, <1>5, <1>6, <1>7, <1>8 DEF Next

LEMMA Invariant == Spec => []IInv
BY InitInv, StepInv, PTL DEF Spec

-----------------------------------------------------------------------------
\* Every reachable state is well typed; in particular the id that the topology
\* listener keeps is always one the registrar knows.
THEOREM TypeCorrect == Spec => []TypeOK
<1>1. IInv => TypeOK
  BY DEF IInv
<1> QED BY <1>1, Invariant, PTL

\* However the calls overlap: once they are done, a node in server mode has its
\* handler (kad-dht.ts:252-265).
THEOREM ServersAnswer == Spec => []ServerAnswers
<1>1. IInv => ServerAnswers
  BY DEF IInv, HandlerComesBack, ServerAnswers, Settled, Modes
<1> QED BY <1>1, Invariant, PTL

\* However the calls overlap: once they are done, a DHT whose parts run is told of
\* new peers by a topology whose id it keeps (topology-listener.ts:46-76); it may be
\* told by others as well, whose ids are lost.
THEOREM PeersAreSeen == Spec => []PeersAreObserved
<1>1. IInv => PeersAreObserved
  BY DEF IInv, TypeOK, ListenerHasId, PeersAreObserved, Settled, Calls
<1> QED BY <1>1, Invariant, PTL
=============================================================================
