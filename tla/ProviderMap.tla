---------------------------- MODULE ProviderMap ----------------------------
(***************************************************************************)
(* What the provider managers on a datastore promise: one map from content *)
(* ids to providers and the time each was announced.  A provider is only   *)
(* forgotten after it had expired, in two steps, between which another     *)
(* manager, but not the same one, may renew it.  A lookup finds at least   *)
(* the providers of the map that were announced through the manager that   *)
(* is asked, and only providers whose announcement was asked for.          *)
(***************************************************************************)
EXTENDS Naturals

CONSTANTS Managers, Cids, Providers, Nobody, NoAnswer, Validity

VARIABLES
  now,
  known,      \* the time each provider was announced
  by,         \* the manager it was announced through
  asked,      \* the providers whose announcement has been asked for
  condemned,  \* per manager: expired providers it is about to forget
  answer      \* per manager: what it answers to a lookup

vars == <<now, known, by, asked, condemned, answer>>

Absent == 0
Keys == Cids \X Providers

Expired(c, p) == known[c][p] # Absent /\ now - known[c][p] > Validity

Init ==
  /\ now = 1
  /\ known = [c \in Cids |-> [p \in Providers |-> Absent]]
  /\ by = [c \in Cids |-> [p \in Providers |-> Nobody]]
  /\ asked = {}
  /\ condemned = [m \in Managers |-> {}]
  /\ answer = [m \in Managers |-> NoAnswer]

Tick == now' = now + 1 /\ UNCHANGED <<known, by, asked, condemned, answer>>

Ask(c, p) ==
  /\ asked' = asked \cup {<<c, p>>}
  /\ UNCHANGED <<now, known, by, condemned, answer>>

\* A manager that is not about to forget anything notes a provider, with a time
\* that may be a little in the past.
Announce(m, c, p) ==
  /\ condemned[m] = {}
  /\ \E t \in 1..now : known' = [known EXCEPT ![c][p] = t]
  /\ by' = [by EXCEPT ![c][p] = m]
  /\ UNCHANGED <<now, asked, condemned, answer>>

\* A manager finds an expired provider.
Condemn(m) ==
  /\ \E e \in Keys :
       Expired(e[1], e[2]) /\ condemned' = [condemned EXCEPT ![m] = @ \cup {e}]
  /\ UNCHANGED <<now, known, by, asked, answer>>

\* It forgets it, or gives up.
Forget(m) ==
  /\ \E e \in condemned[m] :
       /\ known' = [known EXCEPT ![e[1]][e[2]] = Absent]
       /\ condemned' = [condemned EXCEPT ![m] = @ \ {e}]
  /\ UNCHANGED <<now, by, asked, answer>>

Spare(m) ==
  /\ condemned' = [condemned EXCEPT ![m] = {}]
  /\ UNCHANGED <<now, known, by, asked, answer>>

Lookup(m, c) ==
  /\ condemned[m] = {}
  /\ \E found \in SUBSET {p \in Providers : <<c, p>> \in asked} :
       /\ \A p \in Providers : known[c][p] # Absent /\ by[c][p] = m => p \in found
       /\ answer' = [answer EXCEPT ![m] = [cid |-> c, found |-> found]]
  /\ UNCHANGED <<now, known, by, asked, condemned>>

Answered(m) ==
  /\ answer' = [answer EXCEPT ![m] = NoAnswer]
  /\ UNCHANGED <<now, known, by, asked, condemned>>

\* The process ends: nothing is left but the map.
Crash ==
  /\ condemned' = [m \in Managers |-> {}]
  /\ answer' = [m \in Managers |-> NoAnswer]
  /\ UNCHANGED <<now, known, by, asked>>

Next ==
  \/ Tick \/ Crash
  \/ \E m \in Managers :
       \/ Condemn(m) \/ Forget(m) \/ Spare(m) \/ Answered(m)
       \/ \E c \in Cids : Lookup(m, c) \/ \E p \in Providers : Ask(c, p) \/ Announce(m, c, p)

Spec == Init /\ [][Next]_vars
=============================================================================
