-------------------------------- MODULE Rpc --------------------------------
(***************************************************************************)
(* Requests between nodes: the client side (Network), streams, and the     *)
(* server side (RPC and its handlers).                                     *)
(*                                                                         *)
(* Some nodes run this code.  Others open streams with any messages and    *)
(* answer requests with any.  A stream delivers in order or is reset, and  *)
(* each side closes its own end; nothing else is assumed of the transport. *)
(* Of the parts behind the handlers the model keeps the peers in each      *)
(* routing table, without its capacity, and the providers, without expiry. *)
(***************************************************************************)
EXTENDS Messages

CONSTANTS
  Peers,     \* peer ids
  Ours,      \* those that run this code
  Lan,       \* is this the LAN DHT or the WAN DHT?
  OwnAddrs,  \* the addresses of each peer
  Book,      \* per node of ours: the addresses its peer store has of each peer
  Cids,      \* content ids
  Code,      \* the code of the hash function of each
  Calls,     \* calls of sendRequest and sendMessage
  Caller, Callee, Type,
  About,     \* what a call is about: a content id or a peer id
  Signal,    \* is a call passed a signal, which comes with a timeout?
  Raw,       \* streams that other nodes open
  From, To,
  Together,  \* the sets of calls and streams that are made in one behaviour
  Scripts,   \* what they may write
  Replies    \* what other nodes may answer

\* The ids of the peers that a message names, if it can be read.
Named(w) ==
  IF Readable(w)
  THEN LET m == Decode(w) IN {p.id : p \in ToSet(m.closer \o m.providers)} ELSE {}

Private == 1
Public == 2

ASSUME RpcAssumption ==
  /\ Peers \subseteq Nat /\ IsFiniteSet(Peers) /\ Ours \subseteq Peers
  /\ Lan \in BOOLEAN
  /\ OwnAddrs \in [Peers -> SUBSET Nat] /\ \A p \in Peers : IsFiniteSet(OwnAddrs[p])
  /\ Book \in [Ours -> [Peers -> SUBSET Nat]]
  /\ \A n \in Ours, p \in Peers : IsFiniteSet(Book[n][p])
  /\ Cids \subseteq Nat /\ Code \in [Cids -> Nat]
  /\ Calls \cap Raw = {}
  /\ Caller \in [Calls -> Ours] /\ Callee \in [Calls -> Peers]
  /\ Type \in [Calls -> ToSet(MessageTypes)] /\ About \in [Calls -> Nat]
  /\ \A c \in Calls : Type[c] \in {"ADD_PROVIDER", "GET_PROVIDERS"} => About[c] \in Cids
  /\ Signal \in [Calls -> BOOLEAN]
  /\ From \in [Raw -> Peers \ Ours] /\ To \in [Raw -> Ours]
  /\ \A script \in Scripts : script \in Seq(Seq(Nat))
  /\ \A w \in Replies : w \in Seq(Nat) /\ Named(w) \subseteq Peers

Streams == Calls \cup Raw
Remote(s) == IF s \in Calls THEN Caller[s] ELSE From[s]
Server(s) == IF s \in Calls THEN Callee[s] ELSE To[s]

\* Keys: a content id is a version and a multihash; a version 0 id is just the hash.
SHA256 == 18
Multihash(cid) == <<Code[cid], cid>>
CidBytes(cid) == <<1>> \o Multihash(cid)

\* CID.decode, and the multihash of the result, under which providers are kept.
IsCid(key) == (Len(key) = 3 /\ key[1] = 1) \/ (Len(key) = 2 /\ key[1] = SHA256)
ProviderKey(key) == IF Len(key) = 3 THEN Tail(key) ELSE key

\* sendMessage announces, all other requests wait for an answer.
OneWay(c) == Type[c] = "ADD_PROVIDER"
Request(c) ==
  CASE Type[c] = "ADD_PROVIDER" ->
         [NewMessage("ADD_PROVIDER", CidBytes(About[c]), 0) EXCEPT
            !.providers = <<Info(Caller[c], OwnAddrs[Caller[c]], {})>>]
    [] Type[c] = "GET_PROVIDERS" -> NewMessage("GET_PROVIDERS", Multihash(About[c]), 0)
    [] OTHER -> NewMessage(Type[c], <<About[c]>>, 0)

VARIABLES
  running,    \* per node of ours: has it not been stopped?
  table,      \* per node of ours: the peers in its routing table
  providers,  \* per node of ours: the providers it knows, each with its key
  call,       \* per call: where it is and what its events say
  stream,     \* per stream: what is under way in both directions
  server,     \* per stream: where the server is with it
  claims      \* history: <<node, key, peer>> if peer told node that it provides key

rpcVars == <<running, table, providers, call, stream, server, claims>>

NoCall == [phase |-> "idle", outcome |-> "none",
           named |-> {},    \* the providers that the answer names
           known |-> {}]    \* history: who had told the callee before the call
NoStream == [toServer |-> <<>>, closed |-> FALSE, toClient |-> <<>>, ended |-> FALSE,
             reset |-> FALSE]
NoServer == [phase |-> "none", msg |-> NewMessage("PING", <<>>, 0)]

Unused(r) == [r EXCEPT !.phase = "unused"]

Init ==
  /\ running = [n \in Ours |-> TRUE]
  /\ table = [n \in Ours |-> {}]
  /\ providers = [n \in Ours |-> {}]
  /\ stream = [s \in Streams |-> NoStream]
  /\ \E these \in Together :
       /\ call = [c \in Calls |-> IF c \in these THEN NoCall ELSE Unused(NoCall)]
       /\ server = [s \in Streams |-> IF s \in these THEN NoServer ELSE Unused(NoServer)]
  /\ claims = {}

\* routingTable.add, which throws without a table; the callers catch that.
AddToTable(n, new) ==
  table' = [table EXCEPT ![n] = IF running[n] THEN @ \cup new ELSE @]

\* removePublicAddresses, removePrivateAddresses.
Usable(addrs) == addrs \cap {IF Lan THEN Private ELSE Public}

\* What a peer says of itself with a message, and with what is written for it.
Says(s, m) ==
  LET itself == {p \in ToSet(m.providers) : p.id = Remote(s) /\ p.addrs # {}}
  IN IF m.type = "ADD_PROVIDER" /\ IsCid(m.key) /\ itself # {}
     THEN {<<Server(s), ProviderKey(m.key), Remote(s)>>} ELSE {}
Claims(s, w) == IF Readable(w) THEN Says(s, Decode(w)) ELSE {}

\* Messages are written to a new stream, which is then closed or left open.
Open(s, script, closes) ==
  /\ stream' = [stream EXCEPT ![s] = [NoStream EXCEPT !.toServer = script, !.closed = closes]]
  /\ server' = [server EXCEPT ![s].phase = "incoming"]
  /\ claims' = claims \cup UNION {Claims(s, w) : w \in ToSet(script)}

-----------------------------------------------------------------------------
(* The client: sendRequest and sendMessage.                                *)

Told(c) ==
  {Caller[d] : d \in {d \in Calls :
     /\ call[d].outcome = "PEER_RESPONSE" /\ Type[d] = "ADD_PROVIDER"
     /\ Callee[d] = Callee[c] /\ About[d] = About[c]}}

Call(c) ==
  /\ call[c].phase = "idle"
  /\ call' = [call EXCEPT ![c] =
       IF running[Caller[c]] THEN [@ EXCEPT !.phase = "dialing", !.known = Told(c)]
       ELSE [@ EXCEPT !.phase = "done", !.outcome = "silent"]]
  /\ UNCHANGED <<running, table, providers, stream, server, claims>>

Done(c, outcome, named) ==
  call' = [call EXCEPT ![c].phase = "done", ![c].outcome = outcome, ![c].named = named]
Fails(c) == Done(c, "QUERY_ERROR", {})

Connected(c) ==
  /\ call[c].phase = "dialing"
  /\ call' = [call EXCEPT ![c].phase = "opening"]
  /\ UNCHANGED <<running, table, providers, stream, server, claims>>

\* The protocol is negotiated, and the message is written.
Opened(c) ==
  /\ call[c].phase = "opening"
  /\ call' = [call EXCEPT ![c].phase = "open"]
  /\ Open(c, <<Encode(Request(c))>>, TRUE)
  /\ UNCHANGED <<running, table, providers>>

CannotOpen(c) ==
  /\ call[c].phase \in {"dialing", "opening"}
  /\ Fails(c)
  /\ UNCHANGED <<running, table, providers, stream, server, claims>>

\* The signal.  Its stream may live on; nobody closes it.
Aborted(c) ==
  /\ Signal[c] /\ call[c].phase \in {"dialing", "opening", "open"}
  /\ Fails(c)
  /\ \/ UNCHANGED stream
     \/ call[c].phase = "open" /\ stream' = [stream EXCEPT ![c].reset = TRUE]
  /\ UNCHANGED <<running, table, providers, server, claims>>

\* The first message that comes is the answer.  The peers it names go into the routing
\* table if they have addresses for it (onPeerConnect).
Answered(c) ==
  LET answer == Head(stream[c].toClient)
      m == Decode(answer)
      named == ToSet(m.closer \o m.providers)
  IN /\ call[c].phase = "open" /\ ~OneWay(c)
     /\ stream[c].toClient # <<>>
     /\ stream' = [stream EXCEPT ![c].toClient = Tail(@)]
     /\ IF Readable(answer)
        THEN /\ Done(c, "PEER_RESPONSE", {p.id : p \in ToSet(m.providers)})
             /\ AddToTable(Caller[c], {p.id : p \in {p \in named : Usable(p.addrs) # {}}})
        ELSE Fails(c) /\ UNCHANGED table
     /\ UNCHANGED <<running, providers, server, claims>>

\* sendMessage reads to the end, and drops what it reads.
Mut_Drained(c) ==
  /\ call[c].phase = "open" /\ OneWay(c)
  /\ Done(c, "PEER_RESPONSE", {})
  /\ UNCHANGED <<running, table, providers, stream, server, claims>>
Drained(c) ==
  /\ call[c].phase = "open" /\ OneWay(c)
  /\ stream[c].ended
  /\ Done(c, "PEER_RESPONSE", {})
  /\ UNCHANGED <<running, table, providers, stream, server, claims>>

\* The stream ends without an answer, or is reset.
NoAnswer(c) ==
  /\ call[c].phase = "open"
  /\ stream[c].reset \/ (~OneWay(c) /\ stream[c].ended /\ stream[c].toClient = <<>>)
  /\ Fails(c)
  /\ UNCHANGED <<running, table, providers, stream, server, claims>>

-----------------------------------------------------------------------------
(* The server: onIncomingStream, handleMessage and the handlers.           *)

Incoming(s) ==
  /\ server[s].phase = "incoming" /\ Server(s) \in Ours
  /\ AddToTable(Server(s), {Remote(s)})
  /\ server' = [server EXCEPT ![s].phase = "reading"]
  /\ UNCHANGED <<running, providers, call, stream, claims>>

\* An error in the pipe resets the stream.
Throw(s) ==
  /\ server' = [server EXCEPT ![s].phase = "threw"]
  /\ stream' = [stream EXCEPT ![s].reset = TRUE]

Receive(s) ==
  LET w == Head(stream[s].toServer)
  IN /\ server[s].phase = "reading" /\ ~stream[s].reset
     /\ stream[s].toServer # <<>>
     /\ IF Readable(w)
        THEN /\ stream' = [stream EXCEPT ![s].toServer = Tail(@)]
             /\ server' = [server EXCEPT ![s] = [phase |-> "handling", msg |-> Decode(w)]]
        ELSE Throw(s)
     /\ UNCHANGED <<running, table, providers, call, claims>>

\* The client has written its last message, so the server ends its side.
Mut_EndOfMessages(s) ==
  /\ server[s].phase = "reading" /\ ~stream[s].reset
  /\ stream[s].toServer = <<>> /\ stream[s].closed
  /\ server' = [server EXCEPT ![s].phase = "ended"]
  /\ UNCHANGED <<running, table, providers, call, stream, claims>>
EndOfMessages(s) ==
  /\ server[s].phase = "reading" /\ ~stream[s].reset
  /\ stream[s].toServer = <<>> /\ stream[s].closed
  /\ server' = [server EXCEPT ![s].phase = "ended"]
  /\ stream' = [stream EXCEPT ![s].ended = TRUE]
  /\ UNCHANGED <<running, table, providers, call, claims>>

ResetSeen(s) ==
  /\ server[s].phase = "reading" /\ stream[s].reset
  /\ server' = [server EXCEPT ![s].phase = "threw"]
  /\ UNCHANGED <<running, table, providers, call, stream, claims>>

Respond(s, m) ==
  /\ server' = [server EXCEPT ![s].phase = "reading"]
  /\ stream' = [stream EXCEPT ![s].toClient = IF stream[s].reset THEN @ ELSE Append(@, Encode(m))]

\* getCloserPeersOffline, of peers that all speak one protocol.
CloserPeers(n, asker) == {Info(p, Book[n][p], {n}) : p \in table'[n] \ {asker}}

\* The entries that have usable addresses, with these only.
OnlyUsable(infos) ==
  LET usable == {[p EXCEPT !.addrs = Usable(@)] : p \in infos}
  IN SetToSeq({p \in usable : p.addrs # {}})

\* _getPeers: the same of peer ids, with the addresses of the peer store.
GetPeers(n, ids) == OnlyUsable({Info(p, Book[n][p], {}) : p \in ids})

Ping(s, m) == m.type = "PING" /\ Respond(s, m) /\ UNCHANGED providers

FindNode(s, m) ==
  LET n == Server(s)
      closer == IF m.key = <<n>> THEN {Info(n, OwnAddrs[n], {})}
                ELSE CloserPeers(n, Remote(s))
  IN /\ m.type = "FIND_NODE"
     /\ Respond(s, [NewMessage(m.type, <<>>, ClusterLevel(m)) EXCEPT
                      !.closer = OnlyUsable(closer)])
     /\ UNCHANGED providers

\* A provider whose entry cannot be written stays in the cache.
Mut_AddProvider(s, m) ==
  LET n == Server(s)
      valid == {p.id : p \in {p \in ToSet(m.providers) : p.addrs # {}}}
  IN /\ m.type = "ADD_PROVIDER"
     /\ providers' = [providers EXCEPT ![n] = @ \cup {<<ProviderKey(m.key), p>> : p \in valid}]
     /\ \/ server' = [server EXCEPT ![s].phase = "reading"] /\ UNCHANGED stream
        \/ Throw(s)
AddProvider(s, m) ==
  LET n == Server(s)
      valid == {p.id : p \in {p \in ToSet(m.providers) : p.id = Remote(s) /\ p.addrs # {}}}
  IN /\ m.type = "ADD_PROVIDER"
     /\ providers' = [providers EXCEPT ![n] = @ \cup {<<ProviderKey(m.key), p>> : p \in valid}]
     /\ \/ server' = [server EXCEPT ![s].phase = "reading"] /\ UNCHANGED stream
        \/ Throw(s)

Mut_GetProviders(s, m) ==
  LET n == Server(s)
      here == {p \in Peers \ {Remote(s)} : <<ProviderKey(m.key), p>> \in providers[n]}
      closer == table'[n] \ {Remote(s)}
  IN /\ m.type = "GET_PROVIDERS"
     /\ Respond(s, [NewMessage(m.type, m.key, ClusterLevel(m)) EXCEPT
                      !.providers = GetPeers(n, here), !.closer = GetPeers(n, closer)])
     /\ UNCHANGED providers
GetProviders(s, m) ==
  LET n == Server(s)
      here == {p \in Peers : <<ProviderKey(m.key), p>> \in providers[n]}
      closer == table'[n] \ {Remote(s)}
  IN /\ m.type = "GET_PROVIDERS"
     /\ Respond(s, [NewMessage(m.type, m.key, ClusterLevel(m)) EXCEPT
                      !.providers = GetPeers(n, here), !.closer = GetPeers(n, closer)])
     /\ UNCHANGED providers

\* With a record or without one: see module Records.  Public keys come without peers.
GetValue(s, m) ==
  /\ m.type = "GET_VALUE"
  /\ \E record \in {<<>>, m.key}, closer \in {{}, CloserPeers(Server(s), Remote(s))} :
       /\ record # <<>> \/ closer = CloserPeers(Server(s), Remote(s))
       /\ Respond(s, [NewMessage(m.type, m.key, ClusterLevel(m)) EXCEPT
                        !.record = record, !.closer = SetToSeq(closer)])
  /\ UNCHANGED providers

\* Whether or not the record was valid and stored.
PutValue(s, m) == m.type = "PUT_VALUE" /\ Respond(s, m) /\ UNCHANGED providers

\* The messages on which a handler throws, and those on which it may, because they
\* take it to the datastore or the peer store.
Refused(m) ==
  \/ m.type \in {"ADD_PROVIDER", "GET_PROVIDERS"} /\ ~IsCid(m.key)
  \/ m.type = "GET_VALUE" /\ m.key = <<>>
  \/ m.type = "PUT_VALUE" /\ m.record = <<>>

MayFail(m) == m.type \in {"ADD_PROVIDER", "GET_PROVIDERS", "GET_VALUE", "FIND_NODE"}

Handle(s) ==
  LET m == server[s].msg
  IN /\ server[s].phase = "handling"
     /\ AddToTable(Server(s), {Remote(s)})
     /\ \/ /\ ~Refused(m)
           /\ \/ Ping(s, m) \/ FindNode(s, m) \/ AddProvider(s, m)
              \/ GetProviders(s, m) \/ GetValue(s, m) \/ PutValue(s, m)
        \/ /\ Refused(m) \/ MayFail(m)
           /\ Throw(s) /\ UNCHANGED providers
     /\ UNCHANGED <<running, call, claims>>

-----------------------------------------------------------------------------
(* Everything else.                                                        *)

\* stop() of the DHT of a node.  Streams and calls go on.
Stop(n) ==
  /\ running[n]
  /\ running' = [running EXCEPT ![n] = FALSE]
  /\ table' = [table EXCEPT ![n] = {}]
  /\ UNCHANGED <<providers, call, stream, server, claims>>

\* A connection is lost, while this makes a difference.
Lost(s) ==
  /\ ~stream[s].reset
  /\ \/ server[s].phase \in {"incoming", "reading", "handling"}
     \/ s \in Calls /\ call[s].phase = "open"
  /\ stream' = [stream EXCEPT ![s].reset = TRUE]
  /\ UNCHANGED <<running, table, providers, call, server, claims>>

\* Nodes that do not run this code.
RawStream(s) ==
  /\ server[s].phase = "none"
  /\ \E script \in Scripts, closes \in BOOLEAN : Open(s, script, closes)
  /\ UNCHANGED <<running, table, providers, call>>

ForeignAnswer(c) ==
  /\ server[c].phase = "incoming" /\ Server(c) \notin Ours
  /\ \/ \E w \in Replies : stream' = [stream EXCEPT ![c].toClient = Append(@, w)]
     \/ stream' = [stream EXCEPT ![c].ended = TRUE]
  /\ server' = [server EXCEPT ![c].phase = "ended"]
  /\ UNCHANGED <<running, table, providers, call, claims>>

CallStep(c) ==
  \/ Connected(c) \/ Opened(c) \/ CannotOpen(c) \/ Aborted(c)
  \/ Answered(c) \/ Drained(c) \/ NoAnswer(c)
ServerStep(s) ==
  Incoming(s) \/ Receive(s) \/ EndOfMessages(s) \/ ResetSeen(s) \/ Handle(s)

Next ==
  \/ \E c \in Calls : Call(c) \/ CallStep(c) \/ ForeignAnswer(c)
  \/ \E s \in Streams : ServerStep(s) \/ Lost(s)
  \/ \E s \in Raw : RawStream(s)
  \/ \E n \in Ours : Stop(n)

\* A dial has a timeout, and so has a signal.  The stores answer.  So calls and servers
\* go on as long as they can: this is their weak fairness, with ENABLED spelled out.
CallCan(c) ==
  \/ call[c].phase \in {"dialing", "opening"}
  \/ /\ call[c].phase = "open"
     /\ \/ Signal[c] \/ stream[c].reset \/ stream[c].ended
        \/ ~OneWay(c) /\ stream[c].toClient # <<>>
ServerCan(s) ==
  \/ server[s].phase = "incoming" /\ Server(s) \in Ours
  \/ /\ server[s].phase = "reading"
     /\ stream[s].reset \/ stream[s].closed \/ stream[s].toServer # <<>>
  \/ server[s].phase = "handling"
CanGoOn == (\E c \in Calls : CallCan(c)) \/ (\E s \in Streams : ServerCan(s))

Fairness == []<>~CanGoOn \/ []<><<call' # call \/ server' # server>>_rpcVars

Spec == Init /\ [][Next]_rpcVars /\ Fairness

-----------------------------------------------------------------------------
(* Safety and liveness.                                                    *)

\* Whatever other nodes write, and in whichever order streams are served: a node knows
\* a provider of a content id only from that peer itself, which sent its own addresses
\* over a stream of its own (rpc/handlers/add-provider.ts:38-56).
ProvidersVouchForThemselves ==
  \A n \in Ours : \A entry \in providers[n] : <<n, entry[1], entry[2]>> \in claims

\* If provide() is told that a node of ours has taken its record, the node has stored
\* it, although nothing is answered and errors are not sent back: sendMessage waits for
\* the end of the stream, and the server ends it after the handler.  This is so for a
\* node that has addresses to announce (network.ts:128-170, rpc/index.ts:89-110).
SuccessMeansStored ==
  \A c \in Calls :
    call[c].outcome = "PEER_RESPONSE" /\ OneWay(c) /\ Callee[c] \in Ours
      /\ OwnAddrs[Caller[c]] # {}
    => <<Multihash(About[c]), Caller[c]>> \in providers[Callee[c]]

\* And whoever asks that node later, and is answered, is told of the provider, if the
\* node has an address of it for this DHT, although the one sends a content id and the
\* other a hash (content-routing/index.ts:66,160, rpc/handlers/get-providers.ts:44-97).
AnnouncedIsFound ==
  \A c \in Calls :
    call[c].outcome = "PEER_RESPONSE" /\ Type[c] = "GET_PROVIDERS" /\ Callee[c] \in Ours
    => \A p \in call[c].known :
         OwnAddrs[p] # {} /\ Usable(Book[Callee[c]][p]) # {} => p \in call[c].named

\* Every call ends that has a signal, or that asks a node of ours: the server gets to
\* the end of each stream, or resets it (network.ts:78-155, rpc/index.ts:78-114).
CallsEnd ==
  \A c \in Calls : Signal[c] \/ Callee[c] \in Ours =>
    (call[c].phase = "dialing" ~> call[c].phase = "done")

-----------------------------------------------------------------------------
(* What the schema and the comments say, and the code does not do.         *)

\* message/dht.proto:48 "optional ConnectionType connection = 3": the code has protocols
\* under this number, and takes the 1 of a connected peer for the length of one, so an
\* answer that follows the schema ends in the middle of a field.  (Checked where all
\* that others answer follows the schema.)
SchemaIsUnderstood ==
  \A c \in Calls :
    server[c].phase = "ended" /\ Callee[c] \notin Ours /\ ~stream[c].ended
      /\ stream[c].toClient = <<>>
    => call[c].outcome = "PEER_RESPONSE"

\* network.ts:173 "If no response is received after the specified timeout this will error
\* out": without a signal there is no timeout, and put has none for its messages unless
\* its caller brings one.  (Violated as soon as such a call asks another node.)
AllCallsEnd == \A c \in Calls : call[c].phase = "dialing" ~> call[c].phase = "done"

\* query/query-path.ts:97 speaks of peers other than us: a node that asks for providers,
\* and is one, puts itself into its routing table.
NeverInOwnTable == \A n \in Ours : n \notin table[n]
=============================================================================
