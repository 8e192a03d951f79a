-------------------------------- MODULE MCRpc ------------------------------
(* A small instance of Rpc: a server and a client that run the code, and a *)
(* stranger that does not.  Numbers above 100 are ids.                     *)
EXTENDS Rpc, TLC

CONSTANTS announce, lookup, ask, raw

server_ == 101
client == 102
stranger == 103
cid == 201
other == 202

MCCode == (cid :> SHA256) @@ (other :> 19)

\* All have both kinds of addresses; the server knows one of each.
MCOwnAddrs == [p \in Peers |-> {Private, Public}]
MCBook == [n \in Ours |-> [p \in Peers |->
             IF p = stranger THEN {Public} ELSE {Private}]]

MCCalls == {announce, lookup, ask}
MCCaller == (announce :> client) @@ (lookup :> client) @@ (ask :> server_)
MCCallee == (announce :> server_) @@ (lookup :> server_) @@ (ask :> stranger)
MCType == (announce :> "ADD_PROVIDER") @@ (lookup :> "GET_PROVIDERS") @@ (ask :> "FIND_NODE")
MCAbout == (announce :> cid) @@ (lookup :> cid) @@ (ask :> client)
MCSignal == (announce :> FALSE) @@ (lookup :> TRUE) @@ (ask :> TRUE)
MCFrom == raw :> stranger
MCTo == raw :> server_

\* Any two of announce, lookup and raw at the same time, and ask with raw.
MCTogether == {{announce, lookup}, {announce, raw}, {lookup, raw}, {ask, raw}}

Entry(p) == Info(p, {Public}, {})

MCScripts == {
  \* providers, of which the stranger is one
  <<Encode([NewMessage("ADD_PROVIDER", CidBytes(cid), 0) EXCEPT
             !.providers = <<Entry(client), Entry(stranger)>>]),
    Encode(NewMessage("PING", <<>>, 2))>>,
  \* a search for the server and for a value, one that names no key
  <<Encode(NewMessage("FIND_NODE", <<server_>>, 0)),
    Encode(NewMessage("GET_VALUE", <<client>>, 1)),
    Encode(NewMessage("GET_VALUE", <<>>, 1))>>,
  \* a hash that is not a content id
  <<Encode(NewMessage("GET_PROVIDERS", Multihash(other), 0))>>,
  \* a record, then an empty message, which is read as a put of nothing
  <<Encode([NewMessage("PUT_VALUE", <<cid>>, 0) EXCEPT !.record = <<cid>>]), <<>>>>,
  \* two types, an unknown field, and an unknown type
  <<<<8, 0, 120, 1, 8, 5>>, <<8, 9>>>>}

MCReplies == {
  Encode([NewMessage("FIND_NODE", <<>>, 0) EXCEPT
            !.closer = <<Entry(client), Info(stranger, {Private}, {client})>>]),
  <<8, 4, 66, 1, 32>>}

\* An answer that is laid out by the schema.
SchemaReplies ==
  {<<8, 4>> \o Delimited(66, ProtoPeer(Entry(client), connection)) :
     connection \in ConnectionTypes}
=============================================================================
