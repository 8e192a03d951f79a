------------------------------ MODULE Messages -----------------------------
(***************************************************************************)
(* The messages of the DHT and how they look on the wire.                  *)
(*                                                                         *)
(* On the wire a message is a sequence of numbers: tags, lengths, values   *)
(* of enumerations and the bytes of ids, addresses and keys, of which a    *)
(* few stand for all.  The codec is modelled number by number because an   *)
(* error in it shows in what the reader takes for the next field.          *)
(***************************************************************************)
EXTENDS Integers, Sequences, FiniteSets, SequencesExt

\* A peer as it is passed around.
Info(id, addrs, protocols) == [id |-> id, addrs |-> addrs, protocols |-> protocols]

MessageTypes == <<"PUT_VALUE", "GET_VALUE", "ADD_PROVIDER", "GET_PROVIDERS",
                  "FIND_NODE", "PING">>
ConnectionTypes == 0..3

\* new Message(type, key, level)
NewMessage(type, key, level) ==
  [type |-> type, key |-> key, level |-> level, record |-> <<>>,
   closer |-> <<>>, providers |-> <<>>]

\* The getter of clusterLevel, which answers pass on.
ClusterLevel(m) == IF m.level - 1 < 0 THEN 0 ELSE m.level - 1

-----------------------------------------------------------------------------
(* Writing: one part per field, in the order of the encoder.               *)

Delimited(tag, bytes) == <<tag, Len(bytes)>> \o bytes
Each(s, Part(_)) == [i \in DOMAIN s |-> Part(s[i])]

CONNECTED == 1

\* toPbPeer and the encoder of Peer.
PeerParts(p) ==
  <<Delimited(10, <<p.id>>)>>
  \o Each(SetToSeq(p.addrs), LAMBDA a : Delimited(18, <<a>>))
  \o Each(SetToSeq(p.protocols), LAMBDA q : Delimited(24, <<q>>))
  \o <<<<32, CONNECTED>>>>
EncodePeer(p) == FlattenSeq(PeerParts(p))

TypeNumber(type) == (CHOOSE i \in DOMAIN MessageTypes : MessageTypes[i] = type) - 1

\* serialize(); an empty record stands for none.
Parts(m) ==
  <<<<8, TypeNumber(m.type)>>, <<80, m.level>>, Delimited(18, m.key)>>
  \o (IF m.record = <<>> THEN <<>> ELSE <<Delimited(26, m.record)>>)
  \o Each(m.closer, LAMBDA p : Delimited(66, EncodePeer(p)))
  \o Each(m.providers, LAMBDA p : Delimited(74, EncodePeer(p)))
Encode(m) == FlattenSeq(Parts(m))

\* The same peer as message/dht.proto lays it out, and as other implementations write it.
ProtoPeer(p, connection) ==
  FlattenSeq(<<Delimited(10, <<p.id>>)>>
             \o Each(SetToSeq(p.addrs), LAMBDA a : Delimited(18, <<a>>))
             \o <<<<24, connection>>>>)

-----------------------------------------------------------------------------
(* Reading.  A reader is at a position and has read fields, each with its  *)
(* number; of a peer, the field holds what the reader took for the peer.   *)

Reader == [ok : BOOLEAN, next : Nat, fields : Seq(Nat \X Seq(Nat))]
At(i) == [ok |-> TRUE, next |-> i, fields |-> <<>>]
Throws(r) == [r EXCEPT !.ok = FALSE]

FieldNumber(tag) == tag \div 8

\* Reader r takes a field that ends before position end.
Takes(w, r, bytes, end) ==
  [r EXCEPT !.fields = Append(@, <<FieldNumber(w[r.next]), bytes>>), !.next = end]

\* A field with a length, or the one number of an enumeration or an integer; both
\* throw at the end of the message.
ReadBytes(w, r) ==
  LET from == r.next + 2
      end == from + w[r.next + 1]
  IN IF r.next < Len(w) /\ end <= Len(w) + 1
     THEN Takes(w, r, SubSeq(w, from, end - 1), end) ELSE Throws(r)

ReadNumber(w, r) ==
  IF r.next < Len(w) THEN Takes(w, r, <<w[r.next + 1]>>, r.next + 2) ELSE Throws(r)

ReadEnum(w, r, values) ==
  IF r.next < Len(w) /\ w[r.next + 1] \in values THEN ReadNumber(w, r) ELSE Throws(r)

\* skipType: numbers and delimited fields; other wire types do not occur.
Skip(w, r) ==
  LET skipped == CASE w[r.next] % 8 = 0 -> ReadNumber(w, r)
                   [] w[r.next] % 8 = 2 -> ReadBytes(w, r)
                   [] OTHER -> Throws(r)
  IN [skipped EXCEPT !.fields = r.fields]

\* One field after the other, as long as the reader is before the end, however far the
\* last of them goes.  Each turn of the loop takes a number at least, or throws.
ReadAll(w, start, end, field) ==
  LET read[turn \in 0..end] ==
        IF turn = 0 THEN At(start)
        ELSE LET r == read[turn - 1]
             IN IF ~r.ok \/ r.next >= end THEN r
                ELSE IF r.next > Len(w) THEN Throws(r) ELSE field[r]
  IN read[end]

\* The decoder of Peer.
PeerField(w) ==
  [r \in Reader |->
     CASE FieldNumber(w[r.next]) \in {1, 2, 3} -> ReadBytes(w, r)
       [] FieldNumber(w[r.next]) = 4 -> ReadEnum(w, r, ConnectionTypes)
       [] OTHER -> Skip(w, r)]
DecodePeer(w, start, end) == ReadAll(w, start, end, PeerField(w))

ReadPeer(w, r) ==
  LET p == DecodePeer(w, r.next + 2, r.next + 2 + w[r.next + 1])
  IN IF r.next < Len(w) /\ p.ok
     THEN Takes(w, r, SubSeq(w, r.next + 2, p.next - 1), p.next) ELSE Throws(r)

\* The decoder of Message.
MessageField(w) ==
  [r \in Reader |->
     CASE FieldNumber(w[r.next]) = 1 -> ReadEnum(w, r, 0..(Len(MessageTypes) - 1))
       [] FieldNumber(w[r.next]) = 10 -> ReadNumber(w, r)
       [] FieldNumber(w[r.next]) \in {2, 3} -> ReadBytes(w, r)
       [] FieldNumber(w[r.next]) \in {8, 9} -> ReadPeer(w, r)
       [] OTHER -> Skip(w, r)]
DecodeFields(w) == ReadAll(w, 1, Len(w) + 1, MessageField(w))

-----------------------------------------------------------------------------
(* From fields to a message.                                               *)

\* What the fields with number n hold.  Of one that occurs more than once the last
\* one counts.
Values(fields, n) ==
  LET values[i \in 0..Len(fields)] ==
        IF i = 0 THEN <<>>
        ELSE IF fields[i][1] = n THEN Append(values[i - 1], fields[i][2])
        ELSE values[i - 1]
  IN values[Len(fields)]
LastOf(fields, n, default) ==
  LET values == Values(fields, n) IN IF values = <<>> THEN default ELSE Last(values)

\* fromPbPeer.  A peer without an id throws.
PeerFields(bytes) == DecodePeer(bytes, 1, Len(bytes) + 1).fields
HasId(bytes) == LastOf(PeerFields(bytes), 1, <<>>) # <<>>
PeerOf(bytes) ==
  LET some(n) == {v[1] : v \in ToSet(Values(PeerFields(bytes), n)) \ {<<>>}}
  IN Info(LastOf(PeerFields(bytes), 1, <<>>)[1], some(2), some(3))

\* deserialize(): whether it returns, and what.
Readable(w) ==
  LET all == DecodeFields(w)
  IN /\ all.ok
     /\ \A p \in ToSet(Values(all.fields, 8) \o Values(all.fields, 9)) : HasId(p)

Decode(w) ==
  LET fields == DecodeFields(w).fields
      peers(n) == LET found == Values(fields, n)
                  IN [i \in DOMAIN found |-> PeerOf(found[i])]
  IN [type |-> MessageTypes[LastOf(fields, 1, <<0>>)[1] + 1],
      key |-> LastOf(fields, 2, <<>>),
      level |-> LastOf(fields, 10, <<0>>)[1],
      record |-> LastOf(fields, 3, <<>>),
      closer |-> peers(8),
      providers |-> peers(9)]
=============================================================================
