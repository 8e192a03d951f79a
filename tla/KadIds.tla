------------------------------- MODULE KadIds ------------------------------
(***************************************************************************)
(* How the refresh of the routing table makes up peer ids: the 16-bit      *)
(* prefix of a kad id that shares a given number of bits with our own is   *)
(* put together with the bit operators of JavaScript, and looked up in a   *)
(* generated table of peer ids whose hashes begin with each prefix.        *)
(*                                                                         *)
(* A JavaScript integer has 32 bits, twice the width of a prefix; bit k    *)
(* counts 2^k.  Of a kad id, a SHA-256 hash, the model keeps the prefix.   *)
(***************************************************************************)
EXTENDS Integers

CONSTANTS
  Width,      \* the bits of a prefix (16 in the code)
  ByteBits,   \* the bits of a byte (8 in the code)
  Browser,    \* is it the build for browsers, with its shorter table?
  ZeroKadId   \* prefix of the kad id of the peer id that ends in zeros only

ASSUME WidthAssumption ==
  /\ Width \in Nat /\ ByteBits \in Nat \ {0}
  /\ 2 < Width /\ Width % ByteBits = 0
  /\ Browser \in BOOLEAN

Bits == 0..(2 * Width - 1)
Word == [Bits -> BOOLEAN]
PrefixWords == {[k \in Bits |-> k \in ones] : ones \in SUBSET (0..(Width - 1))}

ASSUME ZeroAssumption == ZeroKadId \in PrefixWords

\* The operators ^, &, |, ~, << and >> (of numbers that are not negative).
Xor(v, w) == [k \in Bits |-> v[k] # w[k]]
And(v, w) == [k \in Bits |-> v[k] /\ w[k]]
Or(v, w) == [k \in Bits |-> v[k] \/ w[k]]
Not(w) == [k \in Bits |-> ~w[k]]
ShiftLeft(w, n) == [k \in Bits |-> k >= n /\ w[k - n]]
ShiftRight(w, n) == [k \in Bits |-> k + n \in Bits /\ w[k + n]]

TopBit == [k \in Bits |-> k = Width - 1]    \* 0x8000
AllOnes == [k \in Bits |-> k < Width]       \* 65535

\* generated-prefix-list.ts has an entry per prefix, the other list one for every
\* prefix that is two bits shorter: package.json swaps them in browsers.
NodeTableBits == Width
BrowserTableBits == Width - 2
TableBits == IF Browser THEN BrowserTableBits ELSE NodeTableBits

\* Entry i is a peer id whose kad id begins with the bits of i; `rest' is how that
\* kad id goes on.
Entry(i, rest) ==
  [k \in Bits |-> k < Width /\ IF k >= Width - TableBits
                               THEN i[k - (Width - TableBits)]
                               ELSE rest[k]]

\* An index beyond the table reads undefined, which setUint32 stores as zero.
GeneratedPrefix(i, rest) ==
  IF \A k \in Bits : i[k] => k < TableBits THEN Entry(i, rest) ELSE ZeroKadId

-----------------------------------------------------------------------------
\* The mask that forgets the last of the bits to keep.
Mut_TargetPrefix(local, random, cpl) ==
  LET mask == ShiftLeft(AllOnes, Width - cpl)
      toggled == Xor(local, ShiftRight(TopBit, cpl))
  IN Or(And(toggled, mask), And(random, Not(mask)))
TargetPrefix(local, random, cpl) ==
  LET mask == ShiftLeft(AllOnes, Width - (cpl + 1))
      toggled == Xor(local, ShiftRight(TopBit, cpl))
  IN Or(And(toggled, mask), And(random, Not(mask)))

MakePeerId(local, random, cpl, rest) ==
  GeneratedPrefix(TargetPrefix(local, random, cpl), rest)

\* The kad ids that _generateRandomPeerId may come up with.
RandomPeerIds(local, cpl) ==
  {MakePeerId(local, random, cpl, rest) : random \in PrefixWords, rest \in PrefixWords}

-----------------------------------------------------------------------------
\* The first n bits of two kad ids are the same.
Shares(v, w, n) == \A k \in 0..(Width - 1) : k >= Width - n => v[k] = w[k]

\* v belongs to bucket n of w: they share n bits and no more.
InBucket(v, w, n) == Shares(v, w, n) /\ v[Width - 1 - n] # w[Width - 1 - n]

\* _prefixLengths: the leading bytes of the distance that are zero.
PrefixLength(local, id) ==
  LET zeroBytes(n) == Shares(local, id, n * ByteBits)
  IN CHOOSE n \in 0..(Width \div ByteBits) :
       zeroBytes(n) /\ (n < Width \div ByteBits => ~zeroBytes(n + 1))
=============================================================================
