----------------------------- MODULE MCDualDHT -----------------------------
(* A small instance of the dual DHT, with peers named by their distance,   *)
(* and prefixes of two bytes of two bits for the refresh.                  *)
EXTENDS DualDHT, TLC

CONSTANTS lan, wan, self, a, b, c, x, y, z, near, same, far

MCDist == (a :> 0) @@ (self :> 1) @@ (b :> 2) @@ (c :> 3)

MCTables == {{}, {a}, {c}}

\* Nobody; two nearer peers and ourselves; and one peer twice.
MCCloser == {<<>>, <<a, self, b>>, <<a, a>>}

Number(n) == [k \in Bits |-> (n \div (2 ^ k)) % 2 = 1]

\* One contact shares three bits with us, one all of them, one none.
MCKadDist == (near :> Number(1)) @@ (same :> Number(0)) @@ (far :> Number(8))

MCZeroKadId == Number(6)
=============================================================================
