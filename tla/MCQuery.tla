------------------------------ MODULE MCQuery ------------------------------
(* Small instances of Query: a few peers named by their distance to the key. *)
EXTENDS Query, TLC

CONSTANTS self, a, b, c, d, p1, p2

MCPeers == {self, a, b, c, d}

\* a is the nearest peer, then b, ourselves, c and d.
MCDist == (a :> 0) @@ (b :> 1) @@ (self :> 2) @@ (c :> 3) @@ (d :> 4)

\* Both paths learn of the same nearer peers, of ourselves and of farther peers, and
\* one peer answers with itself.
MCAnswers == (a :> {{a, d}}) @@ (b :> {{a, self}}) @@ (self :> {{}})
             @@ (c :> {{a, b}, {d}}) @@ (d :> {{a, self}})

MCStarts == {(p1 :> d) @@ (p2 :> c)}

\* A shorter walk, for liveness: two paths that both learn of the nearest peer.
ShortPeers == {self, a, b, c}
ShortDist == (a :> 0) @@ (self :> 1) @@ (b :> 2) @@ (c :> 3)
ShortStarts == {(p1 :> c) @@ (p2 :> b)}
ShortAnswers == (a :> {{}}) @@ (self :> {{}}) @@ (b :> {{a}}) @@ (c :> {{a, self}})
=============================================================================
