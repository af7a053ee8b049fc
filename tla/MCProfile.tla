----------------------------- MODULE MCProfile ------------------------------
(* Instances of Profile for TLC: blueprints that share an alias and a       *)
(* target, one that drops the target and has a derivation, with a shim,     *)
(* that its root does not reach.                                            *)
EXTENDS Profile, TLC

CONSTANTS d1, d2, exe, a1, a2, t1, A, B, user, h1, h2, h3

Shims(x, y) == (a1 :> x) @@ (a2 :> y)
One   == [hash |-> h1, nodes |-> {d1}, reach |-> {d1},
          shims |-> Shims(d1, None), files |-> (t1 :> A)]
Two   == [hash |-> h2, nodes |-> {d1, d2}, reach |-> {d1, d2},
          shims |-> Shims(d2, d1), files |-> (t1 :> B)]
Bare  == [hash |-> h3, nodes |-> {d2}, reach |-> {},
          shims |-> Shims(exe, d2), files |-> (t1 :> None)]

MCBlueprints == {One, Two, Bare}
MCShimmers   == {[b EXCEPT !.files = (t1 :> None)] : b \in {One, Two}}
MCUserFile   == (t1 :> user)
MCNoFile     == (t1 :> None)
=============================================================================
