------------------------------- MODULE MCKuli -------------------------------
(* An alias that a scripture, a derivation's binary and a blueprint's own   *)
(* scripture may all claim, and one that a scripture and a derivation may.  *)
EXTENDS Kuli, TLC

CONSTANTS d1, aFind, aTool, find, grep, h1, h2, h3

Bp(h, x, y) == [hash |-> h, nodes |-> {d1}, reach |-> {d1},
                shims |-> (aFind :> x) @@ (aTool :> y), files |-> [t \in Targets |-> None]]

MCBlueprints  == {Bp(h1, None, d1), Bp(h2, KuliExe, None), Bp(h3, d1, d1)}
MCBasenamesOf == (find :> {aFind}) @@ (grep :> {aTool})
MCUserFile    == [t \in Targets |-> None]
=============================================================================
