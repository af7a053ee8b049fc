------------------------------ MODULE MCStore -------------------------------
(* Instances of Store for TLC: one fetched path that two contents may claim *)
(* (a collision) and one scripture path.                                    *)
EXTENDS Store, TLC

CONSTANTS p1, p2, fetched, script, c1, c2, f1, f2

MCRequests     == {[path |-> fetched, content |-> c1], [path |-> fetched, content |-> c2],
                   [path |-> script, content |-> c1]}
MCSameRequests == {[path |-> fetched, content |-> c1]}
\* c1 consists of f1 and f2, c2 of f1 only.
MCFilesOf      == (c1 :> {f1, f2}) @@ (c2 :> {f1})
MCSymmetry     == Permutations({p1, p2})
=============================================================================
