---------------------------- MODULE MCApplyPlan -----------------------------
(* Every graph of four derivations: d4 is the root and a node's children    *)
(* have smaller numbers, in any order and maybe twice, as the requires and  *)
(* components of a composite may name one derivation twice.  And documents   *)
(* of up to three entries in any order, complete or not.                    *)
EXTENDS ApplyPlan, FiniteSets, TLC

CONSTANTS d1, d2, d3, d4

Seqs(S) == {<<>>} \cup {<<a>> : a \in S} \cup {<<a, b>> : a, b \in S}

Kind(s, leaf) == IF s = <<>> THEN leaf ELSE IF Len(s) = 1 THEN "withFiles" ELSE "composite"

Blueprints ==
    {[nodes |-> {d1, d2, d3, d4}, root |-> d4, dry |-> dry,
      doc |-> FALSE, plan |-> <<>>, urls |-> {}, sound |-> {d1, d2, d3, d4},
      builder |-> (d1 :> "fetch") @@ (d2 :> Kind(s2, "scripture"))
                  @@ (d3 :> Kind(s3, "fetch")) @@ (d4 :> Kind(s4, "scripture")),
      children |-> (d1 :> <<>>) @@ (d2 :> s2) @@ (d3 :> s3) @@ (d4 :> s4)] :
        dry \in BOOLEAN, s2 \in Seqs({d1}), s3 \in Seqs({d1, d2}),
        s4 \in Seqs({d1, d2, d3})}

Documents ==
    {[nodes |-> {d1, d2, d3}, root |-> d3, dry |-> dry,
      doc |-> TRUE, plan |-> plan, urls |-> us, sound |-> {d2, d3} \cup ok,
      builder |-> (d1 :> "fetch") @@ (d2 :> "scripture") @@ (d3 :> "composite")
                  @@ (d4 :> "fetch"),
      children |-> (d1 :> <<>>) @@ (d2 :> <<>>) @@ (d3 :> kids) @@ (d4 :> <<>>)] :
        dry \in BOOLEAN, plan \in UNION {[1 .. n -> {d1, d2, d3}] : n \in 0 .. 3},
        us \in SUBSET {d1}, ok \in SUBSET {d1}, kids \in {<<d1>>, <<d2>>, <<d1, d2>>}}

MCGraphs == Blueprints \cup Documents
=============================================================================
