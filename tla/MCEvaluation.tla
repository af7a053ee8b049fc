---------------------------- MODULE MCEvaluation -----------------------------
(* Sources of three blueprints; c1 and c2 are composites of each other,     *)
(* which no evaluation can build.                                           *)
EXTENDS Evaluation, TLC

CONSTANTS main, a, b, f1, k1, c1, c2

MCDepsOf == (f1 :> {}) @@ (k1 :> {f1}) @@ (c1 :> {c2, k1}) @@ (c2 :> {c1})

Do(o, x)    == [op |-> o, arg |-> x, guarded |-> FALSE]
Try(o, x)   == [op |-> o, arg |-> x, guarded |-> TRUE]
Fine(s)     == [scan |-> "fine", body |-> s]
Broken(s)   == [scan |-> s, body |-> <<>>]
Src(m, x, y) == (main :> Fine(m)) @@ (a :> x) @@ (b :> y)

(* What a sibling may be: it uses other siblings, returns what it built, a  *)
(* table or nothing, fails, loops, or is no blueprint.                      *)
Plain == {Fine(<<Do("build", f1), Do("return", f1)>>),
          Fine(<<Do("use", a), Do("build", k1), Do("return", k1)>>),
          Fine(<<Do("use", b), Do("use", b), Do("build", c1), Do("return", c1)>>),
          Fine(<<Do("use", main), Do("return", k1)>>),
          Fine(<<Do("fail", None)>>), Fine(<<Do("spin", None)>>), Fine(<<>>)}
         \cup {Broken(s) : s \in Scans \ {"fine"}}

Roots == {<<Do("use", a), Do("use", b), Do("build", k1), Do("return", k1)>>,
          <<Do("build", f1), Do("use", b), Do("use", a), Do("return", f1)>>,
          <<Do("use", a), Do("return", c2)>>}

MCPlain == {Src(m, x, y) : m \in Roots, x \in Plain, y \in Plain}
           \cup {[Src(<<>>, Fine(<<>>), Fine(<<>>)) EXCEPT ![main] = Broken(s)] :
                    s \in Scans \ {"fine"}}

(* And with pcall.                                                          *)
Guarded == {[x EXCEPT !.body = [i \in DOMAIN x.body |->
                IF x.body[i].op = "return" THEN x.body[i]
                ELSE [x.body[i] EXCEPT !.guarded = TRUE]]] :
                x \in {y \in Plain : \A i \in DOMAIN y.body : y.body[i].op # "spin"}}
GuardedRoots ==
    {<<Try("use", a), Try("use", b), Try("use", a), Try("build", c1), Do("return", k1)>>,
     <<Try("use", b), Do("build", f1), Do("use", a), Do("use", b), Do("return", f1)>>}

MCSources == MCPlain \cup
    {Src(m, x, y) : m \in GuardedRoots, x \in Guarded \cup Plain, y \in Guarded}

(* A caught loop, then another.                                             *)
MCLoops == {Src(<<Try("use", x), Do("spin", None)>>, Fine(<<Do("spin", None)>>), y) :
               x \in {a, b}, y \in Plain}
=============================================================================
