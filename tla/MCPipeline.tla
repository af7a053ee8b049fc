----------------------------- MODULE MCPipeline -----------------------------
(* One alias and lines of up to three stages: a stage before, the stage in  *)
(* question, and one after. Questions: every glob of up to four characters  *)
(* on every name of up to three; and every tree of up to three entries under*)
(* two roots with every filter.                                             *)
EXTENDS Engine

MCAsk(kind, tree, roots, type, depth, names, word) ==
    [kind |-> kind, tree |-> tree, roots |-> roots, type |-> type, depth |-> depth,
     names |-> names, word |-> word]

MCTexts == {<<>>, <<"miss", "hit">>, <<"hit", "binary", "hit">>}
MCFile(d, name) == [depth |-> d, kind |-> "file", name |-> name, text |-> <<"miss", "hit">>]

MCNames == UNION {[1 .. n -> {"a", "b"}] : n \in 1 .. 3} \cup {<<"*", "a">>}
MCGlobs == UNION {[1 .. n -> {"a", "b", "*", "?"}] : n \in 0 .. 4}
MCMatches == {MCAsk("list", <<MCFile(0, s)>>, <<"here">>, "any", 0, <<g>>, "literal") :
                 s \in MCNames, g \in MCGlobs}

MCEntries == {[depth |-> d, kind |-> kd, name |-> <<c>>, text |-> <<>>] :
                 d \in 0 .. 2, kd \in {"file", "dir", "link"}, c \in {"a", "b"}}
MCTree(tree) == \A n \in DOMAIN tree :
                   IF n = 1 THEN tree[n].depth = 0
                   ELSE \/ tree[n].depth <= tree[n - 1].depth
                        \/ tree[n].depth = tree[n - 1].depth + 1 /\ tree[n - 1].kind = "dir"
MCTrees == {tree \in UNION {[1 .. n -> MCEntries] : n \in 0 .. 3} :
              MCTree(tree) /\ \A n \in DOMAIN tree : n # 2 => tree[n].name = <<"a">>}
MCWalks == {MCAsk("files", tree, <<"gone", "here">>, type, d, names, "literal") :
               tree \in MCTrees, type \in {"any", "f", "d"}, d \in 0 .. 2,
               names \in {<<>>, <<<<"b">>, <<"a", "*">>>>}}

MCSearches == {MCAsk("text", <<[MCFile(0, <<"a">>) EXCEPT !.text = text]>>, roots, "any", 0,
                     <<>>, word) :
                 text \in MCTexts, roots \in {<<>>, <<"here", "here">>},
                 word \in {"literal", "regex", "empty", "broken"}}

MCQuestions == MCMatches \cup MCWalks \cup MCSearches
=============================================================================
