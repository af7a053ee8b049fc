------------------------------ MODULE MCAssets ------------------------------
(* Releases of two assets with every combination of words, of three for one *)
(* processor each, and of one with every ending; one of each ending that    *)
(* can be unpacked is unpacked.                                             *)
EXTENDS Archive

Two == {<<a, b>> : a, b \in [os : Oses, arch : Archs, matches : {TRUE},
                             suffix : {<<"zip">>, <<"tar", "gz">>, <<"zip", "sha256">>}]}

Three == {<<a, b, c>> : a, b, c \in [os : {"linux", "mac"}, arch : {"amd64", "arm64"},
                                     matches : BOOLEAN, suffix : {<<"tgz">>, <<"zip", "sha256">>}]}

MCPicks    == Two \cup Three
MCArchives == {<<a>> : a \in [os : Oses, arch : Archs, matches : BOOLEAN, suffix : Extensions]}
MCAll      == MCPicks \cup MCArchives

MCUnpacked == {<<[os |-> "linux", arch |-> "amd64", matches |-> TRUE, suffix |-> s]>> : s \in Extensions}

H(t, n) == [type |-> t, name |-> n, sound |-> "yes"]
Files   == {H("file", n) : n \in {<<"a">>, <<"t", "a">>, <<"t", "b">>, <<"t", "a", "b">>, <<"u", "a">>}}
Others  == {H("dir", <<"t", "">>), H("dir", <<"t", "a">>), H("file", <<"t", "a", "">>),
            H("link", <<"t", "b">>), H("file", <<"..", "a">>), H("file", NoName)}
Bad(t)  == {[H("file", <<"t", "a">>) EXCEPT !.sound = s] : s \in t}
Meta    == {H("L", <<"t", "b">>), H("L", NoName), H("x", <<"u", "b">>), H("x", <<"t", "c:">>), H("x", NoName)}

UpTo(S, n) == UNION {[1 .. m -> S] : m \in 0 .. n}

(* A long name and a PAX record before one entry, with another behind.      *)
Deep == {<<l, x, f, g>> : l \in Meta, x \in Meta, f \in Files, g \in Files}

Of(fs, hs, streams) == [format : fs, stream : streams, first : {1}, headers : hs]

MCPacked ==
    Of({"zip"}, UpTo(Files \cup Others \cup Bad({"data", "header"}), 2)
                  \cup [1 .. 3 -> Files \cup {H("dir", <<"t", "">>)}], {"whole"})
    \cup Of({"tar"}, UpTo(Files \cup Others \cup Bad({"header"}) \cup Meta, 2)
                  \cup [1 .. 3 -> Files \cup Meta], {"whole"})
    \cup Of({"gzip", "zstd"}, Deep, {"whole"})
    \cup Of({"gzip"}, {<<f>> : f \in Files}, {"cut", "bad"})
    \cup Of({"zip", "zstd"}, {<<f>> : f \in Files}, {"bad"})
(* What a second frame or a lost end hide (the code does not see either).   *)
MCFrames == Of({"gzip", "zstd"}, {<<f, g>> : f, g \in Files}, {"frames", "cut"})
=============================================================================
