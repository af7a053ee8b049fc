------------------------------- MODULE Assets -------------------------------
(***************************************************************************)
(* Which file of a release a fetch gets, and whether it can be unpacked:    *)
(* select_asset (libs/kuli-bp/src/resolver.cpp) scores the names of the     *)
(* assets for this host; realize_fetch (libs/kuli-store/src/store.cpp)      *)
(* names the download after the extension of the url; extract               *)
(* (archive.cpp) goes by that name.                                         *)
(*                                                                          *)
(* A name is known by the words the scores look for, by its extensions, and *)
(* by whether it matches the pattern of the derivation.                     *)
(***************************************************************************)
EXTENDS Integers, Sequences, SequencesExt

CONSTANTS Releases, \* what a release may contain: a set of sequences of assets
          Targets,  \* hosts, as <os>-<arch>
          None      \* no asset

Oses     == {"windows", "linux", "mac", "any"}
Archs    == {"x86_64", "amd64", "arm64", "any"}
Extensions == {<<>>, <<"zip">>, <<"tar">>, <<"tar", "gz">>, <<"tgz">>, <<"tar", "zst">>,
             <<"tzst">>, <<"zip", "sha256">>}
Asset    == [os : Oses, arch : Archs, suffix : Extensions, matches : BOOLEAN]

ASSUME AssetsAssumption ==
    /\ Releases \subseteq Seq(Asset)
    /\ Targets \subseteq {"windows-x64", "linux-x64", "macos-arm64", "macos-x64"}
    /\ None \notin Nat

VARIABLES release, \* the assets, in the order of the API
          target,  \* this host
          k,       \* the next asset to look at
          best,    \* the best one so far
          file,    \* the extensions of the downloaded file, or None
          outcome  \* "none", how the archive was unpacked, or "refused"

vars == <<release, target, k, best, file, outcome>>

Formats == {"zip", "tar", "gzip", "zstd"}

TypeOK ==
    /\ release \in Releases /\ target \in Targets
    /\ k \in 1 .. Len(release) + 1
    /\ best \in DOMAIN release \cup {None}
    /\ file \in Extensions \cup {None, <<"archive">>, <<"gz">>, <<"zst">>, <<"sha256">>}
    /\ outcome \in Formats \cup {"none", "refused", "no asset"}

Init ==
    /\ release \in Releases /\ target \in Targets
    /\ k = 1 /\ best = None /\ file = None /\ outcome = "none"

-----------------------------------------------------------------------------
(* The scores: own words add, those of another host take away.              *)
Points(b, n) == IF b THEN n ELSE 0
Has(a, part) == part \in ToSet(a.suffix)
Tarball(a)   == Has(a, "tgz") \/ (Has(a, "tar") /\ (Has(a, "gz") \/ Has(a, "zst")))

score_windows(a) ==
    Points(a.arch \in {"x86_64", "amd64"}, 5) + Points(a.os = "windows", 5)
    + Points(Has(a, "zip"), 2) - Points(a.arch = "arm64", 10)
    - Points(a.os \in {"mac", "linux"}, 10)

score_linux(a) ==
    Points(a.arch \in {"x86_64", "amd64"}, 5) + Points(a.os = "linux", 5)
    + Points(Tarball(a), 2) - Points(a.arch = "arm64", 10)
    - Points(a.os \in {"mac", "windows"}, 10)

score_macos(a, arch) ==
    Points(a.os = "mac", 5) + Points(a.arch = arch, 5) - Points(a.os \in {"windows", "linux"}, 10)

(* Mutant: another system costs nothing.                                    *)
ScoreOwn(a) ==
    CASE target = "windows-x64" -> Points(a.arch \in {"x86_64", "amd64"}, 5) + Points(Has(a, "zip"), 2)
      [] target = "linux-x64"   -> Points(a.arch \in {"x86_64", "amd64"}, 5) + Points(Tarball(a), 2)
      [] OTHER                  -> Points(a.arch = "arm64", 5)

Score(a) == CASE target = "windows-x64" -> score_windows(a)
              [] target = "linux-x64"   -> score_linux(a)
              [] target = "macos-arm64" -> score_macos(a, "arm64")
              [] target = "macos-x64"   -> score_macos(a, "x86_64")

IsSidecar(a) == Has(a, "sha256")
Candidate(a) == ~ IsSidecar(a) /\ a.matches

(* The loop of select_asset.                                                *)
Look ==
    /\ k <= Len(release)
    /\ LET a == release[k] IN
         best' = IF /\ Candidate(a)
                    /\ best = None \/ Score(a) > Score(release[best])
                 THEN k ELSE best
    /\ k' = k + 1
    /\ UNCHANGED <<release, target, file, outcome>>

Chosen == k > Len(release) /\ outcome = "none"

NoAsset ==
    /\ Chosen /\ best = None
    /\ outcome' = "no asset"
    /\ UNCHANGED <<release, target, k, best, file>>

(* url_ext: what follows the last dot of the url.                           *)
url_ext(suffix) == IF suffix = <<>> THEN <<"archive">> ELSE <<Last(suffix)>>

Download ==
    /\ Chosen /\ best # None /\ file = None
    /\ file' = url_ext(release[best].suffix)
    /\ UNCHANGED <<release, target, k, best, outcome>>

(* Mutant: a file is a zip unless its name says something else.             *)
ReadAsZip(name) ==
    CASE IsSuffix(<<"tar", "gz">>, name) \/ IsSuffix(<<"tgz">>, name)   -> "gzip"
      [] IsSuffix(<<"tar", "zst">>, name) \/ IsSuffix(<<"tzst">>, name) -> "zstd"
      [] IsSuffix(<<"tar">>, name)                                      -> "tar"
      [] OTHER                                                          -> "zip"

ReadAs(name) ==
    CASE IsSuffix(<<"zip">>, name)                                      -> "zip"
      [] IsSuffix(<<"tar", "gz">>, name) \/ IsSuffix(<<"tgz">>, name)   -> "gzip"
      [] IsSuffix(<<"tar", "zst">>, name) \/ IsSuffix(<<"tzst">>, name) -> "zstd"
      [] IsSuffix(<<"tar">>, name)                                      -> "tar"
      [] OTHER                                                          -> "refused"

Extract ==
    /\ Chosen /\ file # None
    /\ outcome' = ReadAs(file)
    /\ UNCHANGED <<release, target, k, best, file>>

Next == Look \/ NoAsset \/ Download \/ Extract

Spec == Init /\ [][Next]_vars

-----------------------------------------------------------------------------
(* Properties.                                                              *)
Looked == {j \in 1 .. k - 1 : Candidate(release[j])}

(* The words of this host.                                                  *)
OwnOs   == CASE target = "windows-x64" -> "windows" [] target = "linux-x64" -> "linux"
             [] OTHER -> "mac"
OwnArch == IF target = "macos-arm64" THEN {"arm64"} ELSE {"x86_64", "amd64"}

(* "Ties broken by a host-triplet score (prefers the right os/arch)": no    *)
(* asset for another system or processor is taken if there is one for this  *)
(* (in a well-typed state).                                                 *)
RightHost ==
    /\ TypeOK
    /\ (Chosen /\ \E j \in Looked : release[j].os = OwnOs /\ release[j].arch \in OwnArch) =>
          /\ release[best].os \in {OwnOs, "any"}
          /\ release[best].arch \in OwnArch \cup {"any"}

(* What the asset is: the decompressor follows from its whole name.         *)
FormatOf(a) == ReadAs(a.suffix)

(* An archive is unpacked as what it is, or refused.                        *)
ReadAsWhatItIs == outcome \in Formats => outcome = FormatOf(release[best])

(* "fetch: download the url, check sha256, unpack (zip/tar.zst/tar.gz)"     *)
(* (design.md): an archive of a format extract() knows is not refused.      *)
KnownFormatsUnpack == outcome = "refused" => FormatOf(release[best]) = "refused"
=============================================================================
