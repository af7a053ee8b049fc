----------------------------- MODULE ArchiveProofs -----------------------------
(* Of releases of any number of assets and archives of any number of        *)
(* entries: which asset is chosen, how it is read, and what is on disk when *)
(* it is unpacked.                                                          *)
EXTENDS Archive, SequenceTheorems, WellFoundedInduction, TLAPS

(* Which names end in which words.                                          *)
LEMMA PrefixOf ==
    ASSUME NEW T, NEW r \in Seq(T), NEW s \in Seq(T)
    PROVE  IsPrefix(r, s) <=> Len(r) <= Len(s) /\ \A i \in 1 .. Len(r) : r[i] = s[i]
<1>1. CASE Len(r) <= Len(s)
  <2>1. /\ SubSeq(r, 1, Len(r)) = [i \in 1 .. Len(r) |-> r[i]]
        /\ SubSeq(s, 1, Len(r)) = [i \in 1 .. Len(r) |-> s[i]]
    BY <1>1
  <2> QED BY <1>1, <2>1 DEF IsPrefix
<1>2. CASE ~ Len(r) <= Len(s)
  BY <1>2 DEF IsPrefix
<1> QED BY <1>1, <1>2

(* A name of at most two extensions that ends in one ...                    *)
LEMMA EndsOne ==
    ASSUME NEW w, NEW x, NEW v
    PROVE  (IsSuffix(<<w>>, <<x>>) <=> w = x) /\ ~ IsSuffix(<<v, w>>, <<x>>)
<1>1. Reverse(<<w>>) = <<w>> /\ Reverse(<<x>>) = <<x>> /\ Reverse(<<v, w>>) = <<w, v>>
  BY DEF Reverse
<1>2. PICK T : T = {v, w, x}
  OBVIOUS
<1>3. <<w>> \in Seq(T) /\ <<x>> \in Seq(T) /\ <<w, v>> \in Seq(T)
  BY <1>2
<1>4. IsPrefix(<<w>>, <<x>>) <=> 1 <= 1 /\ \A i \in 1 .. 1 : <<w>>[i] = <<x>>[i]
  <2>1. Len(<<w>>) = 1 /\ Len(<<x>>) = 1
    OBVIOUS
  <2> QED BY <1>3, <2>1, PrefixOf
<1>5. ~ IsPrefix(<<w, v>>, <<x>>)
  <2>1. Len(<<w, v>>) = 2 /\ Len(<<x>>) = 1
    OBVIOUS
  <2>2. ~ Len(<<w, v>>) <= Len(<<x>>)
    BY <2>1
  <2> QED BY <2>2 DEF IsPrefix
<1> QED BY <1>1, <1>4, <1>5 DEF IsSuffix

(* ... or in two.                                                           *)
LEMMA EndsTwo ==
    ASSUME NEW w, NEW x, NEW v, NEW y
    PROVE  /\ IsSuffix(<<w>>, <<x, y>>) <=> w = y
           /\ IsSuffix(<<v, w>>, <<x, y>>) <=> v = x /\ w = y
<1>1. Reverse(<<w>>) = <<w>> /\ Reverse(<<v, w>>) = <<w, v>> /\ Reverse(<<x, y>>) = <<y, x>>
  BY DEF Reverse
<1>2. PICK T : T = {v, w, x, y}
  OBVIOUS
<1>3. <<w>> \in Seq(T) /\ <<y, x>> \in Seq(T) /\ <<w, v>> \in Seq(T)
  BY <1>2
<1>4. Len(<<w>>) = 1 /\ Len(<<y, x>>) = 2 /\ Len(<<w, v>>) = 2
  OBVIOUS
<1>a. PICK r : r = <<w>>
  OBVIOUS
<1>b. PICK s : s = <<y, x>>
  OBVIOUS
<1>c. PICK q : q = <<w, v>>
  OBVIOUS
<1>d. r \in Seq(T) /\ s \in Seq(T) /\ q \in Seq(T) /\ Len(r) = 1 /\ Len(s) = 2 /\ Len(q) = 2
  BY <1>3, <1>4, <1>a, <1>b, <1>c
<1>5. IsPrefix(r, s) <=> \A i \in 1 .. 1 : r[i] = s[i]
  <2>1. r \in Seq(T) /\ s \in Seq(T)
    BY <1>d
  <2>2. IsPrefix(r, s) <=> Len(r) <= Len(s) /\ \A i \in 1 .. Len(r) : r[i] = s[i]
    BY <2>1, PrefixOf
  <2> QED BY <1>d, <2>2
<1>6. IsPrefix(q, s) <=> \A i \in 1 .. 2 : q[i] = s[i]
  <2>1. q \in Seq(T) /\ s \in Seq(T)
    BY <1>d
  <2>2. IsPrefix(q, s) <=> Len(q) <= Len(s) /\ \A i \in 1 .. Len(q) : q[i] = s[i]
    BY <2>1, PrefixOf
  <2> QED BY <1>d, <2>2
<1>7. (\A i \in 1 .. 2 : q[i] = s[i]) <=> q[1] = s[1] /\ q[2] = s[2]
  OBVIOUS
<1> QED BY <1>1, <1>a, <1>b, <1>c, <1>5, <1>6, <1>7 DEF IsSuffix

(* Of one extension, the one itself counts.                                 *)
LEMMA ReadAsOne ==
    ASSUME NEW w
    PROVE  /\ w = "zip"  => ReadAs(<<w>>) = "zip"
           /\ w = "tgz"  => ReadAs(<<w>>) = "gzip"
           /\ w = "tzst" => ReadAs(<<w>>) = "zstd"
           /\ w = "tar"  => ReadAs(<<w>>) = "tar"
           /\ w \notin {"zip", "tgz", "tzst", "tar"} => ReadAs(<<w>>) = "refused"
<1>1. /\ IsSuffix(<<"zip">>, <<w>>) <=> w = "zip"
      /\ IsSuffix(<<"tgz">>, <<w>>) <=> w = "tgz"
      /\ IsSuffix(<<"tzst">>, <<w>>) <=> w = "tzst"
      /\ IsSuffix(<<"tar">>, <<w>>) <=> w = "tar"
      /\ ~ IsSuffix(<<"tar", "gz">>, <<w>>) /\ ~ IsSuffix(<<"tar", "zst">>, <<w>>)
  BY EndsOne
<1>2. "zip" # "tgz" /\ "zip" # "tzst" /\ "zip" # "tar" /\ "tgz" # "tzst" /\ "tgz" # "tar" /\ "tzst" # "tar"
  OBVIOUS
<1>3. CASE w = "zip"
  BY <1>1, <1>2, <1>3, Zenon DEF ReadAs
<1>4. CASE w = "tgz"
  BY <1>1, <1>2, <1>4, Zenon DEF ReadAs
<1>5. CASE w = "tzst"
  BY <1>1, <1>2, <1>5, Zenon DEF ReadAs
<1>6. CASE w = "tar"
  BY <1>1, <1>2, <1>6, Zenon DEF ReadAs
<1>7. CASE w \notin {"zip", "tgz", "tzst", "tar"}
  BY <1>1, <1>2, <1>7, Zenon DEF ReadAs
<1> QED BY <1>2, <1>3, <1>4, <1>5, <1>6, <1>7

(* What url_ext and ReadAs make of each ending.                             *)
LEMMA UrlExt ==
    ASSUME NEW s \in Extensions
    PROVE  /\ url_ext(s) \in Extensions \cup {<<"archive">>, <<"gz">>, <<"zst">>, <<"sha256">>}
           /\ ReadAs(url_ext(s)) \in Formats => ReadAs(url_ext(s)) = ReadAs(s)
           /\ ReadAs(url_ext(s)) \in Formats \cup {"refused"}
<1>1. CASE s = <<>>
  <2>1. url_ext(s) = <<"archive">>
    BY <1>1 DEF url_ext
  <2> QED BY <2>1, ReadAsOne DEF Formats
<1>2. CASE \E w \in {"zip", "tar", "tgz", "tzst"} : s = <<w>>
  <2>1. url_ext(s) = s
    BY <1>2 DEF url_ext, Last
  <2> QED BY <1>2, <2>1, ReadAsOne DEF Formats
<1>3. CASE \E v \in {"tar", "zip"}, w \in {"gz", "zst", "sha256"} : s = <<v, w>>
  <2>1. url_ext(s) \in {<<"gz">>, <<"zst">>, <<"sha256">>}
    BY <1>3 DEF url_ext, Last
  <2> QED BY <2>1, ReadAsOne DEF Formats
<1> QED BY <1>1, <1>2, <1>3 DEF Extensions

-----------------------------------------------------------------------------
(* Choosing.                                                                *)
LEMMA ScoreType == ASSUME NEW a PROVE Score(a) \in Int \/ target \notin Targets
<1>1. score_windows(a) \in Int /\ score_linux(a) \in Int /\ \A x : score_macos(a, x) \in Int
  BY DEF score_windows, score_linux, score_macos, Points
<1>2. CASE target \in Targets
  <2>1. CASE target = "windows-x64"
    BY <1>1, <2>1 DEF Score
  <2>2. CASE target = "linux-x64"
    BY <1>1, <2>2 DEF Score
  <2>3. CASE target = "macos-arm64"
    BY <1>1, <2>3 DEF Score
  <2>4. CASE target = "macos-x64"
    BY <1>1, <2>4 DEF Score
  <2> QED BY <1>2, <2>1, <2>2, <2>3, <2>4, AssetsAssumption DEF AssetsAssumption
<1> QED BY <1>2

(* An asset for this host outscores what is not.                            *)
LEMMA OwnScores ==
    ASSUME target \in Targets, target # "macos-x64", NEW a,
           a.os = OwnOs, a.arch \in OwnArch
    PROVE  Score(a) >= 10
<1>1. CASE target = "windows-x64"
  BY <1>1 DEF Score, score_windows, Points, OwnOs, OwnArch
<1>2. CASE target = "linux-x64"
  BY <1>2 DEF Score, score_linux, Points, OwnOs, OwnArch
<1>3. CASE target = "macos-arm64"
  BY <1>3 DEF Score, score_macos, Points, OwnOs, OwnArch
<1> QED BY <1>1, <1>2, <1>3, AssetsAssumption DEF AssetsAssumption

(* What is not, is below.                                                   *)
LEMMA OtherScores ==
    ASSUME target \in Targets, target # "macos-x64", NEW a \in Asset, Score(a) >= 10
    PROVE  a.os = OwnOs /\ a.arch \in OwnArch
<1>1. CASE target = "windows-x64"
  BY <1>1 DEF Score, score_windows, Points, OwnOs, OwnArch, Asset
<1>2. CASE target = "linux-x64"
  BY <1>2 DEF Score, score_linux, Points, OwnOs, OwnArch, Asset
<1>3. CASE target = "macos-arm64"
  BY <1>3 DEF Score, score_macos, Points, OwnOs, OwnArch, Asset
<1> QED BY <1>1, <1>2, <1>3, AssetsAssumption DEF AssetsAssumption

(* The loop keeps the best candidate it has looked at.                      *)
Leads(b) == b \in Looked /\ \A j \in Looked : Score(release[j]) <= Score(release[b])

(* The best one so far, and what becomes of it; with it, the types.         *)
PickInv ==
    /\ TypeOK
    /\ (best = None) = (Looked = {})
    /\ best # None => Leads(best)
    /\ file # None => /\ k > Len(release) /\ best # None
                      /\ file = url_ext(release[best].suffix)
    /\ outcome \in Formats \cup {"refused"} => file # None /\ outcome = ReadAs(file)

(* The best one is an asset.                                                *)
LEMMA BestType ==
    ASSUME TypeOK
    PROVE  /\ release \in Seq(Asset) /\ Len(release) \in Nat
           /\ DOMAIN release = 1 .. Len(release)
           /\ best # None => best \in DOMAIN release /\ release[best] \in Asset
                            /\ release[best].suffix \in Extensions
<1>1. release \in Seq(Asset)
  BY AssetsAssumption DEF AssetsAssumption, TypeOK
<1>2. Len(release) \in Nat /\ DOMAIN release = 1 .. Len(release)
      /\ \A i \in DOMAIN release : release[i] \in Asset
  BY <1>1
<1>3. \A a \in Asset : a.suffix \in Extensions
  BY DEF Asset
<1> QED BY <1>1, <1>2, <1>3 DEF TypeOK

(* Nothing is looked at, nothing is best.                                   *)
LEMMA PickStart == Init => PickInv
<1> SUFFICES ASSUME Init PROVE PickInv
  OBVIOUS
<1>1. Looked = {}
  BY DEF Init, Looked
<1>2. Len(release) \in Nat
  BY AssetsAssumption DEF AssetsAssumption, Init
<1> QED BY <1>1, <1>2 DEF Init, PickInv, TypeOK, Formats

(* The next asset is compared with the best one.                            *)
LEMMA PickLook == ASSUME PickInv, Look PROVE PickInv'
<1>1. /\ release \in Seq(Asset) /\ k \in Nat \ {0} /\ k <= Len(release) /\ Len(release) \in Nat
      /\ UNCHANGED <<release, target, file, outcome>> /\ k' = k + 1
      /\ k \in DOMAIN release
  <2>1. /\ k \in 1 .. Len(release) + 1 /\ k <= Len(release) /\ k' = k + 1
        /\ UNCHANGED <<release, target, file, outcome>>
    BY DEF PickInv, TypeOK, Look
  <2>2. /\ release \in Seq(Asset) /\ Len(release) \in Nat
        /\ DOMAIN release = 1 .. Len(release)
    BY BestType DEF PickInv
  <2> QED BY <2>1, <2>2
<1>2. Looked' = IF Candidate(release[k]) THEN Looked \cup {k} ELSE Looked
  <2>1. 1 .. k' - 1 = (1 .. k - 1) \cup {k}
    BY <1>1
  <2>2. \A j : Candidate(release[j])' = Candidate(release[j])
    BY <1>1 DEF Candidate, IsSidecar, Has
  <2> QED BY <2>1, <2>2 DEF Looked
<1>3. \A a : Score(a)' = Score(a) /\ Score(a) \in Int
  BY <1>1, ScoreType DEF PickInv, TypeOK, Score, score_windows, score_linux, score_macos, Points, Has, Tarball
<1>4. file = None
  BY <1>1 DEF PickInv
<1>5. None \notin Nat /\ Looked \subseteq Nat
  BY AssetsAssumption DEF AssetsAssumption, Looked
<1>6. TypeOK'
  <2>1. k' \in 1 .. Len(release) + 1
    BY <1>1
  <2>2. best' \in {best, k}
    BY DEF Look
  <2> QED BY <1>1, <2>1, <2>2 DEF PickInv, TypeOK
<1>7. /\ (best' = None) = (Looked' = {})
      /\ best' # None => best' \in Looked' /\ \A j \in Looked' : Score(release[j]) <= Score(release[best'])
  <2>1. CASE Candidate(release[k]) /\ (best = None \/ Score(release[k]) > Score(release[best]))
    <3>1. best' = k /\ Looked' = Looked \cup {k}
      BY <1>2, <2>1 DEF Look
    <3>2. \A j \in Looked : Score(release[j]) <= Score(release[k])
      BY <1>3, <2>1 DEF PickInv, Leads
    <3> QED BY <1>1, <1>3, <1>5, <3>1, <3>2
  <2>2. CASE Candidate(release[k]) /\ ~ (best = None \/ Score(release[k]) > Score(release[best]))
    <3>1. best' = best /\ Looked' = Looked \cup {k}
      BY <1>2, <2>2 DEF Look
    <3>2. Score(release[k]) <= Score(release[best])
      BY <1>3, <2>2
    <3> QED BY <2>2, <3>1, <3>2 DEF PickInv, Leads
  <2>3. CASE ~ Candidate(release[k])
    <3>1. best' = best /\ Looked' = Looked
      BY <1>2, <2>3 DEF Look
    <3> QED BY <3>1 DEF PickInv, Leads
  <2> QED BY <2>1, <2>2, <2>3
<1>8. best' # None => Leads(best)'
  BY <1>1, <1>3, <1>7 DEF Leads
<1> QED BY <1>1, <1>4, <1>6, <1>7, <1>8 DEF PickInv

(* Downloading and unpacking leave the choice alone.                        *)
LEMMA PickStep == ASSUME PickInv, [Next]_vars PROVE PickInv'
<1>0. ASSUME UNCHANGED <<release, target, k, best>>
      PROVE  Looked' = Looked /\ (best # None => Leads(best)')
  <2>1. \A j : Candidate(release[j])' = Candidate(release[j])
    BY <1>0 DEF Candidate, IsSidecar, Has
  <2>2. Looked' = Looked
    BY <1>0, <2>1 DEF Looked
  <2>3. \A a : Score(a)' = Score(a)
    BY <1>0 DEF Score, score_windows, score_linux, score_macos, Points, Has, Tarball
  <2> QED BY <1>0, <2>2, <2>3 DEF PickInv, Leads
<1>1. CASE Look
  BY <1>1, PickLook
<1>2. CASE NoAsset
  <2>1. UNCHANGED <<release, target, k, best, file>> /\ outcome' = "no asset"
    BY <1>2 DEF NoAsset
  <2> QED BY <1>0, <2>1 DEF PickInv, TypeOK, Formats
<1>3. CASE Download
  <2>1. /\ UNCHANGED <<release, target, k, best, outcome>> /\ best # None /\ k > Len(release)
        /\ file' = url_ext(release[best].suffix) /\ outcome = "none"
    BY <1>3 DEF Download, Chosen
  <2>2. release[best] \in Asset
    BY <2>1, BestType DEF PickInv
  <2>3. file' \in Extensions \cup {<<"archive">>, <<"gz">>, <<"zst">>, <<"sha256">>}
    BY <2>1, <2>2, UrlExt DEF Asset
  <2> QED BY <1>0, <2>1, <2>3 DEF PickInv, TypeOK, Formats
<1>4. CASE Extract
  <2>1. UNCHANGED <<release, target, k, best, file>> /\ outcome' = ReadAs(file) /\ file # None
    BY <1>4 DEF Extract
  <2>2. release[best].suffix \in Extensions
    BY <2>1, BestType DEF PickInv
  <2>3. outcome' \in Formats \cup {"refused"}
    BY <2>1, <2>2, UrlExt DEF PickInv
  <2> QED BY <1>0, <2>1, <2>3 DEF PickInv, TypeOK
<1>5. CASE UNCHANGED vars
  BY <1>0, <1>5 DEF vars, PickInv, TypeOK
<1> QED BY <1>1, <1>2, <1>3, <1>4, <1>5 DEF Next

(* The download keeps the last extension: where that decides, the file is   *)
(* read as what it is, and otherwise refused.                               *)
LEMMA PickReads == PickInv => ReadAsWhatItIs
<1> SUFFICES ASSUME PickInv, outcome \in Formats PROVE outcome = FormatOf(release[best])
  BY DEF ReadAsWhatItIs
<1>1. outcome = ReadAs(url_ext(release[best].suffix)) /\ best # None
  BY DEF PickInv
<1>2. release[best].suffix \in Extensions
  BY <1>1, BestType DEF PickInv
<1> QED BY <1>1, <1>2, UrlExt DEF FormatOf

(* An asset with both words of this host has at least 10 points, one with a *)
(* word of another host less.                                               *)
LEMMA PickRight == ASSUME "macos-x64" \notin Targets PROVE PickInv => RightHost
<1> SUFFICES ASSUME PickInv, NEW j \in Looked,
                    release[j].os = OwnOs, release[j].arch \in OwnArch
             PROVE  release[best].os = OwnOs /\ release[best].arch \in OwnArch
  BY DEF RightHost, PickInv
<1>1. best # None /\ target \in Targets /\ target # "macos-x64"
  BY DEF PickInv, TypeOK
<1>2. Score(release[j]) >= 10 /\ Score(release[j]) <= Score(release[best])
  BY <1>1, OwnScores DEF PickInv, Leads
<1>3. Score(release[best]) >= 10
  BY <1>1, <1>2, ScoreType
<1>4. release[best] \in Asset
  BY <1>1, BestType DEF PickInv
<1> QED BY <1>1, <1>3, <1>4, OtherScores

-----------------------------------------------------------------------------
(* What unpacking adds leaves the choice alone.                             *)
LEMMA PickIncluded ==
    /\ ArchiveInit => Init
    /\ [ArchiveNext]_<<vars, avars>> => [Next]_vars
  BY DEF ArchiveInit, ArchiveNext

LEMMA PickHolds == ArchiveSpec => []PickInv
  BY PickIncluded, PickStart, PickStep, PTL DEF ArchiveSpec

(* An archive is unpacked as what its whole name says it is, or refused,    *)
(* for every release: although url_ext keeps only the last extension of the *)
(* url.                                                                     *)
THEOREM ArchivesReadAsWhatTheyAre == ArchiveSpec => []ReadAsWhatItIs
  BY PickHolds, PickReads, PTL

(* No asset for another system or processor is chosen if the release has    *)
(* one for this host, for releases of any number of assets. On an Intel Mac *)
(* it does not hold: there "amd64" counts nothing.                          *)
THEOREM AssetsOfThisHost ==
    ASSUME "macos-x64" \notin Targets PROVE ArchiveSpec => []RightHost
  BY PickHolds, PickRight, PTL

-----------------------------------------------------------------------------
(* A set of numbers has a least one, so a bounded set has a greatest one.   *)
LEMMA LeastExists ==
    ASSUME NEW T \in SUBSET Nat, T # {} PROVE \E x \in T : \A y \in T : x <= y
<1>1. IsWellFoundedOn(OpToRel(<, Nat), Nat)
  BY NatLessThanWellFounded, Zenon
<1>2. \E x \in T : \A y \in T : ~ (<<y, x>> \in OpToRel(<, Nat))
  BY <1>1, WFMin, Zenon
<1>3. \A x, y \in Nat : y < x => <<y, x>> \in OpToRel(<, Nat)
  BY Zenon DEF OpToRel
<1>4. \E x \in T : \A y \in T : ~ (y < x)
  BY <1>2, <1>3, Zenon
<1> QED BY <1>4

LEMMA MaxOf ==
    ASSUME NEW n \in Nat, NEW T \in SUBSET (0 .. n), T # {}
    PROVE  Max(T) \in T /\ \A y \in T : y <= Max(T)
<1> DEFINE U == {n - x : x \in T}
<1>0. \A x \in T : x \in Nat /\ x <= n /\ n - x \in Nat
  OBVIOUS
<1>1. U \in SUBSET Nat /\ U # {}
  BY <1>0
<1>2. PICK m \in U : \A y \in U : m <= y
  BY <1>1, LeastExists
<1>3. PICK x \in T : m = n - x
  OBVIOUS
<1>4. \A y \in T : x >= y
  <2> TAKE y \in T
  <2>1. n - x <= n - y
    BY <1>2, <1>3
  <2> QED BY <1>0, <2>1
<1>5. Max(T) \in T /\ \A y \in T : Max(T) >= y
  BY <1>4 DEF Max
<1> QED BY <1>0, <1>5

LEMMA MaxIs ==
    ASSUME NEW n \in Nat, NEW T \in SUBSET (0 .. n), NEW x \in T, \A y \in T : y <= x
    PROVE  Max(T) = x
<1>1. Max(T) \in T /\ \A y \in T : y <= Max(T)
  BY MaxOf
<1>2. \A y \in T : y \in Nat
  OBVIOUS
<1>3. \A y, z \in Nat : y <= z /\ z <= y => y = z
  OBVIOUS
<1> QED BY <1>1, <1>2, <1>3, Zenon
-----------------------------------------------------------------------------
(* The headers since the entry before.                                      *)
Entries(n) == {j \in 1 .. n - 1 : IsEntry(j)}

(* None before the first.                                                   *)
LEMMA SinceStart == Between(1) = {}
<1>1. {j \in 1 .. 1 - 1 : IsEntry(j)} = {}
  OBVIOUS
<1>2. Max({0}) = 0
  BY MaxIs
<1> QED BY <1>1, <1>2 DEF Between

(* None after an entry.                                                     *)
LEMMA SinceEntry ==
    ASSUME NEW n \in Nat \ {0}, IsEntry(n) PROVE Between(n + 1) = {}
<1>1. Max(Entries(n + 1) \cup {0}) = n
  <2>1. Entries(n + 1) \cup {0} \in SUBSET (0 .. n) /\ n \in Entries(n + 1) \cup {0}
    BY DEF Entries
  <2>2. \A y \in Entries(n + 1) \cup {0} : y <= n
    BY <2>1
  <2>3. PICK T : T = Entries(n + 1) \cup {0}
    OBVIOUS
  <2>4. T \in SUBSET (0 .. n) /\ n \in T /\ (\A y \in T : y <= n) /\ n \in Nat
    BY <2>1, <2>2, <2>3
  <2>5. Max(T) = n
    BY <2>4, MaxIs, Zenon
  <2> QED BY <2>3, <2>5
<1> QED BY <1>1 DEF Between, Entries

(* One more after any other header.                                         *)
LEMMA SinceOther ==
    ASSUME NEW n \in Nat \ {0}, ~ IsEntry(n) PROVE Between(n + 1) = Between(n) \cup {n}
<1>1. Entries(n + 1) = Entries(n)
  BY DEF Entries
<1>2. Entries(n) \cup {0} \in SUBSET (0 .. n - 1) /\ n - 1 \in Nat
  BY DEF Entries
<1>3. Max(Entries(n) \cup {0}) \in 0 .. n - 1
  BY <1>2, MaxOf
<1>4. Between(n) = (Max(Entries(n) \cup {0}) + 1) .. n - 1
  BY DEF Between, Entries
<1>5. Between(n + 1) = (Max(Entries(n) \cup {0}) + 1) .. n
  <2>1. Between(n + 1) = (Max(Entries(n + 1) \cup {0}) + 1) .. n + 1 - 1
    BY DEF Between, Entries
  <2>2. n + 1 - 1 = n
    OBVIOUS
  <2> QED BY <1>1, <2>1, <2>2, Zenon
<1> QED BY <1>3, <1>4, <1>5

(* They are before.                                                         *)
LEMMA SinceBefore ==
    ASSUME NEW n \in Nat \ {0} PROVE Between(n) \subseteq 1 .. n - 1
<1>1. Entries(n) \cup {0} \in SUBSET (0 .. n - 1) /\ n - 1 \in Nat
  BY DEF Entries
<1>2. Max(Entries(n) \cup {0}) \in 0 .. n - 1
  BY <1>1, MaxOf
<1> QED BY <1>2 DEF Between, Entries

(* The names those headers give.                                            *)
Gives(n, t) == packed.headers[n].type = t /\ (t = "x" => packed.headers[n].name # NoName)

LEMMA NamedSet == \A n, t : Named(n, t) = {j \in Between(n) : Gives(j, t)}
  BY DEF Named, Gives

(* A header that is no entry gives a name or leaves the one before.         *)
LEMMA NameGiven ==
    ASSUME NEW n \in Nat \ {0}, ~ IsEntry(n), NEW t
    PROVE  LastName(n + 1, t) = IF Gives(n, t) THEN packed.headers[n].name ELSE LastName(n, t)
<1>1. Named(n + 1, t) = IF Gives(n, t) THEN Named(n, t) \cup {n} ELSE Named(n, t)
  BY SinceOther, NamedSet
<1>2. CASE Gives(n, t)
  <2>1. Named(n, t) \cup {n} \in SUBSET (0 .. n)
    BY SinceBefore, NamedSet
  <2>2. Max(Named(n, t) \cup {n}) = n
    BY <2>1, MaxIs
  <2> QED BY <1>1, <1>2, <2>2 DEF LastName
<1>3. CASE ~ Gives(n, t)
  BY <1>1, <1>3 DEF LastName
<1> QED BY <1>2, <1>3

(* An entry takes it.                                                       *)
LEMMA NameTaken ==
    ASSUME NEW n \in Nat \ {0}, IsEntry(n) \/ n = 0, NEW t
    PROVE  LastName(n + 1, t) = NoName
  BY SinceEntry, NamedSet DEF LastName

LEMMA NameNone == \A t : LastName(1, t) = NoName
  BY SinceStart, NamedSet DEF LastName

-----------------------------------------------------------------------------
(* Types of what is read.                                                   *)
Count == Len(packed.headers)

EntryRecord == [name : Names, dir : BOOLEAN, link : BOOLEAN, sound : {"yes", "data", "header"},
                from : Nat \ {0}]

LEMMA NoNameType == NoName \in Names
  BY DEF NoName, Names

LEMMA PackedType ==
    ASSUME packed \in Archives
    PROVE  /\ packed.headers \in Seq(Header) /\ Count \in Nat /\ DOMAIN packed.headers = 1 .. Count
           /\ \A i \in 1 .. Count : packed.headers[i] \in Header
<1>1. packed.headers \in Seq(Header)
  BY ArchiveAssumption DEF ArchiveAssumption
<1> QED BY <1>1 DEF Count

LEMMA HeaderType ==
    ASSUME NEW h \in Header
    PROVE  /\ h.type \in {"file", "dir", "link", "L", "x"} /\ h.name \in Names
           /\ h.sound \in {"yes", "data", "header"}
  BY DEF Header

LEMMA LastNameType ==
    ASSUME packed \in Archives, NEW n \in 1 .. Count + 1, NEW t PROVE LastName(n, t) \in Names
<1>0. Count \in Nat
  BY PackedType
<1>1. CASE Named(n, t) = {}
  BY <1>1, NoNameType DEF LastName
<1>2. CASE Named(n, t) # {}
  <2>1. Named(n, t) \subseteq 1 .. n - 1 /\ n - 1 \in Nat
    BY <1>0, SinceBefore, NamedSet
  <2>2. Named(n, t) \in SUBSET (0 .. n - 1)
    BY <2>1
  <2>3. Max(Named(n, t)) \in 1 .. n - 1
    BY <1>2, <2>1, <2>2, MaxOf
  <2>4. Max(Named(n, t)) \in 1 .. Count
    BY <1>0, <2>3
  <2> QED BY <1>2, <2>4, PackedType, HeaderType DEF LastName
<1> QED BY <1>1, <1>2

LEMMA OwnNameType ==
    ASSUME packed \in Archives, NEW i \in 1 .. Count PROVE OwnName(i) \in Names
<1>1. i \in 1 .. Count + 1 /\ packed.headers[i].name \in Names
  BY PackedType, HeaderType
<1>2. LastName(i, "x") \in Names /\ LastName(i, "L") \in Names
  BY <1>1, LastNameType
<1>3. OwnName(i) \in {LastName(i, "x"), LastName(i, "L"), packed.headers[i].name}
  BY Zenon DEF OwnName
<1> QED BY <1>1, <1>2, <1>3

LEMMA EntryType ==
    ASSUME NEW h \in Header, NEW name \in Names, NEW i \in Nat \ {0}
    PROVE  /\ Entry(h, name, i) \in EntryRecord
           /\ Entry(h, name, i).from = i
  BY HeaderType DEF Entry, EntryRecord

EntryOf(i) == Entry(packed.headers[i], OwnName(i), i)

LEMMA EntryOfType ==
    ASSUME packed \in Archives, NEW i \in 1 .. Count
    PROVE  EntryOf(i) \in EntryRecord /\ EntryOf(i).from = i
<1>1. packed.headers[i] \in Header /\ i \in Nat \ {0} /\ OwnName(i) \in Names
  BY PackedType, OwnNameType
<1> QED BY <1>1, EntryType DEF EntryOf

LEMMA PackedStays ==
    ASSUME packed' = packed
    PROVE  /\ Count' = Count
           /\ \A i : /\ IsEntry(i)' = IsEntry(i) /\ OwnName(i)' = OwnName(i)
                     /\ EntryOf(i)' = EntryOf(i)
           /\ \A i, t : LastName(i, t)' = LastName(i, t)
<1>1. \A i : IsEntry(i)' = IsEntry(i)
  BY DEF IsEntry
<1>2. \A i : Between(i)' = Between(i)
  BY <1>1 DEF Between
<1>3. \A i, t : Named(i, t)' = Named(i, t)
  BY <1>2 DEF Named
<1>4. \A i, t : LastName(i, t)' = LastName(i, t)
  BY <1>3 DEF LastName
<1>5. \A i : OwnName(i)' = OwnName(i)
  BY <1>4 DEF OwnName
<1>6. \A i : EntryOf(i)' = EntryOf(i)
  BY <1>5 DEF EntryOf
<1> QED BY <1>1, <1>4, <1>5, <1>6 DEF Count

-----------------------------------------------------------------------------
(* The list of entries: those of the first n headers, in their order, each  *)
(* with its own name.                                                       *)
From(j) == entries[j].from

Listed(n) ==
    /\ entries \in Seq(EntryRecord)
    /\ \A j \in 1 .. Len(entries) : /\ From(j) \in 1 .. n /\ IsEntry(From(j))
                                    /\ entries[j] = EntryOf(From(j))
    /\ \A j, l \in 1 .. Len(entries) : j < l => From(j) < From(l)
    /\ \A i \in 1 .. n : IsEntry(i) => \E j \in 1 .. Len(entries) : From(j) = i

(* The first n headers have been read; all have been read.                  *)
Read(n)   == at = n + 1 /\ Listed(n) /\ long = LastName(n + 1, "L") /\ pax = LastName(n + 1, "x")
Reading   == \E n \in 0 .. Count : Read(n)
AllListed == \E n \in Nat : n = Count /\ Listed(n)

(* What has been read at each stage; with it, the types.                    *)
ListInv ==
    /\ stage \in {"idle", "parse", "place", "unpacked", "refused"}
    /\ packed \in Archives \cup {None} /\ (stage = "idle") = (packed = None)
    /\ at \in Nat \ {0} /\ long \in Names /\ pax \in Names
    /\ stage = "idle" => at = 1 /\ entries = <<>> /\ long = NoName /\ pax = NoName
    /\ stage = "parse" => Reading /\ Data(packed) = packed.headers
    /\ stage \in {"place", "unpacked"} => AllListed

(* Every archive that can be read is read to its end: none of several       *)
(* members or frames, none cut off.                                         *)
WholeStreams == \A a \in Archives : Readable(a) => Data(a) = a.headers

(* At the start nothing has been read.                                      *)
LEMMA ListStart == ArchiveInit => ListInv
  BY NoNameType DEF ArchiveInit, ListInv

(* What is used of the archive that a step opens.                           *)
Opened ==
    /\ packed \in Archives =>
          /\ packed.headers \in Seq(Header) /\ Count \in Nat
          /\ DOMAIN packed.headers = 1 .. Count
          /\ \A i \in 1 .. Count : /\ packed.headers[i] \in Header
                                  /\ EntryOf(i) \in EntryRecord /\ EntryOf(i).from = i
    /\ Count \in Nat /\ (\A i \in 1 .. Count : IsEntry(i)) =>
          \A i \in 1 .. Count : OwnName(i) = packed.headers[i].name
    /\ LastName(1, "L") = NoName /\ LastName(1, "x") = NoName
    /\ entries = <<>> => Listed(0)

LEMMA OpenedHolds == Opened
<1>1. ASSUME Count \in Nat, \A i \in 1 .. Count : IsEntry(i), NEW i \in 1 .. Count
      PROVE  OwnName(i) = packed.headers[i].name
  <2>1. CASE i = 1
    BY <2>1, NameNone DEF OwnName
  <2>2. CASE i # 1
    <3>1. PICK n : n = i - 1
      OBVIOUS
    <3>2. n \in Nat \ {0} /\ n \in 1 .. Count /\ i = n + 1
      BY <1>1, <2>2, <3>1
    <3>3. LastName(i, "x") = NoName /\ LastName(i, "L") = NoName
      BY <1>1, <3>2, NameTaken
    <3> QED BY <3>3 DEF OwnName
  <2> QED BY <2>1, <2>2
<1>2. entries = <<>> => Listed(0)
  BY DEF Listed, From
<1> QED BY <1>1, <1>2, PackedType, EntryOfType, NameNone DEF Opened

(* A tar is to be read, a zip has the list.                                 *)
LEMMA ListOpen ==
    ASSUME ListInv, WholeStreams, Open PROVE ListInv'
<1>1. PICK a \in Archives :
         /\ packed' = a
         /\ IF Readable(a) /\ a.format = "zip"
            THEN /\ stage' = "place"
                 /\ entries' = [i \in DOMAIN a.headers |-> Entry(a.headers[i], a.headers[i].name, i)]
            ELSE /\ stage' = IF Readable(a) THEN "parse" ELSE "refused"
                 /\ UNCHANGED <<entries, disk>>
  BY DEF Open
<1>2. /\ stage = "idle" /\ UNCHANGED <<at, long, pax>> /\ at = 1 /\ entries = <<>>
      /\ long = NoName /\ pax = NoName /\ packed' # None
  BY <1>1, ArchiveAssumption DEF ArchiveAssumption, Open, ListInv
<1>0. Opened'
  BY OpenedHolds, PTL
<1>3. /\ packed'.headers \in Seq(Header) /\ Count' \in Nat
      /\ DOMAIN packed'.headers = 1 .. Count'
      /\ \A i \in 1 .. Count' : packed'.headers[i] \in Header
  BY <1>0, <1>1 DEF Opened
<1>4. CASE Readable(a) /\ a.format = "zip"
  <2>1. /\ entries' = [i \in 1 .. Count' |-> Entry(packed'.headers[i], packed'.headers[i].name, i)]
        /\ stage' = "place"
    BY <1>1, <1>3, <1>4
  <2>2. ASSUME NEW i \in 1 .. Count'
        PROVE  IsEntry(i)' /\ entries'[i] = EntryOf(i)' /\ entries'[i] \in EntryRecord
                /\ entries'[i].from = i
    <3>1. \A j \in 1 .. Count' : IsEntry(j)'
      BY <1>1, <1>3, <1>4, HeaderType, ArchiveAssumption DEF ArchiveAssumption, IsEntry
    <3>3. OwnName(i)' = packed'.headers[i].name
      BY <1>0, <1>3, <3>1 DEF Opened
    <3>4. entries'[i] = EntryOf(i)'
      BY <2>1, <3>3 DEF EntryOf
    <3>5. EntryOf(i)' \in EntryRecord /\ (EntryOf(i)').from = i
      BY <1>0, <1>1 DEF Opened
    <3> QED BY <3>1, <3>4, <3>5
  <2>3. entries' \in Seq(EntryRecord) /\ Len(entries') = Count'
    BY <1>3, <2>1, <2>2
  <2>4. AllListed'
    <3>1. PICK n \in Nat : n = Count'
      BY <1>3
    <3>2. Listed(n)'
      BY <2>2, <2>3, <3>1 DEF Listed, From
    <3> QED BY <3>1, <3>2 DEF AllListed
  <2> QED BY <1>1, <1>2, <2>1, <2>4, NoNameType DEF ListInv
<1>5. CASE Readable(a) /\ a.format # "zip"
  <2>1. stage' = "parse" /\ entries' = <<>>
    BY <1>1, <1>2, <1>5
  <2>2. Reading'
    <3>1. Listed(0)' /\ LastName(1, "L")' = NoName /\ LastName(1, "x")' = NoName
      BY <1>0, <2>1 DEF Opened
    <3>2. Read(0)'
      BY <1>2, <3>1 DEF Read
    <3> QED BY <1>3, <3>2 DEF Reading
  <2>3. Data(packed') = packed'.headers
    BY <1>1, <1>5 DEF WholeStreams
  <2> QED BY <1>1, <1>2, <2>1, <2>2, <2>3, NoNameType DEF ListInv
<1>6. CASE ~ Readable(a)
  <2>1. stage' = "refused"
    BY <1>1, <1>6
  <2> QED BY <1>1, <1>2, <2>1, NoNameType DEF ListInv
<1> QED BY <1>4, <1>5, <1>6

-----------------------------------------------------------------------------
(* The list follows from the archive.                                       *)
LEMMA ListedStays ==
    ASSUME UNCHANGED <<packed, entries>>, NEW n, Listed(n) PROVE Listed(n)'
  BY PackedStays DEF Listed, From

(* A header that is no entry only changes the names for the next one.       *)
LEMMA ReadName ==
    ASSUME packed \in Archives, NEW n \in Nat, Read(n), UNCHANGED <<packed, entries>>,
           ~ IsEntry(n + 1), at' = at + 1,
           \A t \in {"L", "x"} : LastName(n + 2, t) = IF t = "L" THEN long' ELSE pax'
    PROVE  Read(n + 1)'
<1>1. Listed(n + 1)
  <2>1. \A i \in 1 .. n + 1 : IsEntry(i) => i \in 1 .. n
    OBVIOUS
  <2>2. 1 .. n \subseteq 1 .. n + 1
    OBVIOUS
  <2> QED BY <2>1, <2>2 DEF Read, Listed
<1>2. Listed(n + 1)'
  BY <1>1, ListedStays
<1>3. long' = LastName(n + 2, "L") /\ pax' = LastName(n + 2, "x")
  OBVIOUS
<1>4. at' = n + 2 /\ n + 1 + 1 = n + 2
  BY DEF Read
<1>5. LastName(n + 2, "L")' = LastName(n + 2, "L") /\ LastName(n + 2, "x")' = LastName(n + 2, "x")
  BY PackedStays
<1> QED BY <1>2, <1>3, <1>4, <1>5 DEF Read

(* An entry is listed under the name that was given, and uses it up.        *)
LEMMA ReadEntry ==
    ASSUME packed \in Archives, NEW n \in 0 .. Count - 1, Read(n), UNCHANGED packed,
           IsEntry(n + 1), at' = at + 1, entries' = Append(entries, EntryOf(n + 1)),
           long' = NoName, pax' = NoName
    PROVE  Read(n + 1)'
<1>0. /\ Count \in Nat /\ n \in Nat /\ n + 1 \in 1 .. Count /\ entries \in Seq(EntryRecord)
      /\ EntryOf(n + 1) \in EntryRecord /\ EntryOf(n + 1).from = n + 1
  <2>1. Count \in Nat
    BY PackedType
  <2>2. n + 1 \in 1 .. Count
    BY <2>1
  <2> QED BY <2>1, <2>2, EntryOfType DEF Read, Listed
<1>m. PICK m : m = Len(entries)
  OBVIOUS
<1>1. /\ m \in Nat /\ entries' \in Seq(EntryRecord) /\ Len(entries') = m + 1
      /\ entries'[m + 1] = EntryOf(n + 1)
      /\ \A j \in 1 .. m : entries'[j] = entries[j]
  BY <1>0, <1>m
<1>2. /\ From(m + 1)' = n + 1 /\ \A j \in 1 .. m : From(j)' = From(j)
  BY <1>0, <1>1 DEF From
<1>3. /\ \A i : IsEntry(i)' = IsEntry(i) /\ EntryOf(i)' = EntryOf(i)
      /\ LastName(n + 2, "L")' = LastName(n + 2, "L") /\ LastName(n + 2, "x")' = LastName(n + 2, "x")
  BY PackedStays
<1>4. /\ \A j \in 1 .. m : From(j) \in 1 .. n /\ IsEntry(From(j)) /\ entries[j] = EntryOf(From(j))
      /\ \A j, l \in 1 .. m : j < l => From(j) < From(l)
      /\ \A i \in 1 .. n : IsEntry(i) => \E j \in 1 .. m : From(j) = i
  BY <1>m DEF Read, Listed
<1>5. \A j \in 1 .. m + 1 : j \in 1 .. m \/ j = m + 1
  BY <1>1
<1>6. \A i \in 1 .. n + 1 : i \in 1 .. n \/ i = n + 1
  BY <1>0
<1>7. ASSUME NEW j \in 1 .. m + 1
      PROVE  From(j)' \in 1 .. n + 1 /\ IsEntry(From(j)') /\ entries'[j] = EntryOf(From(j)')
  <2>1. CASE j \in 1 .. m
    BY <1>0, <1>1, <1>2, <1>4, <2>1
  <2>2. CASE j = m + 1
    BY <1>0, <1>1, <1>2, <2>2
  <2> QED BY <1>5, <2>1, <2>2
<1>8. ASSUME NEW j \in 1 .. m + 1, NEW l \in 1 .. m + 1, j < l PROVE From(j)' < From(l)'
  <2>1. j \in 1 .. m
    BY <1>1, <1>8
  <2>2. CASE l \in 1 .. m
    BY <1>2, <1>4, <1>8, <2>1, <2>2
  <2>3. CASE l = m + 1
    <3>1. From(j)' \in 1 .. n /\ From(l)' = n + 1
      BY <1>2, <1>4, <2>1, <2>3
    <3> QED BY <1>0, <3>1
  <2> QED BY <1>5, <2>2, <2>3
<1>9. ASSUME NEW i \in 1 .. n + 1, IsEntry(i) PROVE \E j \in 1 .. m + 1 : From(j)' = i
  <2>1. CASE i \in 1 .. n
    <3>1. PICK j \in 1 .. m : From(j) = i
      BY <1>4, <1>9, <2>1
    <3>2. j \in 1 .. m + 1 /\ From(j)' = i
      BY <1>1, <1>2, <3>1
    <3> QED BY <3>2
  <2>2. CASE i = n + 1
    <3>1. m + 1 \in 1 .. m + 1
      BY <1>1
    <3> QED BY <1>2, <2>2, <3>1
  <2> QED BY <1>6, <2>1, <2>2
<1>10. Listed(n + 1)'
  <2>1. \A j \in 1 .. Len(entries') : IsEntry(From(j))' /\ entries'[j] = EntryOf(From(j))'
    BY <1>1, <1>3, <1>7, PackedStays DEF IsEntry, EntryOf, From
  <2> QED BY <1>1, <1>3, <1>7, <1>8, <1>9, <2>1 DEF Listed
<1>11. LastName(n + 2, "L") = NoName /\ LastName(n + 2, "x") = NoName
  <2>1. n + 1 \in Nat \ {0} /\ n + 1 + 1 = n + 2
    BY <1>0
  <2>2. LastName(n + 1 + 1, "L") = NoName /\ LastName(n + 1 + 1, "x") = NoName
    BY <2>1, NameTaken
  <2> QED BY <2>1, <2>2
<1>12. at' = n + 1 + 1 /\ n + 1 + 1 = n + 2
  BY <1>0 DEF Read
<1> QED BY <1>3, <1>10, <1>11, <1>12 DEF Read

-----------------------------------------------------------------------------
(* Each header read extends the list.                                       *)
LEMMA ListParse ==
    ASSUME ListInv, ParseNext PROVE ListInv'
<1>1. /\ stage = "parse" /\ packed \in Archives /\ Data(packed) = packed.headers
      /\ at <= Count /\ Reading
  BY DEF ParseNext, ListInv, Count
<1>2. PICK n \in 0 .. Count : Read(n)
  BY <1>1 DEF Reading
<1>3. Count \in Nat
  BY <1>1, PackedType
<1>4. /\ n \in 0 .. Count - 1 /\ n \in Nat /\ at = n + 1 /\ n + 1 \in 1 .. Count /\ at \in Nat \ {0}
      /\ n + 1 \in 0 .. Count /\ n + 1 \in Nat \ {0} /\ n + 1 + 1 = n + 2
  BY <1>1, <1>2, <1>3 DEF Read
<1>5. PICK h : h = packed.headers[n + 1]
  OBVIOUS
<1>6. h \in Header /\ Data(packed)[at] = h
  BY <1>1, <1>4, <1>5, PackedType
<1>7. CASE Corrupt(h)
  BY <1>1, <1>7 DEF Corrupt, ListInv
<1>8. Corrupt(h) \/ LongName(h) \/ PaxHeader(h) \/ TarEntry(h)
  BY <1>6 DEF ParseNext
<1>9. /\ long = LastName(n + 1, "L") /\ pax = LastName(n + 1, "x")
      /\ long \in Names /\ pax \in Names
  BY <1>2 DEF Read, ListInv
<1>10. h.name \in Names
  BY <1>6, HeaderType
<1>11. ASSUME packed' = packed, stage' = "parse", Read(n + 1)', long' \in Names, pax' \in Names,
              at' = at + 1
       PROVE  ListInv'
  <2>1. Data(packed') = packed'.headers
    BY <1>1, <1>11
  <2>2. Reading'
    BY <1>4, <1>11, PackedStays DEF Reading
  <2> QED BY <1>1, <1>4, <1>11, <2>1, <2>2 DEF ListInv
<1>12. CASE LongName(h)
  <2>1. /\ h.type = "L" /\ long' = h.name /\ at' = at + 1 /\ UNCHANGED <<packed, stage, pax, entries>>
    BY <1>12 DEF LongName
  <2>2. ~ IsEntry(n + 1) /\ Gives(n + 1, "L") /\ ~ Gives(n + 1, "x")
    BY <1>5, <2>1 DEF IsEntry, Gives
  <2>3. LastName(n + 2, "L") = h.name /\ LastName(n + 2, "x") = pax
    BY <1>4, <1>5, <1>9, <2>2, NameGiven
  <2>4. \A t \in {"L", "x"} : LastName(n + 2, t) = IF t = "L" THEN long' ELSE pax'
    BY <2>1, <2>3
  <2>5. Read(n + 1)'
    BY <1>1, <1>2, <1>4, <2>1, <2>2, <2>4, ReadName
  <2> QED BY <1>1, <1>9, <1>10, <1>11, <2>1, <2>5
<1>13. CASE PaxHeader(h)
  <2>1. /\ h.type = "x" /\ pax' = (IF h.name = NoName THEN pax ELSE h.name) /\ at' = at + 1
        /\ UNCHANGED <<packed, stage, long, entries>>
    BY <1>13 DEF PaxHeader
  <2>2. ~ IsEntry(n + 1) /\ ~ Gives(n + 1, "L") /\ (Gives(n + 1, "x") <=> h.name # NoName)
    BY <1>5, <2>1 DEF IsEntry, Gives
  <2>3. LastName(n + 2, "L") = long /\ LastName(n + 2, "x") = pax'
    BY <1>4, <1>5, <1>9, <2>1, <2>2, NameGiven
  <2>4. \A t \in {"L", "x"} : LastName(n + 2, t) = IF t = "L" THEN long' ELSE pax'
    BY <2>1, <2>3
  <2>5. Read(n + 1)'
    BY <1>1, <1>2, <1>4, <2>1, <2>2, <2>4, ReadName
  <2>6. pax' \in Names
    BY <1>9, <1>10, <2>1
  <2> QED BY <1>1, <1>9, <1>11, <2>1, <2>5, <2>6
<1>14. CASE TarEntry(h)
  <2>1. /\ h.type \in {"file", "dir", "link"} /\ entries' = Append(entries, Entry(h, EntryName(h), at))
        /\ long' = NoName /\ pax' = NoName /\ at' = at + 1 /\ UNCHANGED <<packed, stage>>
    BY <1>14 DEF TarEntry
  <2>2. IsEntry(n + 1)
    BY <1>5, <2>1 DEF IsEntry
  <2>3. EntryName(h) = OwnName(n + 1)
    BY <1>5, <1>9 DEF EntryName, OwnName
  <2>4. Entry(h, EntryName(h), at) = EntryOf(n + 1)
    BY <1>4, <1>5, <2>3 DEF EntryOf
  <2>5. Read(n + 1)'
    BY <1>1, <1>2, <1>4, <2>1, <2>2, <2>4, ReadEntry
  <2> QED BY <1>1, <1>11, <2>1, <2>5, NoNameType
<1> QED BY <1>7, <1>8, <1>12, <1>13, <1>14

(* At the end of the tar all are listed.                                    *)
LEMMA ListEnds ==
    ASSUME ListInv, EndOfTar PROVE ListInv'
<1>1. /\ stage = "parse" /\ packed \in Archives /\ Data(packed) = packed.headers
      /\ at > Count /\ Reading /\ stage' = "place" /\ at' = 1 /\ UNCHANGED <<packed, long, pax, entries>>
  BY DEF EndOfTar, ListInv, Count
<1>2. PICK n \in 0 .. Count : Read(n)
  BY <1>1 DEF Reading
<1>3. Count \in Nat
  BY <1>1, PackedType
<1>4. n = Count /\ n \in Nat /\ Listed(n)
  BY <1>1, <1>2, <1>3 DEF Read
<1>5. AllListed'
  BY <1>1, <1>4, ListedStays, PackedStays DEF AllListed
<1> QED BY <1>1, <1>5 DEF ListInv

(* Nothing but what is read changes the list.                               *)
LEMMA ListKept ==
    ASSUME ListInv, UNCHANGED <<packed, long, pax, entries>>,
           \/ stage' = stage /\ at' = at
           \/ /\ stage \in {"place", "unpacked"} /\ stage' \in {"place", "unpacked", "refused"}
              /\ at' \in {at, at + 1}
    PROVE  ListInv'
<1>1. AllListed => AllListed'
  BY ListedStays, PackedStays DEF AllListed
<1>2. CASE stage' = stage /\ at' = at
  <2>1. ASSUME NEW n, Read(n) PROVE Read(n)'
    BY <1>2, <2>1, ListedStays, PackedStays DEF Read
  <2>2. Reading => Reading'
    BY <2>1, PackedStays DEF Reading
  <2>3. Data(packed') = Data(packed)
    OBVIOUS
  <2> QED BY <1>1, <1>2, <2>2, <2>3 DEF ListInv
<1>3. CASE /\ stage \in {"place", "unpacked"} /\ stage' \in {"place", "unpacked", "refused"}
           /\ at' \in {at, at + 1}
  BY <1>1, <1>3 DEF ListInv
<1> QED BY <1>2, <1>3

(* Placing reads nothing.                                                   *)
LEMMA PlaceKeeps ==
    ASSUME PlaceNext \/ AllPlaced
    PROVE  /\ UNCHANGED <<packed, long, pax, entries>>
           /\ stage = "place" /\ stage' \in {"place", "unpacked", "refused"}
           /\ at' \in {at, at + 1}
<1>1. ASSUME NEW e, NEW r, \/ RefuseEntry(e, r) \/ SkipEntry(e, r) \/ PlaceDir(e, r)
                           \/ PlaceFile(e, r) \/ PlaceFails(e, r) \/ PlaceTorn(e, r)
      PROVE  /\ UNCHANGED <<packed, long, pax, entries>>
             /\ stage = "place" /\ stage' \in {"place", "unpacked", "refused"}
             /\ at' \in {at, at + 1}
  BY <1>1 DEF RefuseEntry, SkipEntry, PlaceDir, PlaceFile, PlaceFails, PlaceTorn, Placing, Placed
<1>2. CASE PlaceNext
  BY <1>1, <1>2 DEF PlaceNext
<1>3. CASE AllPlaced
  BY <1>3 DEF AllPlaced
<1> QED BY <1>2, <1>3

(* Every step keeps what is listed.                                         *)
LEMMA ListStep ==
    ASSUME WholeStreams, ListInv, [ArchiveNext]_<<vars, avars>> PROVE ListInv'
<1>1. CASE UNCHANGED avars
  BY <1>1, ListKept DEF avars
<1>2. CASE Open
  BY <1>2, ListOpen
<1>3. CASE ParseNext
  BY <1>3, ListParse
<1>4. CASE EndOfTar
  BY <1>4, ListEnds
<1>5. CASE PlaceNext \/ AllPlaced
  BY <1>5, PlaceKeeps, ListKept
<1> QED BY <1>1, <1>2, <1>3, <1>4, <1>5 DEF ArchiveNext

-----------------------------------------------------------------------------
(* Making directories changes no file; writing a file changes that one.     *)
LEMMA DirsOf ==
    ASSUME NEW d, NEW path
    PROVE  /\ DOMAIN d \subseteq DOMAIN MakeDirs(d, path)
           /\ \A p \in DOMAIN d : MakeDirs(d, path)[p] = d[p]
           /\ \A p \in DOMAIN MakeDirs(d, path) \ DOMAIN d : MakeDirs(d, path)[p] = Dir
<1> DEFINE way == Parents(path) \cup {path}
<1>1. CASE \E p \in way : IsFile(d, p)
  BY <1>1 DEF MakeDirs
<1>2. CASE ~ \E p \in way : IsFile(d, p)
  <2>1. MakeDirs(d, path) = [p \in DOMAIN d \cup way |-> IF p \in DOMAIN d THEN d[p] ELSE Dir]
    BY <1>2 DEF MakeDirs
  <2> QED BY <2>1
<1> QED BY <1>1, <1>2

(* What a step leaves: the same files, or one more.                         *)
Stores(p) == p \in DOMAIN disk /\ disk[p] # Dir

SameFiles == \A p : Stores(p)' = Stores(p) /\ (Stores(p) => disk'[p] = disk[p])

OneMore(rel, v) == /\ v # Dir /\ Stores(rel)' /\ disk'[rel] = v
                   /\ \A p : p # rel => Stores(p)' = Stores(p) /\ (Stores(p) => disk'[p] = disk[p])

LEMMA DirsStore ==
    ASSUME NEW path, disk' = MakeDirs(disk, path) PROVE SameFiles
  BY DirsOf DEF SameFiles, Stores

LEMMA FileStores ==
    ASSUME NEW path, NEW rel, NEW v, v # Dir, disk' = Write(MakeDirs(disk, path), rel, v)
    PROVE  OneMore(rel, v)
<1>1. PICK d : d = MakeDirs(disk, path)
  OBVIOUS
<1>2. disk' = Write(d, rel, v)
  BY <1>1
<1>3. /\ DOMAIN disk' = DOMAIN d \cup {rel} /\ disk'[rel] = v
      /\ \A p \in DOMAIN d : p # rel => disk'[p] = d[p]
  BY <1>2 DEF Write
<1>4. /\ DOMAIN disk \subseteq DOMAIN d
      /\ \A p \in DOMAIN disk : d[p] = disk[p]
      /\ \A p \in DOMAIN d \ DOMAIN disk : d[p] = Dir
  BY <1>1, DirsOf
<1> QED BY <1>3, <1>4 DEF OneMore, Stores

-----------------------------------------------------------------------------
(* The first n entries are placed: the files are theirs, the last one of a  *)
(* name winning.                                                            *)
Rel(j)    == Relative(entries[j].name)
FileAt(j) == Rel(j) # <<>> /\ ~ entries[j].dir
Flushed   == IF "flush" \in Faults THEN {Torn} ELSE {}

PlacedTo(n) ==
    /\ \A j \in 1 .. n : ~ Refused(entries[j], Rel(j))
    /\ \A p : Stores(p) <=> \E j \in 1 .. n : FileAt(j) /\ Rel(j) = p
    /\ \A j \in 1 .. n : FileAt(j) /\ (\A l \in j + 1 .. n : FileAt(l) => Rel(l) # Rel(j))
                         => disk[Rel(j)] \in {From(j)} \cup Flushed

(* What is on disk at each stage.                                           *)
PlaceInv ==
    /\ stage = "place" => \E n \in 0 .. Len(entries) : at = n + 1 /\ PlacedTo(n)
    /\ stage = "unpacked" => \E n \in Nat : n = Len(entries) /\ PlacedTo(n)
    /\ stage = "idle" => disk = <<>>
    /\ \A p \in DOMAIN disk : disk[p] = Torn \/ disk[p] \in 0 .. Count

(* What an entry is, and where it goes, is fixed by the list.               *)
LEMMA EntriesStay ==
    ASSUME UNCHANGED <<packed, entries>>
    PROVE  \A j : /\ Rel(j)' = Rel(j) /\ FileAt(j)' = FileAt(j) /\ From(j)' = From(j)
                  /\ Refused(entries[j], Rel(j))' = Refused(entries[j], Rel(j))
<1>1. find_common_top' = find_common_top
  BY DEF find_common_top
<1>2. \A name : Relative(name)' = Relative(name)
  BY <1>1 DEF Relative, Strip
<1>3. \A j : Rel(j)' = Rel(j)
  BY <1>2 DEF Rel
<1>4. \A j : entries'[j] = entries[j]
  OBVIOUS
<1> QED BY <1>3, <1>4 DEF FileAt, From, Refused, Damaged

(* An entry that writes no file leaves the files as they are.               *)
LEMMA PlacedSame ==
    ASSUME UNCHANGED <<packed, entries>>, NEW n \in Nat, PlacedTo(n), SameFiles,
           ~ Refused(entries[n + 1], Rel(n + 1)), ~ FileAt(n + 1)
    PROVE  PlacedTo(n + 1)'
<1>1. \A j \in 1 .. n + 1 : j \in 1 .. n \/ j = n + 1
  OBVIOUS
<1>2. \A j \in 1 .. n : j \in 1 .. n + 1 /\ \A l \in j + 1 .. n : l \in j + 1 .. n + 1
  OBVIOUS
<1>3. ASSUME NEW j \in 1 .. n + 1 PROVE ~ Refused(entries[j], Rel(j))'
  BY <1>1, EntriesStay DEF PlacedTo
<1>4. ASSUME NEW p PROVE Stores(p)' <=> \E j \in 1 .. n + 1 : FileAt(j)' /\ Rel(j)' = p
  BY <1>1, <1>2, EntriesStay DEF PlacedTo, SameFiles
<1>5. ASSUME NEW j \in 1 .. n + 1, FileAt(j)',
             \A l \in j + 1 .. n + 1 : FileAt(l)' => Rel(l)' # Rel(j)'
      PROVE  disk'[Rel(j)'] \in {From(j)'} \cup Flushed
  <2>1. j \in 1 .. n /\ FileAt(j)
    BY <1>1, <1>5, EntriesStay
  <2>2. \A l \in j + 1 .. n : FileAt(l) => Rel(l) # Rel(j)
    BY <1>2, <1>5, <2>1, EntriesStay
  <2>3. disk[Rel(j)] \in {From(j)} \cup Flushed
    BY <2>1, <2>2 DEF PlacedTo
  <2>4. Stores(Rel(j))
    BY <2>1 DEF PlacedTo
  <2> QED BY <2>3, <2>4, EntriesStay DEF SameFiles
<1>6. ASSUME NEW j \in 1 .. n + 1
      PROVE  /\ ~ Refused(entries[j], Rel(j))'
             /\ (FileAt(j) /\ (\A l \in j + 1 .. n + 1 : FileAt(l) => Rel(l) # Rel(j)))'
                => (disk[Rel(j)] \in {From(j)} \cup Flushed)'
  BY <1>3, <1>5 DEF Flushed
<1> QED BY <1>4, <1>6 DEF PlacedTo

(* An entry that writes a file adds it, or takes the place of the one before*)
(* of its name.                                                             *)
LEMMA PlacedOne ==
    ASSUME UNCHANGED <<packed, entries>>, NEW n \in Nat, PlacedTo(n),
           ~ Refused(entries[n + 1], Rel(n + 1)), FileAt(n + 1),
           NEW v \in {From(n + 1)} \cup Flushed, OneMore(Rel(n + 1), v)
    PROVE  PlacedTo(n + 1)'
<1>1. \A j \in 1 .. n + 1 : j \in 1 .. n \/ j = n + 1
  OBVIOUS
<1>2. /\ n + 1 \in 1 .. n + 1
      /\ \A j \in 1 .. n : /\ j \in 1 .. n + 1 /\ n + 1 \in j + 1 .. n + 1
                           /\ \A l \in j + 1 .. n : l \in j + 1 .. n + 1
  OBVIOUS
<1>3. ASSUME NEW j \in 1 .. n + 1 PROVE ~ Refused(entries[j], Rel(j))'
  BY <1>1, EntriesStay DEF PlacedTo
<1>4. ASSUME NEW p PROVE Stores(p)' <=> \E j \in 1 .. n + 1 : FileAt(j)' /\ Rel(j)' = p
  <2>1. CASE p = Rel(n + 1)
    BY <1>2, <2>1, EntriesStay DEF OneMore
  <2>2. CASE p # Rel(n + 1)
    BY <1>1, <1>2, <2>2, EntriesStay DEF PlacedTo, OneMore
  <2> QED BY <2>1, <2>2
<1>5. ASSUME NEW j \in 1 .. n + 1, FileAt(j)',
             \A l \in j + 1 .. n + 1 : FileAt(l)' => Rel(l)' # Rel(j)'
      PROVE  disk'[Rel(j)'] \in {From(j)'} \cup Flushed
  <2>1. CASE j = n + 1
    BY <2>1, EntriesStay DEF OneMore
  <2>2. CASE j \in 1 .. n
    <3>1. FileAt(j) /\ Rel(n + 1) # Rel(j)
      BY <1>2, <1>5, <2>2, EntriesStay
    <3>2. \A l \in j + 1 .. n : FileAt(l) => Rel(l) # Rel(j)
      BY <1>2, <1>5, <2>2, EntriesStay
    <3>3. disk[Rel(j)] \in {From(j)} \cup Flushed /\ Stores(Rel(j))
      BY <2>2, <3>1, <3>2 DEF PlacedTo
    <3> QED BY <3>1, <3>3, EntriesStay DEF OneMore
  <2> QED BY <1>1, <2>1, <2>2
<1>6. ASSUME NEW j \in 1 .. n + 1
      PROVE  /\ ~ Refused(entries[j], Rel(j))'
             /\ (FileAt(j) /\ (\A l \in j + 1 .. n + 1 : FileAt(l) => Rel(l) # Rel(j)))'
                => (disk[Rel(j)] \in {From(j)} \cup Flushed)'
  BY <1>3, <1>5 DEF Flushed
<1> QED BY <1>4, <1>6 DEF PlacedTo

-----------------------------------------------------------------------------
(* What is on disk is a directory, a header's content, or torn.             *)
Sane(d) == \A p \in DOMAIN d : d[p] = Torn \/ d[p] \in 0 .. Count

LEMMA DirsSane ==
    ASSUME Count \in Nat, NEW d, Sane(d), NEW path PROVE Sane(MakeDirs(d, path))
<1>1. Dir \in 0 .. Count
  BY DEF Dir
<1> QED BY <1>1, DirsOf DEF Sane

LEMMA WriteSane ==
    ASSUME Count \in Nat, NEW d, Sane(d), NEW path, NEW v, v = Torn \/ v \in 1 .. Count
    PROVE  Sane(Write(d, path, v))
<1>1. v = Torn \/ v \in 0 .. Count
  OBVIOUS
<1> QED BY <1>1 DEF Sane, Write

(* Nothing is on disk before.                                               *)
LEMMA PlaceStart == ArchiveInit => PlaceInv
<1>1. DOMAIN <<>> = {}
  OBVIOUS
<1> QED BY <1>1 DEF ArchiveInit, PlaceInv

(* No entry is placed in the empty destination.                             *)
LEMMA RootPlaced ==
    ASSUME disk' = Root PROVE PlacedTo(0)'
<1>1. \A p : ~ Stores(p)'
  BY DEF Stores, Root, Dir
<1>2. 1 .. 0 = {}
  OBVIOUS
<1> QED BY <1>1, <1>2 DEF PlacedTo

LEMMA RootSane == ASSUME Count' \in Nat, disk' = Root PROVE Sane(disk)'
<1>1. Dir \in 0 .. Count'
  BY DEF Dir
<1> QED BY <1>1 DEF Sane, Root

(* The steps: a zip is opened,                                              *)
LEMMA PlaceOpen ==
    ASSUME ListInv, PlaceInv, Open PROVE PlaceInv'
<1>1. PICK a \in Archives :
         /\ packed' = a
         /\ IF Readable(a) /\ a.format = "zip"
            THEN stage' = "place" /\ disk' = Root
                 /\ entries' = [i \in DOMAIN a.headers |-> Entry(a.headers[i], a.headers[i].name, i)]
            ELSE /\ stage' = IF Readable(a) THEN "parse" ELSE "refused"
                 /\ UNCHANGED <<entries, disk>>
  BY DEF Open
<1>2. stage = "idle" /\ at' = at /\ at = 1 /\ disk = <<>>
  BY DEF Open, ListInv, PlaceInv
<1>3. Opened'
  BY OpenedHolds, PTL
<1>4. Count' \in Nat
  BY <1>1, <1>3 DEF Opened
<1>5. CASE Readable(a) /\ a.format = "zip"
  <2>1. disk' = Root /\ stage' = "place" /\ entries' \in Seq({entries'[i] : i \in 1 .. Count'})
    <3>1. DOMAIN a.headers = 1 .. Count'
      BY <1>1, <1>3 DEF Opened
    <3> QED BY <1>1, <1>4, <1>5, <3>1
  <2>2. PlacedTo(0)' /\ Sane(disk)'
    BY <1>4, <2>1, RootPlaced, RootSane
  <2>3. Len(entries') \in Nat
    BY <2>1
  <2> QED BY <1>2, <2>1, <2>2, <2>3 DEF PlaceInv, Sane
<1>6. CASE ~ (Readable(a) /\ a.format = "zip")
  <2>1. disk' = <<>> /\ stage' \in {"parse", "refused"} /\ DOMAIN <<>> = {}
    BY <1>1, <1>2, <1>6
  <2> QED BY <2>1 DEF PlaceInv
<1> QED BY <1>5, <1>6

(* a tar is read,                                                           *)
LEMMA PlaceParse ==
    ASSUME ListInv, PlaceInv, ParseNext PROVE PlaceInv'
<1>1. stage' \in {"parse", "refused"} /\ disk' = disk /\ packed' = packed
  BY DEF ParseNext, Parsing, Corrupt, LongName, PaxHeader, TarEntry
<1> QED BY <1>1, PackedStays DEF PlaceInv

(* to its end,                                                              *)
LEMMA PlaceEnds ==
    ASSUME ListInv, PlaceInv, EndOfTar PROVE PlaceInv'
<1>1. stage' = "place" /\ at' = 1 /\ disk' = Root /\ packed' = packed /\ packed \in Archives
  BY DEF EndOfTar, ListInv
<1>2. Count' \in Nat
  BY <1>1, PackedType, PackedStays
<1>3. PlacedTo(0)' /\ Sane(disk)'
  BY <1>1, <1>2, RootPlaced, RootSane
<1>4. Len(entries') \in Nat
  <2>1. Reading
    BY DEF EndOfTar, ListInv
  <2>2. entries \in Seq(EntryRecord) /\ entries' = entries
    BY <2>1 DEF Reading, Read, Listed, EndOfTar
  <2> QED BY <2>2
<1> QED BY <1>1, <1>3, <1>4 DEF PlaceInv, Sane

(* the last entry is placed,                                                *)
LEMMA PlaceAll ==
    ASSUME ListInv, PlaceInv, AllPlaced PROVE PlaceInv'
<1>1. stage = "place" /\ stage' = "unpacked" /\ UNCHANGED <<packed, at, entries, disk>>
  BY DEF AllPlaced
<1>2. Len(entries) \in Nat
  BY <1>1 DEF ListInv, AllListed, Listed
<1>3. PICK n \in 0 .. Len(entries) : at = n + 1 /\ PlacedTo(n)
  BY <1>1 DEF PlaceInv
<1>4. n \in Nat /\ n = Len(entries)
  BY <1>2, <1>3 DEF AllPlaced
<1>5. \A j : /\ Rel(j)' = Rel(j) /\ FileAt(j)' = FileAt(j) /\ From(j)' = From(j)
             /\ Refused(entries[j], Rel(j))' = Refused(entries[j], Rel(j))
  BY <1>1, EntriesStay
<1>6. PlacedTo(n)'
  BY <1>1, <1>3, <1>5 DEF PlacedTo, Stores, Flushed
<1> QED BY <1>1, <1>4, <1>6, PackedStays DEF PlaceInv

(* an entry is placed, or is not.                                           *)
LEMMA PlaceOne ==
    ASSUME ListInv, PlaceInv, PlaceNext PROVE PlaceInv'
<1>1. stage = "place" /\ packed \in Archives /\ Count \in Nat
  BY PackedType DEF PlaceNext, ListInv
<1>2. entries \in Seq(EntryRecord) /\ \A j \in 1 .. Len(entries) : From(j) \in 1 .. Count
  BY <1>1 DEF ListInv, AllListed, Listed
<1>3. PICK n \in 0 .. Len(entries) : at = n + 1 /\ PlacedTo(n)
  BY <1>1 DEF PlaceInv
<1>4. n \in Nat /\ at \in 1 .. Len(entries) /\ n + 1 \in 0 .. Len(entries)
  BY <1>2, <1>3 DEF PlaceNext
<1>5. PICK e, rel : /\ e = entries[at] /\ rel = Relative(entries[at].name)
                    /\ \/ RefuseEntry(e, rel) \/ SkipEntry(e, rel) \/ PlaceDir(e, rel)
                       \/ PlaceFile(e, rel) \/ PlaceFails(e, rel) \/ PlaceTorn(e, rel)
  BY DEF PlaceNext
<1>6. e = entries[n + 1] /\ rel = Rel(n + 1) /\ e.from = From(n + 1) /\ e.from \in 1 .. Count
  BY <1>2, <1>3, <1>4, <1>5 DEF Rel, From
<1>7. UNCHANGED <<packed, entries>>
  BY <1>5 DEF RefuseEntry, SkipEntry, PlaceDir, PlaceFile, PlaceFails, PlaceTorn, Placed
<1>8. Sane(disk) /\ Count' = Count
  BY <1>7, PackedStays DEF PlaceInv, Sane
<1>9. ASSUME Placed, PlacedTo(n + 1)', Sane(disk') PROVE PlaceInv'
  <2>1. at' = n + 1 + 1 /\ stage' = "place" /\ entries' = entries
    BY <1>1, <1>3, <1>9 DEF Placed
  <2> QED BY <1>4, <1>8, <1>9, <2>1 DEF PlaceInv, Sane
<1>10. CASE RefuseEntry(e, rel)
  BY <1>8, <1>10 DEF RefuseEntry, PlaceInv, Sane
<1>11. CASE SkipEntry(e, rel)
  <2>1. Placed /\ disk' = disk /\ ~ Refused(e, rel) /\ rel = <<>>
    BY <1>11 DEF SkipEntry
  <2>2. SameFiles
    BY <2>1 DEF SameFiles, Stores
  <2>3. ~ Refused(entries[n + 1], Rel(n + 1)) /\ ~ FileAt(n + 1)
    BY <1>6, <2>1 DEF FileAt
  <2> QED BY <1>3, <1>4, <1>7, <1>8, <1>9, <2>1, <2>2, <2>3, PlacedSame
<1>12. CASE PlaceDir(e, rel)
  <2>1. Placed /\ disk' = MakeDirs(disk, rel) /\ ~ Refused(e, rel) /\ e.dir
    BY <1>12 DEF PlaceDir
  <2>2. SameFiles
    BY <2>1, DirsStore
  <2>3. ~ Refused(entries[n + 1], Rel(n + 1)) /\ ~ FileAt(n + 1)
    BY <1>6, <2>1 DEF FileAt
  <2>4. Sane(disk')
    BY <1>1, <1>8, <2>1, DirsSane
  <2> QED BY <1>3, <1>4, <1>7, <1>8, <1>9, <2>1, <2>2, <2>3, <2>4, PlacedSame
<1>13. ASSUME Placed, ~ Refused(e, rel), rel # <<>>, ~ e.dir,
              NEW v \in {From(n + 1)} \cup Flushed, disk' = Write(MakeDirs(disk, Front(rel)), rel, v)
       PROVE  PlaceInv'
  <2>1. v = Torn \/ v \in 1 .. Count
    BY <1>6, <1>13 DEF Flushed
  <2>2. v # Dir
    BY <2>1 DEF Dir, Torn
  <2>3. OneMore(Rel(n + 1), v)
    BY <1>6, <1>13, <2>2, FileStores
  <2>4. ~ Refused(entries[n + 1], Rel(n + 1)) /\ FileAt(n + 1)
    BY <1>6, <1>13 DEF FileAt
  <2>5. Sane(disk')
    BY <1>1, <1>8, <1>13, <2>1, DirsSane, WriteSane
  <2>6. PlacedTo(n + 1)'
    BY <1>3, <1>4, <1>7, <2>3, <2>4, PlacedOne
  <2> QED BY <1>9, <1>13, <2>5, <2>6
<1>14. CASE PlaceFile(e, rel)
  <2>1. /\ Placed /\ ~ Refused(e, rel) /\ rel # <<>> /\ ~ e.dir
        /\ disk' = Write(MakeDirs(disk, Front(rel)), rel, e.from)
    BY <1>14 DEF PlaceFile
  <2> QED BY <1>6, <1>13, <2>1
<1>15. CASE PlaceTorn(e, rel)
  <2>1. /\ Placed /\ ~ Refused(e, rel) /\ rel # <<>> /\ ~ e.dir
        /\ disk' = Write(MakeDirs(disk, Front(rel)), rel, Torn) /\ Torn \in Flushed
    BY <1>15 DEF PlaceTorn, Flushed
  <2> QED BY <1>13, <2>1
<1>16. CASE PlaceFails(e, rel)
  <2>1. /\ stage' = "refused"
        /\ \/ disk' = MakeDirs(disk, Front(rel))
           \/ disk' = Write(MakeDirs(disk, Front(rel)), rel, Torn)
    BY <1>16 DEF PlaceFails
  <2>2. Sane(disk')
    BY <1>1, <1>8, <2>1, DirsSane, WriteSane
  <2> QED BY <1>8, <2>1, <2>2 DEF PlaceInv, Sane
<1> QED BY <1>5, <1>10, <1>11, <1>12, <1>14, <1>15, <1>16

LEMMA PlaceHeld ==
    ASSUME PlaceInv, UNCHANGED avars PROVE PlaceInv'
<1>1. UNCHANGED <<packed, stage, at, entries, disk>>
  BY DEF avars
<1>2. \A n : PlacedTo(n)' = PlacedTo(n)
  BY <1>1, EntriesStay DEF PlacedTo, Stores, Flushed
<1> QED BY <1>1, <1>2, PackedStays DEF PlaceInv

(* Every step keeps what is placed.                                         *)
LEMMA PlaceStep ==
    ASSUME ListInv, PlaceInv, [ArchiveNext]_<<vars, avars>> PROVE PlaceInv'
<1>1. UNCHANGED avars \/ Open \/ ParseNext \/ EndOfTar \/ PlaceNext \/ AllPlaced
  BY DEF ArchiveNext
<1> QED BY <1>1, PlaceHeld, PlaceOpen, PlaceParse, PlaceEnds, PlaceOne, PlaceAll

-----------------------------------------------------------------------------
(* Names. Strings are dear to the provers: they see S for the set of        *)
(* segments.                                                                *)
LEMMA SeqFacts ==
    ASSUME NEW S, NEW n \in Seq(S), n # <<>>
    PROVE  /\ Len(n) \in Nat \ {0} /\ DOMAIN n = 1 .. Len(n)
           /\ Head(n) = n[1] /\ Last(n) = n[Len(n)]
           /\ SubSeq(n, 1, Len(n)) = n /\ Tail(n) = SubSeq(n, 2, Len(n))
           /\ Len(n) = 1 => n = <<n[1]>>
<1>1. Len(n) \in Nat \ {0} /\ DOMAIN n = 1 .. Len(n)
  OBVIOUS
<1>2. Head(n) = n[1]
  OBVIOUS
<1>3. Last(n) = n[Len(n)]
  BY Zenon DEF Last
<1>4. SubSeq(n, 1, Len(n)) = n
  BY <1>1
<1>5. Tail(n) = SubSeq(n, 2, Len(n))
  BY <1>1
<1>6. Len(n) = 1 => n = <<n[1]>>
  OBVIOUS
<1> QED BY <1>1, <1>2, <1>3, <1>4, <1>5, <1>6, Zenon

LEMMA NameType ==
    ASSUME NEW n \in Names
    PROVE  /\ Len(n) \in Nat \ {0} /\ DOMAIN n = 1 .. Len(n)
           /\ Head(n) = n[1] /\ Last(n) = n[Len(n)]
           /\ SubSeq(n, 1, Len(n)) = n /\ Tail(n) = SubSeq(n, 2, Len(n))
           /\ Len(n) = 1 => n = <<n[1]>>
<1>1. PICK S : S = {"", "t", "u", "a", "b", "..", "c:"}
  OBVIOUS
<1>2. n \in Seq(S) /\ n # <<>>
  BY <1>1, Zenon DEF Names
<1> QED BY <1>2, SeqFacts, Zenon

LEMMA NoNameIs == Len(NoName) = 1 /\ DOMAIN NoName = {1} /\ NoName[1] = "" /\ Head(NoName) = "" /\ Last(NoName) = ""
<1>1. Len(NoName) = 1 /\ DOMAIN NoName = {1} /\ NoName[1] = "" /\ Head(NoName) = ""
  BY DEF NoName
<1>2. Last(NoName) = NoName[Len(NoName)]
  BY Zenon DEF Last
<1> QED BY <1>1, <1>2, Zenon

(* A name less its first segments, when it does not end in a slash, has no *)
(* slash to trim.                                                           *)
LEMMA SeqNotEmpty == ASSUME NEW S, NEW r \in Seq(S), Len(r) # 0 PROVE r # <<>> /\ DOMAIN r = 1 .. Len(r)
  OBVIOUS

LEMMA Suffix ==
    ASSUME NEW S, NEW n \in Seq(S), NEW a \in 1 .. Len(n), NEW r, r = SubSeq(n, a, Len(n))
    PROVE  /\ r \in Seq(S) /\ r # <<>> /\ Len(r) \in Nat \ {0} /\ DOMAIN r = 1 .. Len(r)
           /\ r[Len(r)] = n[Len(n)]
<1>1. PICK l : l = Len(n)
  OBVIOUS
<1>2. a \in Int /\ l \in Int /\ a <= l
  BY <1>1
<1>3. \A i \in a .. l : n[i] \in S
  BY <1>1
<1>4. r = SubSeq(n, a, l)
  BY <1>1
<1>5. /\ SubSeq(n, a, l) \in Seq(S)
      /\ Len(SubSeq(n, a, l)) = IF a <= l THEN l - a + 1 ELSE 0
      /\ \A i \in 1 .. l - a + 1 : SubSeq(n, a, l)[i] = n[a + i - 1]
  BY <1>2, <1>3, SubSeqProperties
<1>6. r \in Seq(S) /\ Len(r) = l - a + 1 /\ \A i \in 1 .. l - a + 1 : r[i] = n[a + i - 1]
  BY <1>2, <1>4, <1>5, Zenon
<1>7. Len(r) \in Nat \ {0} /\ Len(r) \in 1 .. l - a + 1 /\ a + Len(r) - 1 = l
  BY <1>2, <1>6
<1>8. r[Len(r)] = n[l]
  BY <1>6, <1>7, Zenon
<1>9. r # <<>> /\ DOMAIN r = 1 .. Len(r)
  <2>1. r \in Seq(S) /\ Len(r) # 0
    BY <1>6, <1>7, Zenon
  <2> QED BY <2>1, SeqNotEmpty, Zenon
<1> QED BY <1>1, <1>6, <1>7, <1>8, <1>9, Zenon

LEMMA NothingToTrim ==
    ASSUME NEW S, NEW n \in Seq(S), NEW a \in 1 .. Len(n), n[Len(n)] # NoTop,
           NEW r, r = SubSeq(n, a, Len(n))
    PROVE  Trim(r) = r /\ r # <<>>
<1>1. /\ r \in Seq(S) /\ r # <<>> /\ Len(r) \in Nat \ {0} /\ DOMAIN r = 1 .. Len(r)
      /\ r[Len(r)] = n[Len(n)]
  BY Suffix, Zenon
<1>2. Max({0} \cup {i \in DOMAIN r : r[i] # NoTop}) = Len(r)
  <2>1. PICK T : T = {0} \cup {i \in DOMAIN r : r[i] # NoTop}
    OBVIOUS
  <2>2. PICK l \in Nat \ {0} : l = Len(r)
    BY <1>1
  <2>3. DOMAIN r = 1 .. l /\ r[l] # NoTop
    BY <1>1, <2>2, Zenon
  <2>4. l \in T
    BY <2>1, <2>3
  <2>5. T \in SUBSET (0 .. l)
    BY <2>1, <2>3
  <2>6. Max(T) = l
    <3>1. \A y \in T : y <= l
      BY <2>5
    <3> QED BY <2>4, <2>5, <3>1, MaxIs
  <2> QED BY <2>1, <2>2, <2>6, Zenon
<1>3. SubSeq(r, 1, Len(r)) = r
  BY <1>1, SeqFacts, Zenon
<1>4. Trim(r) = r
  BY <1>2, <1>3, Zenon DEF Trim, NoTop
<1> QED BY <1>1, <1>4, Zenon

(* An entry without a name goes nowhere.                                    *)
LEMMA NoNameTrimmed == Trim(NoName) = <<>>
<1>1. {0} \cup {i \in DOMAIN NoName : NoName[i] # ""} = {0}
  BY NoNameIs, Zenon
<1>2. Max({0}) = 0
  BY MaxIs
<1>3. SubSeq(NoName, 1, 0) = <<>>
  BY DEF NoName
<1> QED BY <1>1, <1>2, <1>3 DEF Trim

(* The top directory that all names share, if there is one.                 *)
Shared == \E t \in {Head(n) : n \in PackedNames} \ {""} : \A n \in PackedNames : Len(n) > 1 /\ Head(n) = t

Tops == {first_segment(n) : n \in PackedNames}

TopIsShared ==
    find_common_top = IF \E t \in Tops : Tops = {t} THEN CHOOSE t \in Tops : TRUE ELSE NoTop

(* A name that ends in a slash.                                             *)
Slashed(name) == Last(name) = NoTop

LEMMA EntryFields ==
    ASSUME NEW h, NEW name, NEW i
    PROVE  \A e : e = Entry(h, name, i) =>
              /\ e.name = name /\ e.sound = h.sound /\ e.from = i
              /\ e.link = (h.type = "link")
              /\ e.dir = (h.type = "dir" \/ (name # NoName /\ Slashed(name)))
<1>1. LET e == Entry(h, name, i)
      IN  /\ e.name = name /\ e.sound = h.sound /\ e.from = i
          /\ e.link = (h.type = "link")
          /\ e.dir = (h.type = "dir" \/ (name # NoName /\ Slashed(name)))
  BY Zenon DEF Entry, Slashed, NoTop
<1> QED BY <1>1

LEMMA NextOf == \A d \in {0, 1} : \A l \in Nat : d < l => d + 1 \in 1 .. l
  OBVIOUS

(* Nothing damaged is placed, so find_common_top sees the names of all      *)
(* entries.                                                                 *)
LEMMA NamesPlaced ==
    ASSUME packed \in Archives, Listed(Count), NEW m, m = Len(entries), PlacedTo(m)
    PROVE  /\ PackedNames \subseteq Names
           /\ TopIsShared
<1>1. /\ entries \in Seq(EntryRecord) /\ m \in Nat /\ DOMAIN entries = 1 .. m
      /\ DOMAIN packed.headers = 1 .. Count
      /\ \A j \in 1 .. m : From(j) \in 1 .. Count /\ IsEntry(From(j)) /\ entries[j] = EntryOf(From(j))
      /\ \A i \in 1 .. Count : IsEntry(i) => \E j \in 1 .. m : From(j) = i
  BY PackedType DEF Listed
<1>2. \A j \in 1 .. m : entries[j].name = OwnName(From(j)) /\ entries[j].sound # "header"
  <2> TAKE j \in 1 .. m
  <2>1. entries[j] = Entry(packed.headers[From(j)], OwnName(From(j)), From(j))
    BY <1>1, Zenon DEF EntryOf
  <2>2. entries[j].sound # "header"
    BY Zenon DEF PlacedTo, Refused, Damaged
  <2> QED BY <2>1, <2>2, EntryFields
<1>3. PackedNames \subseteq Names
  BY <1>1, OwnNameType DEF PackedNames
<1>4. {first_segment(entries[i].name) :
         i \in {j \in DOMAIN entries : entries[j].name # NoName /\ entries[j].sound # "header"}} = Tops
  <2>1. \A n \in PackedNames : n # NoName /\ \E j \in 1 .. m : entries[j].name = n
    BY <1>1, <1>2 DEF PackedNames
  <2>2. \A j \in 1 .. m : entries[j].name # NoName => entries[j].name \in PackedNames
    BY <1>1, <1>2 DEF PackedNames
  <2>3. \A i \in DOMAIN entries : entries[i].sound # "header"
    BY <1>1, <1>2
  <2>4. PICK J : J = {j \in DOMAIN entries : entries[j].name # NoName /\ entries[j].sound # "header"}
    OBVIOUS
  <2>5. \A i \in J : entries[i].name \in PackedNames
    BY <1>1, <2>2, <2>4
  <2>6. \A n \in PackedNames : \E i \in J : entries[i].name = n
    BY <1>1, <2>1, <2>3, <2>4
  <2>7. {first_segment(entries[i].name) : i \in J} = Tops
    BY <2>5, <2>6 DEF Tops
  <2> QED BY <2>4, <2>7, Zenon
<1> QED BY <1>3, <1>4, Zenon DEF find_common_top, TopIsShared

LEMMA SharedIs ==
    Shared <=> \E k1 \in PackedNames : /\ Head(k1) # NoTop
                                       /\ \A n \in PackedNames : Len(n) > 1 /\ Head(n) = Head(k1)
  BY Zenon DEF Shared, NoTop

(* find_common_top finds the top directory of the property.                 *)
LEMMA TopTaken ==
    ASSUME PackedNames \subseteq Names,
           TopIsShared
    PROVE  /\ Shared => /\ find_common_top # NoTop
                        /\ \A n \in PackedNames : Len(n) > 1 /\ Head(n) = find_common_top
           /\ ~ Shared => find_common_top = NoTop
<1>0. \A n \in PackedNames : Len(n) > 1 => first_segment(n) = Head(n)
  BY NameType DEF first_segment
<1>1. ASSUME Shared
      PROVE  find_common_top # NoTop /\ \A n \in PackedNames : Len(n) > 1 /\ Head(n) = find_common_top
  <2>1. PICK n1 \in PackedNames :
           Head(n1) # NoTop /\ \A n \in PackedNames : Len(n) > 1 /\ Head(n) = Head(n1)
    BY <1>1, SharedIs, Zenon
  <2>2. PICK t : t = Head(n1)
    OBVIOUS
  <2>3. \A n \in PackedNames : first_segment(n) = t
    BY <1>0, <2>1, <2>2
  <2>4. Tops = {t}
    BY <2>1, <2>3 DEF Tops
  <2>5. find_common_top = t
    BY <2>4 DEF TopIsShared
  <2> QED BY <2>1, <2>2, <2>5, Zenon
<1>2. ASSUME find_common_top # NoTop PROVE Shared
  <2>1. PICK t \in Tops : Tops = {t}
    BY <1>2 DEF TopIsShared
  <2>2. find_common_top = t /\ t # NoTop
    BY <1>2, <2>1 DEF TopIsShared
  <2>3. \A n \in PackedNames : first_segment(n) = t
    BY <2>1 DEF Tops
  <2>4. \A n \in PackedNames : Len(n) > 1 /\ Head(n) = t
    <3> TAKE n \in PackedNames
    <3>1. Len(n) \in Nat \ {0} /\ (IF Len(n) = 1 THEN NoTop ELSE Head(n)) = t
      BY <2>3, NameType, Zenon DEF first_segment
    <3> QED BY <2>2, <3>1
  <2>5. PICK n1 \in PackedNames : Head(n1) = t
    BY <2>1, <2>4 DEF Tops
  <2> QED BY <2>2, <2>4, <2>5, SharedIs, Zenon
<1> QED BY <1>1, <1>2

(* Where the file of header i belongs.                                      *)
Where(s, i) == SubSeq(OwnName(i), s + 1, Len(OwnName(i)))

Depth == IF Shared THEN 1 ELSE 0

(* Where an entry goes.                                                     *)
LEMMA RelOf ==
    ASSUME PackedNames \subseteq Names, NEW n \in PackedNames, ~ Slashed(n),
           TopIsShared
    PROVE  Relative(n) = SubSeq(n, Depth + 1, Len(n)) /\ Relative(n) # <<>>
<1>1. n \in Names /\ Len(n) \in Nat \ {0}
  BY NameType
<1>2. Strip(n) = SubSeq(n, Depth + 1, Len(n)) /\ Depth \in {0, 1} /\ Depth < Len(n)
  <2>1. CASE Shared
    <3>1. Strip(n) = Tail(n) /\ Depth = 1 /\ 1 < Len(n)
      BY <2>1, TopTaken DEF Strip, Depth
    <3>2. Depth + 1 = 2
      BY <3>1
    <3> QED BY <1>1, <3>1, <3>2, NameType, Zenon
  <2>2. CASE ~ Shared
    <3>1. Strip(n) = n /\ Depth = 0
      BY <2>2, TopTaken DEF Strip, Depth
    <3>2. Depth + 1 = 1 /\ 0 < Len(n)
      BY <1>1, <3>1
    <3> QED BY <1>1, <3>1, <3>2, NameType, Zenon
  <2> QED BY <2>1, <2>2
<1>3. PICK S : n \in Seq(S)
  BY <1>1, Zenon DEF Names
<1>4. n[Len(n)] # NoTop
  BY <1>1, NameType, Zenon DEF Slashed
<1>5. PICK r : r = SubSeq(n, Depth + 1, Len(n))
  OBVIOUS
<1>6. Depth + 1 \in 1 .. Len(n)
  BY <1>1, <1>2, NextOf, Zenon
<1>7. Trim(r) = r /\ r # <<>>
  BY <1>3, <1>4, <1>5, <1>6, NothingToTrim, Zenon
<1> QED BY <1>2, <1>5, <1>7, Zenon DEF Relative

LEMMA NoNameRel ==
    ASSUME PackedNames \subseteq Names,
           TopIsShared
    PROVE  Relative(NoName) = <<>>
<1>1. Head(NoName) = NoTop
  BY NoNameIs DEF NoTop
<1>2. Strip(NoName) = NoName
  BY <1>1 DEF Strip
<1> QED BY <1>2, NoNameTrimmed DEF Relative

(* The files placed are those of the archive.                               *)
LEMMA FilesPlaced ==
    ASSUME packed \in Archives, Listed(Count), NEW m, m = Len(entries), PlacedTo(m),
           NEW j \in 1 .. m
    PROVE  /\ FileAt(j) <=> From(j) \in PackedFiles
           /\ FileAt(j) => Rel(j) = Where(Depth, From(j))
<1>1. /\ From(j) \in 1 .. Count /\ IsEntry(From(j)) /\ entries[j] = EntryOf(From(j))
      /\ DOMAIN packed.headers = 1 .. Count
  BY PackedType DEF Listed
<1>2. PICK i : i = From(j)
  OBVIOUS
<1>3. PICK name : name = OwnName(i)
  OBVIOUS
<1>4. /\ entries[j].name = name /\ entries[j].link = (packed.headers[i].type = "link")
      /\ entries[j].dir = (packed.headers[i].type = "dir" \/ (name # NoName /\ Slashed(name)))
  <2>1. entries[j] = Entry(packed.headers[i], name, i)
    BY <1>1, <1>2, <1>3, Zenon DEF EntryOf
  <2> QED BY <2>1, EntryFields
<1>5. /\ PackedNames \subseteq Names
      /\ TopIsShared
  BY NamesPlaced
<1>6. name \in Names /\ (name # NoName => name \in PackedNames)
  BY <1>1, <1>2, <1>3, OwnNameType DEF PackedNames
<1>7. i \in PackedFiles <=> packed.headers[i].type = "file" /\ ~ Slashed(name)
  BY <1>1, <1>2, <1>3, Zenon DEF PackedFiles, Slashed, NoTop
<1>8. ~ Refused(entries[j], Rel(j))
  BY DEF PlacedTo
<1>9. CASE name = NoName
  <2>1. Rel(j) = <<>>
    BY <1>4, <1>5, <1>9, NoNameRel DEF Rel
  <2>2. Slashed(name)
    BY <1>9, NoNameIs, Zenon DEF Slashed, NoTop
  <2> QED BY <1>2, <1>7, <2>1, <2>2 DEF FileAt
<1>10. CASE name # NoName
  <2>1. CASE Slashed(name)
    BY <1>2, <1>4, <1>7, <1>10, <2>1 DEF FileAt
  <2>2. CASE ~ Slashed(name)
    <3>1. Rel(j) = Where(Depth, i) /\ Rel(j) # <<>>
      BY <1>3, <1>4, <1>5, <1>6, <1>10, <2>2, RelOf DEF Rel, Where
    <3>2. packed.headers[i].type # "link"
      BY <1>4, <1>8, <3>1 DEF Refused
    <3>3. packed.headers[i].type \in {"file", "dir"}
      BY <1>1, <1>2, <3>2 DEF IsEntry
    <3>4. FileAt(j) <=> packed.headers[i].type = "file"
      BY <1>4, <2>2, <3>1, <3>3 DEF FileAt
    <3> QED BY <1>2, <1>7, <2>2, <3>1, <3>4
  <2> QED BY <2>1, <2>2
<1> QED BY <1>9, <1>10

(* With all entries placed the disk is what the archive says.               *)
LEMMA FilesEnd ==
    ASSUME packed \in Archives, Listed(Count), NEW m, m = Len(entries), PlacedTo(m)
    PROVE  FilesAre(Depth)
<1>1. /\ m \in Nat /\ Count \in Nat
      /\ \A j \in 1 .. m : From(j) \in 1 .. Count
      /\ \A j, l \in 1 .. m : j < l => From(j) < From(l)
      /\ \A i \in 1 .. Count : IsEntry(i) => \E j \in 1 .. m : From(j) = i
  BY PackedType DEF Listed
<1>2. \A j \in 1 .. m : /\ FileAt(j) <=> From(j) \in PackedFiles
                        /\ FileAt(j) => Rel(j) = Where(Depth, From(j))
  BY FilesPlaced
<1>3. \A i \in PackedFiles : i \in 1 .. Count /\ IsEntry(i)
  BY PackedType DEF PackedFiles, IsEntry
<1>4. \A i \in PackedFiles : \E j \in 1 .. m : From(j) = i /\ FileAt(j) /\ Rel(j) = Where(Depth, i)
  BY <1>1, <1>2, <1>3
<1>5. {p \in DOMAIN disk : disk[p] # Dir} = {Where(Depth, i) : i \in PackedFiles}
  <2>1. \A p : Stores(p) <=> \E i \in PackedFiles : Where(Depth, i) = p
    BY <1>2, <1>4 DEF PlacedTo
  <2> QED BY <2>1 DEF Stores
<1>6. ASSUME NEW i \in PackedFiles
      PROVE  disk[Where(Depth, i)] \in {Max({j \in PackedFiles : Where(Depth, j) = Where(Depth, i)})} \cup Flushed
  <2>1. PICK T : T = {j \in PackedFiles : Where(Depth, j) = Where(Depth, i)}
    OBVIOUS
  <2>2. T \in SUBSET (0 .. Count) /\ T # {}
    BY <1>1, <1>3, <2>1
  <2>3. Max(T) \in T /\ \A y \in T : y <= Max(T)
    BY <1>1, <2>2, MaxOf
  <2>4. PICK j \in 1 .. m : From(j) = Max(T) /\ FileAt(j) /\ Rel(j) = Where(Depth, i)
    BY <1>4, <2>1, <2>3
  <2>5. ASSUME NEW l \in j + 1 .. m, FileAt(l), Rel(l) = Rel(j) PROVE FALSE
    <3>1. l \in 1 .. m /\ j < l
      BY <1>1
    <3>2. From(l) \in T
      BY <1>2, <2>1, <2>4, <2>5, <3>1
    <3>3. From(l) <= From(j) /\ From(j) < From(l) /\ From(l) \in 1 .. Count /\ From(j) \in 1 .. Count
      BY <1>1, <2>3, <2>4, <3>1, <3>2
    <3> QED BY <1>1, <3>3
  <2>6. disk[Rel(j)] \in {From(j)} \cup Flushed
    BY <2>4, <2>5 DEF PlacedTo
  <2> QED BY <2>1, <2>4, <2>6
<1> QED BY <1>5, <1>6 DEF FilesAre, Where, Flushed

(* The two invariants are the property.                                     *)
LEMMA UnpackedEnd == ListInv /\ PlaceInv => UnpackedAsPacked
<1> SUFFICES ASSUME ListInv, PlaceInv PROVE UnpackedAsPacked
  OBVIOUS
<1>1. ArchiveTypeOK
  BY DEF ListInv, PlaceInv, ArchiveTypeOK, Count
<1>2. ASSUME stage = "unpacked" PROVE FilesAre(Depth)
  <2>1. packed \in Archives /\ Listed(Count)
    BY <1>2 DEF ListInv, AllListed
  <2>2. PICK m \in Nat : m = Len(entries) /\ PlacedTo(m)
    BY <1>2 DEF PlaceInv
  <2> QED BY <2>1, <2>2, FilesEnd
<1>3. CASE Shared
  BY <1>1, <1>2, <1>3 DEF Depth, Shared, UnpackedAsPacked
<1>4. CASE ~ Shared
  BY <1>1, <1>2, <1>4 DEF Depth, Shared, UnpackedAsPacked
<1> QED BY <1>3, <1>4

(* Every archive that unpacks leaves exactly its files, each under the name *)
(* its packer gave it, less the one top directory that all share, the last  *)
(* one of a name winning, and whole but for bytes lost at a close: for      *)
(* archives of any number of entries, with any long names and PAX records   *)
(* between them, whatever fails. Of a stream of several members or frames,  *)
(* or one cut off, only a part is read (finding no error): WholeStreams     *)
(* leaves those out.                                                        *)
THEOREM UnpacksAsPacked ==
    ASSUME WholeStreams PROVE ArchiveSpec => []UnpackedAsPacked
<1>1. ArchiveInit => ListInv /\ PlaceInv
  BY ListStart, PlaceStart
<1>2. ListInv /\ PlaceInv /\ [ArchiveNext]_<<vars, avars>> => (ListInv /\ PlaceInv)'
  BY ListStep, PlaceStep
<1> QED BY <1>1, <1>2, UnpackedEnd, PTL DEF ArchiveSpec
=============================================================================
