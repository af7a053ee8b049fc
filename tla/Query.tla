-------------------------------- MODULE Query --------------------------------
(***************************************************************************)
(* A document that asks (libs/kuli-engine/src/engine.cpp): FileQuery and    *)
(* TextSearch walk the trees under their roots, ProcessQuery and EnvQuery a *)
(* list, and keep what has a name that one of the globs matches.            *)
(*                                                                          *)
(* A tree is the sequence of its entries in the order of the walk: a        *)
(* directory before what is in it. A list is a tree without directories.    *)
(* A name is a sequence of characters, a glob one with "*" and "?".         *)
(***************************************************************************)
EXTENDS Naturals, Sequences

CONSTANTS Questions   \* what may be asked, each with the tree that is there

Entry == [depth : Nat, kind : {"file", "dir", "link"},  \* "link": to a directory
          name : Seq(STRING), text : Seq({"hit", "miss", "binary"})]

Question == [kind  : {"files", "text", "list"},
             tree  : Seq(Entry),
             roots : Seq({"here", "gone"}),
             type  : {"any", "f", "d"},
             depth : Nat,                    \* maxDepth; 0: unlimited
             names : Seq(Seq(STRING)),
             word  : {"literal", "regex", "empty", "broken"}]

(* A walk begins at depth 0 and goes down one level at a time.              *)
IsWalk(tree) ==
    /\ tree # <<>> => tree[1].depth = 0
    /\ \A n \in 1 .. Len(tree) - 1 : tree[n + 1].depth <= tree[n].depth + 1

ASSUME QueryAssumption == Questions \subseteq {q \in Question : IsWalk(q.tree)}

VARIABLES asked, \* the question
          phase, \* "ask", "walk", "match", "answered", "refused"
          root,  \* the root that is walked
          entry, \* where its walk is
          k,     \* the glob the entry is compared with; where in it, ...
          p, t,  \* ... and in the name, glob_match is;
          star,  \* the last "*" it met, or 0,
          mark,  \* and the first character that is not taken for it
          found, \* the entries kept: of which root, and which
          lines, \* the lines a text search prints: of which file, and which
          lost   \* a directory could not be entered

glob  == <<p, t, star, mark>>
qvars == <<asked, phase, root, entry, k, glob, found, lines, lost>>

QueryInit ==
    /\ asked \in Questions
    /\ phase = "ask" /\ root = 1 /\ entry = 1
    /\ k = 1 /\ p = 1 /\ t = 1 /\ star = 0 /\ mark = 0
    /\ found = {} /\ lines = {} /\ lost = FALSE

-----------------------------------------------------------------------------
(* validate_file_query and validate_text_search; a regular expression that  *)
(* cannot be compiled.                                                      *)
WellAsked == asked.roots # <<>> /\ (asked.kind = "text" => asked.word \in {"literal", "regex"})

RefuseQuestion ==
    /\ phase = "ask" /\ ~ WellAsked
    /\ phase' = "refused"
    /\ UNCHANGED <<asked, root, entry, k, glob, found, lines, lost>>

BeginWalk ==
    /\ phase = "ask" /\ WellAsked
    /\ phase' = "walk"
    /\ UNCHANGED <<asked, root, entry, k, glob, found, lines, lost>>

(* collect_paths: root by root; one that does not exist is passed over.     *)
Here == /\ root <= Len(asked.roots) /\ asked.roots[root] = "here"
        /\ entry <= Len(asked.tree)

NextRoot ==
    /\ phase = "walk" /\ root <= Len(asked.roots) /\ ~ Here
    /\ root' = root + 1 /\ entry' = 1
    /\ UNCHANGED <<asked, phase, k, glob, found, lines, lost>>

(* The walk goes on. It does not go into a directory at the depth limit;    *)
(* when one cannot be entered (it was removed meanwhile) the iterator ends. *)
Seen == asked.tree[entry]
Cut  == asked.depth > 0 /\ Seen.depth + 1 >= asked.depth

Onward ==
    /\ phase' = "walk"
    /\ UNCHANGED <<asked, root, k, glob, lines>>
    /\ \/ /\ ~ Cut /\ entry' = entry + 1 /\ UNCHANGED lost
       \/ /\ Cut /\ UNCHANGED lost
          /\ \E n \in entry + 1 .. Len(asked.tree) + 1 :
               /\ \A m \in entry + 1 .. n - 1 : asked.tree[m].depth > Seen.depth
               /\ n <= Len(asked.tree) => asked.tree[n].depth <= Seen.depth
               /\ entry' = n
       \/ /\ Seen.kind = "dir" /\ ~ Cut /\ ~ lost
          /\ entry' = Len(asked.tree) + 1 /\ lost' = TRUE

(* What `type` says; a link to a directory is one, and is not entered.      *)
RightType(e) ==
    CASE asked.kind = "text" \/ asked.type = "f" -> e.kind = "file"
      [] asked.type = "d"                        -> e.kind # "file"
      [] OTHER                                   -> TRUE

PassOver ==
    /\ phase = "walk" /\ Here /\ ~ RightType(Seen)
    /\ Onward /\ UNCHANGED found

Keep == found' = found \cup {<<root, entry>>}

KeepUnnamed ==
    /\ phase = "walk" /\ Here /\ RightType(Seen) /\ asked.names = <<>>
    /\ Onward /\ Keep

StartGlob(n) == phase' = "match" /\ k' = n /\ p' = 1 /\ t' = 1 /\ star' = 0 /\ mark' = 0

Compare ==
    /\ phase = "walk" /\ Here /\ RightType(Seen) /\ asked.names # <<>>
    /\ StartGlob(1)
    /\ UNCHANGED <<asked, root, entry, found, lines, lost>>

-----------------------------------------------------------------------------
(* glob_match, one turn of its loop at a time.                              *)
Glob == asked.names[k]
Name == Seen.name

Scanning  == phase = "match" /\ t <= Len(Name)
SameChar  == p <= Len(Glob) /\ Glob[p] \in {"?", Name[t]}
IsStar    == p <= Len(Glob) /\ Glob[p] = "*"
Elsewhere == <<asked, phase, root, entry, k, found, lines, lost>>

MatchChar ==
    /\ Scanning /\ SameChar
    /\ p' = p + 1 /\ t' = t + 1
    /\ UNCHANGED <<star, mark>> /\ UNCHANGED Elsewhere

(* Mutant: a "*" that takes one character at least.                         *)
MeetStarTaking ==
    /\ Scanning /\ ~ SameChar /\ IsStar
    /\ star' = p /\ mark' = t + 1 /\ p' = p + 1 /\ t' = t + 1
    /\ UNCHANGED Elsewhere

MeetStar ==
    /\ Scanning /\ ~ SameChar /\ IsStar
    /\ star' = p /\ mark' = t /\ p' = p + 1
    /\ UNCHANGED t /\ UNCHANGED Elsewhere

(* One more character is taken for the last "*".                            *)
Backtrack ==
    /\ Scanning /\ ~ SameChar /\ ~ IsStar /\ star # 0
    /\ p' = star + 1 /\ mark' = mark + 1 /\ t' = mark + 1
    /\ UNCHANGED star /\ UNCHANGED Elsewhere

Matched   == phase = "match" /\ t > Len(Name) /\ \A j \in p .. Len(Glob) : Glob[j] = "*"
Unmatched == \/ Scanning /\ ~ SameChar /\ ~ IsStar /\ star = 0
             \/ phase = "match" /\ t > Len(Name) /\ \E j \in p .. Len(Glob) : Glob[j] # "*"

KeepMatched == Matched /\ Onward /\ Keep

TryNextGlob ==
    /\ Unmatched /\ k < Len(asked.names)
    /\ StartGlob(k + 1)
    /\ UNCHANGED <<asked, root, entry, found, lines, lost>>

NoneMatches == Unmatched /\ k = Len(asked.names) /\ Onward /\ UNCHANGED found

-----------------------------------------------------------------------------
(* The end: what was found; a text search reads the files now, each up to   *)
(* the first line that is binary.                                           *)
Prints(e) == {n \in DOMAIN e.text :
                 e.text[n] = "hit" /\ \A m \in 1 .. n : e.text[m] # "binary"}

Answer ==
    /\ phase = "walk" /\ root > Len(asked.roots)
    /\ phase' = "answered"
    /\ lines' = IF asked.kind # "text" THEN {}
                ELSE UNION {{<<x, n>> : n \in Prints(asked.tree[x[2]])} : x \in found}
    /\ UNCHANGED <<asked, root, entry, k, glob, found, lost>>

GlobStep  == MatchChar \/ MeetStar \/ Backtrack \/ KeepMatched \/ TryNextGlob \/ NoneMatches
QueryNext == \/ RefuseQuestion \/ BeginWalk \/ NextRoot \/ PassOver \/ KeepUnnamed \/ Compare
             \/ GlobStep \/ Answer

QuerySpec == QueryInit /\ [][QueryNext]_qvars

-----------------------------------------------------------------------------
(* Properties.                                                              *)

(* What a glob means: the name can be split into pieces, one character for  *)
(* each character of the glob (it, or any for "?"), any number for a "*".   *)
(* f[a] is where the piece of the glob's first a characters ends.           *)
Splits(g, s) ==
    {f \in [0 .. Len(g) -> 0 .. Len(s)] :
        /\ f[0] = 0 /\ f[Len(g)] = Len(s)
        /\ \A a, b \in 0 .. Len(g) : a <= b => f[a] <= f[b]
        /\ \A a \in 1 .. Len(g) : g[a] # "*" => f[a] = f[a - 1] + 1 /\ g[a] \in {"?", s[f[a]]}}

Fits(g, s) == Splits(g, s) # {}

IsSought(e) ==
    /\ asked.depth > 0 => e.depth < asked.depth
    /\ RightType(e)
    /\ asked.names # <<>> => \E n \in DOMAIN asked.names : Fits(asked.names[n], e.name)

Sought == {x \in (DOMAIN asked.roots) \X (DOMAIN asked.tree) :
              asked.roots[x[1]] = "here" /\ IsSought(asked.tree[x[2]])}

(* The characters of a name stand for themselves, and there is no "*" among *)
(* them (on Windows there cannot be).                                       *)
PlainNames == \A e \in DOMAIN asked.tree : \A c \in DOMAIN asked.tree[e].name :
                 asked.tree[e].name[c] # "*"

(* "emit paths matching the name/type/depth filters" (engine.cpp): whatever *)
(* the globs and the tree, nothing else is found, and all of it unless a    *)
(* directory vanished under the walk; and a text search prints only lines   *)
(* that match, and all of those of a file without a binary line.            *)
AnswersRight ==
    phase = "answered" /\ PlainNames =>
       /\ found \subseteq Sought
       /\ ~ lost => found = Sought
       /\ asked.kind = "text" =>
            \A x \in found : LET text == asked.tree[x[2]].text IN
               /\ \A n \in DOMAIN text : <<x, n>> \in lines => text[n] = "hit"
               /\ (\A n \in DOMAIN text : text[n] # "binary") =>
                    \A n \in DOMAIN text : text[n] = "hit" => <<x, n>> \in lines
=============================================================================
