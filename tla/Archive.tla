------------------------------- MODULE Archive -------------------------------
(***************************************************************************)
(* Unpacking the file that Assets chose (libs/kuli-store/src/archive.cpp).  *)
(*                                                                          *)
(* A tar is read header by header into a list of entries, a zip has the     *)
(* list; the entries are then placed one by one under the destination,      *)
(* without the one top directory they share. An entry of a tar may have its *)
(* name in headers of its own before it: a GNU long name, a PAX record.     *)
(*                                                                          *)
(* A name is the sequence of its segments between slashes: "a/b" is         *)
(* <<"a", "b">>, "a/" is <<"a", "">>, "/a" is <<"", "a">>. The content of a *)
(* file is the number of its header.                                        *)
(***************************************************************************)
EXTENDS Assets

CONSTANTS Archives, \* what the chosen file may contain
          Unpacked, \* bound: the releases whose file is also unpacked
          Faults    \* what may happen to a write: "disk", "flush"

Names    == Seq({"", "t", "u", "a", "b", "..", "c:"}) \ {<<>>}
NoName   == <<"">>
NoTop    == ""
Header   == [type : {"file", "dir", "link", "L", "x"}, name : Names,
             sound : {"yes", "data", "header"}]
Streams  == {"whole",  \* one gzip member or zstd frame, to its end
             "frames", \* several, of which the first holds the first headers
             "cut",    \* it ends after the first headers
             "bad"}    \* not of this format

ASSUME ArchiveAssumption ==
    /\ \A a \in Archives : /\ a.format \in Formats /\ a.stream \in Streams
                           /\ a.headers \in Seq(Header) /\ a.first \in Nat
                           /\ a.stream \in {"frames", "cut"} => a.first <= Len(a.headers)
                           /\ a.format = "zip" =>   \* a zip names its entries itself
                                \A i \in DOMAIN a.headers : a.headers[i].type \notin {"L", "x"}
    /\ None \notin Archives
    /\ Unpacked \subseteq Releases
    /\ Faults \subseteq {"disk", "flush"}

VARIABLES packed,  \* the archive, or None
          stage,   \* "idle", "parse", "place", "unpacked", "refused"
          at,      \* the next header to parse, then the next entry to place
          long,    \* gnu_longname
          pax,     \* pax_path
          entries, \* what is to be placed
          disk     \* the destination: path -> the number of a header, or Dir

avars == <<packed, stage, at, long, pax, entries, disk>>

Dir  == 0
Torn == -1

ArchiveInit ==
    /\ Init
    /\ packed = None /\ stage = "idle" /\ at = 1 /\ long = NoName /\ pax = NoName
    /\ entries = <<>> /\ disk = <<>>

-----------------------------------------------------------------------------
(* Reading.                                                                 *)

(* gunzip, zstd_decompress, mz_zip_reader_init_mem: a gzip stream must be    *)
(* complete, a zstd stream need not be; nothing after the first member or   *)
(* frame is read. What is not compressed is not checked.                    *)
Readable(a) == CASE a.format = "tar"  -> TRUE
                 [] a.format = "zstd" -> a.stream # "bad"
                 [] OTHER             -> a.stream \notin {"bad", "cut"}

Data(a) == IF \/ a.stream = "frames" /\ a.format \in {"gzip", "zstd"}
              \/ a.stream = "cut" /\ a.format \in {"tar", "zstd"}
           THEN SubSeq(a.headers, 1, a.first) ELSE a.headers

Entry(h, name, from) ==
    [name |-> name, dir |-> h.type = "dir" \/ (name # NoName /\ Last(name) = ""),
     link |-> h.type = "link", sound |-> h.sound, from |-> from]

Root == [path \in {<<>>} |-> Dir]

(* extract: a zip's directory of entries is read at once, a tar's is not.   *)
Open ==
    /\ stage = "idle" /\ outcome \in Formats /\ release \in Unpacked
    /\ \E a \in Archives :
         /\ a.format = outcome
         /\ packed' = a
         /\ IF Readable(a) /\ a.format = "zip"
            THEN /\ stage' = "place" /\ disk' = Root
                 /\ entries' = [i \in DOMAIN a.headers |-> Entry(a.headers[i], a.headers[i].name, i)]
            ELSE /\ stage' = IF Readable(a) THEN "parse" ELSE "refused"
                 /\ UNCHANGED <<entries, disk>>
    /\ UNCHANGED <<at, long, pax>>

(* The loop of extract_tar.                                                 *)
Parsing(h) == stage = "parse" /\ at <= Len(Data(packed)) /\ h = Data(packed)[at]

Corrupt(h) ==
    /\ Parsing(h) /\ h.sound = "header"
    /\ stage' = "refused"
    /\ UNCHANGED <<packed, at, long, pax, entries, disk>>

LongName(h) ==
    /\ Parsing(h) /\ h.sound # "header" /\ h.type = "L"
    /\ long' = h.name /\ at' = at + 1
    /\ UNCHANGED <<packed, stage, pax, entries, disk>>

PaxHeader(h) ==
    /\ Parsing(h) /\ h.sound # "header" /\ h.type = "x"
    /\ pax' = IF h.name = NoName THEN pax ELSE h.name
    /\ at' = at + 1
    /\ UNCHANGED <<packed, stage, long, entries, disk>>

EntryName(h) == CASE pax # NoName -> pax [] pax = NoName /\ long # NoName -> long [] OTHER -> h.name

(* Mutant: the name of one entry is kept for the next.                      *)
TarEntryKept(h) ==
    /\ Parsing(h) /\ h.sound # "header" /\ h.type \in {"file", "dir", "link"}
    /\ entries' = Append(entries, Entry(h, EntryName(h), at))
    /\ at' = at + 1
    /\ UNCHANGED <<packed, stage, long, pax, disk>>

TarEntry(h) ==
    /\ Parsing(h) /\ h.sound # "header" /\ h.type \in {"file", "dir", "link"}
    /\ entries' = Append(entries, Entry(h, EntryName(h), at))
    /\ long' = NoName /\ pax' = NoName /\ at' = at + 1
    /\ UNCHANGED <<packed, stage, disk>>

(* The end marker, or the end of what there is.                             *)
EndOfTar ==
    /\ stage = "parse" /\ at > Len(Data(packed))
    /\ stage' = "place" /\ at' = 1 /\ disk' = Root
    /\ UNCHANGED <<packed, long, pax, entries>>

-----------------------------------------------------------------------------
(* Placing: place_entry, for one entry after the other.                     *)
first_segment(name) == IF Len(name) = 1 THEN NoTop ELSE Head(name)

find_common_top ==
    LET tops == {first_segment(entries[i].name) :
                   i \in {j \in DOMAIN entries : entries[j].name # NoName /\ entries[j].sound # "header"}}
    IN  IF \E t \in tops : tops = {t} THEN CHOOSE t \in tops : TRUE ELSE NoTop

Strip(name) ==
    IF find_common_top # NoTop /\ Head(name) = find_common_top THEN Tail(name) ELSE name

(* Trailing slashes go.                                                     *)
Trim(name) == SubSeq(name, 1, Max({0} \cup {i \in DOMAIN name : name[i] # ""}))

Relative(name) == Trim(Strip(name))

is_unsafe(rel) == Head(rel) \in {"", "c:"} \/ ".." \in ToSet(rel)

(* create_directories: nothing when a file is in the way.                   *)
IsFile(d, path)   == path \in DOMAIN d /\ d[path] # Dir
Parents(path)     == {SubSeq(path, 1, n) : n \in 0 .. Len(path) - 1}
MakeDirs(d, path) ==
    LET way == Parents(path) \cup {path}
    IN  IF \E p \in way : IsFile(d, p) THEN d
        ELSE [p \in DOMAIN d \cup way |-> IF p \in DOMAIN d THEN d[p] ELSE Dir]

Write(d, path, c) == [p \in DOMAIN d \cup {path} |-> IF p = path THEN c ELSE d[p]]

Placing(e, rel) ==
    /\ stage = "place" /\ at <= Len(entries)
    /\ e = entries[at] /\ rel = Relative(e.name)

Damaged(e) == e.sound = "header" \/ (e.sound = "data" /\ packed.format = "zip" /\ ~ e.dir /\ ~ e.link)
Refused(e, rel) == Damaged(e) \/ (rel # <<>> /\ (is_unsafe(rel) \/ e.link))

Placed == at' = at + 1 /\ UNCHANGED <<packed, stage, long, pax, entries>>

RefuseEntry(e, rel) ==
    /\ Placing(e, rel) /\ Refused(e, rel)
    /\ stage' = "refused"
    /\ UNCHANGED <<packed, at, long, pax, entries, disk>>

SkipEntry(e, rel) ==
    /\ Placing(e, rel) /\ ~ Refused(e, rel) /\ rel = <<>>
    /\ Placed /\ UNCHANGED disk

PlaceDir(e, rel) ==
    /\ Placing(e, rel) /\ ~ Refused(e, rel) /\ rel # <<>> /\ e.dir
    /\ disk' = MakeDirs(disk, rel)
    /\ Placed

(* write_whole_file: the directories of the file, then the file.            *)
Blocked(d, rel) == (rel \in DOMAIN d /\ d[rel] = Dir) \/ \E p \in Parents(rel) : IsFile(d, p)

PlaceFile(e, rel) ==
    /\ Placing(e, rel) /\ ~ Refused(e, rel) /\ rel # <<>> /\ ~ e.dir
    /\ LET d == MakeDirs(disk, Front(rel))
       IN  /\ ~ Blocked(d, rel)
           /\ disk' = Write(d, rel, e.from)
    /\ Placed

(* The file cannot be opened, or not be written; a file whose last bytes    *)
(* are lost when it is closed counts as written.                            *)
PlaceFails(e, rel) ==
    /\ Placing(e, rel) /\ ~ Refused(e, rel) /\ rel # <<>> /\ ~ e.dir
    /\ LET d == MakeDirs(disk, Front(rel))
       IN  \/ /\ Blocked(d, rel)
              /\ disk' = d
           \/ /\ ~ Blocked(d, rel) /\ "disk" \in Faults
              /\ disk' = Write(d, rel, Torn)
    /\ stage' = "refused"
    /\ UNCHANGED <<packed, at, long, pax, entries>>

PlaceTorn(e, rel) ==
    /\ Placing(e, rel) /\ ~ Refused(e, rel) /\ rel # <<>> /\ ~ e.dir /\ "flush" \in Faults
    /\ LET d == MakeDirs(disk, Front(rel))
       IN  ~ Blocked(d, rel) /\ disk' = Write(d, rel, Torn)
    /\ Placed

AllPlaced ==
    /\ stage = "place" /\ at > Len(entries)
    /\ stage' = "unpacked"
    /\ UNCHANGED <<packed, at, long, pax, entries, disk>>

-----------------------------------------------------------------------------
PlaceNext ==
    /\ stage = "place" /\ at <= Len(entries)
    /\ LET e == entries[at] rel == Relative(entries[at].name)
       IN  \/ RefuseEntry(e, rel) \/ SkipEntry(e, rel) \/ PlaceDir(e, rel)
           \/ PlaceFile(e, rel) \/ PlaceFails(e, rel) \/ PlaceTorn(e, rel)

ParseNext ==
    /\ stage = "parse" /\ at <= Len(Data(packed))
    /\ LET h == Data(packed)[at]
       IN  Corrupt(h) \/ LongName(h) \/ PaxHeader(h) \/ TarEntry(h)

ArchiveNext ==
    \/ Next /\ UNCHANGED avars
    \/ /\ Open \/ ParseNext \/ EndOfTar \/ PlaceNext \/ AllPlaced
       /\ UNCHANGED vars

ArchiveSpec == ArchiveInit /\ [][ArchiveNext]_<<vars, avars>>

-----------------------------------------------------------------------------
(* Properties.                                                              *)
ArchiveTypeOK ==
    /\ stage \in {"idle", "parse", "place", "unpacked", "refused"}
    /\ packed \in Archives \cup {None} /\ (stage = "idle") = (packed = None)
    /\ long \in Names /\ pax \in Names /\ at \in Nat \ {0}
    /\ \A p \in DOMAIN disk : disk[p] = Torn \/ disk[p] \in 0 .. Len(packed.headers)

(* The name the packer gave to entry i: the last PAX record between it and  *)
(* the entry before it, or the long name there, or the one of its header.   *)
IsEntry(i)  == packed.headers[i].type \in {"file", "dir", "link"}
Between(i)  == LET before == {j \in 1 .. i - 1 : IsEntry(j)}
               IN  (Max(before \cup {0}) + 1) .. i - 1
Named(i, t) == {j \in Between(i) : /\ packed.headers[j].type = t
                                   /\ t = "x" => packed.headers[j].name # NoName}
LastName(i, t) == IF Named(i, t) = {} THEN NoName ELSE packed.headers[Max(Named(i, t))].name
OwnName(i)  == CASE LastName(i, "x") # NoName -> LastName(i, "x")
                 [] LastName(i, "x") = NoName /\ LastName(i, "L") # NoName -> LastName(i, "L")
                 [] OTHER -> packed.headers[i].name

PackedFiles == {i \in DOMAIN packed.headers : packed.headers[i].type = "file" /\ Last(OwnName(i)) # ""}
PackedNames == {OwnName(i) : i \in {j \in DOMAIN packed.headers : IsEntry(j)}} \ {NoName}

(* The files on disk are those of the archive, each under its own name less *)
(* its first n segments, the last one of a name winning.                    *)
FilesAre(n) ==
    LET where(i) == SubSeq(OwnName(i), n + 1, Len(OwnName(i)))
    IN  /\ {p \in DOMAIN disk : disk[p] # Dir} = {where(i) : i \in PackedFiles}
        /\ \A i \in PackedFiles :
              disk[where(i)] \in {Max({j \in PackedFiles : where(j) = where(i)})}
                                  \cup IF "flush" \in Faults THEN {Torn} ELSE {}

(* "Strip a single shared top-level directory (tool-1.0/bin/x -> bin/x)"    *)
(* (archive.hpp): an archive that unpacks leaves exactly its files, each    *)
(* under the name its packer gave it, whatever headers carried that name,   *)
(* all of them less one top directory if all are in it, and whole           *)
(* otherwise; only bytes lost at a close may be missing from a file (in a   *)
(* well-typed state).                                                       *)
UnpackedAsPacked ==
    /\ ArchiveTypeOK
    /\ stage = "unpacked" =>
          IF \E t \in {Head(n) : n \in PackedNames} \ {""} : \A n \in PackedNames : Len(n) > 1 /\ Head(n) = t
          THEN FilesAre(1) ELSE FilesAre(0)

=============================================================================
