------------------------------- MODULE Store --------------------------------
(***************************************************************************)
(* libs/kuli-store/src/store.cpp: how a kuli process turns a fetch or a     *)
(* scripture derivation into a directory of the content-addressed store.    *)
(* Every process runs the same protocol over the same disk and no lock      *)
(* exists: look at the marker, download, verify, clear, extract into a      *)
(* staging directory, write the marker there, rename.  A process may die    *)
(* between any two steps.                                                   *)
(*                                                                          *)
(* A directory is a record: does it exist, which content each of its files  *)
(* came from or whether it is cut short, and what its marker says.  The     *)
(* staging directory and the download file have names computed from the     *)
(* store path alone, so they are one per path and shared by all processes,  *)
(* as in the code.                                                          *)
(***************************************************************************)
EXTENDS Naturals

CONSTANTS Procs,        \* kuli processes
          Paths,        \* store path names
          InlinePaths,  \* the paths realized from inline files (scriptures)
          Contents,     \* content hashes
          Parts,        \* names of files a store path may hold
          FilesOf,      \* the files each content consists of
          Requests,     \* what callers may ask for: a path and its content
          MaxMishaps,   \* bound on crashes, network and disk failures
          None,         \* no file, no marker
          Torn          \* a file that was truncated and not (fully) written

ASSUME StoreAssumption ==
    /\ InlinePaths \subseteq Paths
    /\ Requests \subseteq [path : Paths, content : Contents]
    /\ FilesOf \in [Contents -> SUBSET Parts]
    /\ None \notin Contents /\ Torn \notin Contents /\ None # Torn
    /\ MaxMishaps \in Nat

VARIABLES dir,      \* the published store paths
          tmp,      \* the staging directories, root/.<path>.tmp
          archive,  \* the download cache, one file per path
          pc,       \* where each process is in realize_fetch / realize_inline
          job,      \* the request each process works on
          buf,      \* the content a process extracts, read into memory
          todo,     \* the files a process has still to write
          res,      \* what the last call of each process returned
          mishaps   \* crashes and failures so far

disk  == <<dir, tmp, archive>>
local == <<pc, job, buf, todo, res>>
vars  == <<disk, local, mishaps>>

(* lossy is auxiliary, for the properties alone: a file of the directory    *)
(* lost bytes after the code had last looked at its stream.                 *)
Dir   == [exists : BOOLEAN, file : [Parts -> Contents \cup {None, Torn}],
          marker : Contents \cup {None, Torn}, lossy : BOOLEAN]
NoDir == [exists |-> FALSE, file |-> [i \in Parts |-> None], marker |-> None,
          lossy |-> FALSE]

Failures  == {"E0202", "E0230", "E0233", "failed"}
Successes == {"realized", "hit"}
Labels    == {"idle", "check", "download", "fetching", "fetched", "recheck", "verify",
              "clearDir", "clearTmp", "open", "extract", "marker", "publish",
              "lost", "discard"}

TypeOK ==
    /\ dir \in [Paths -> Dir] /\ tmp \in [Paths -> Dir]
    /\ archive \in [Paths -> Contents \cup {None, Torn}]
    /\ pc \in [Procs -> Labels]
    /\ job \in [Procs -> Requests]
    /\ buf \in [Procs -> Contents \cup {None}]
    /\ todo \in [Procs -> SUBSET Parts]
    /\ res \in [Procs -> Failures \cup Successes \cup {"none"}]
    /\ mishaps \in 0 .. MaxMishaps

Init ==
    /\ dir = [x \in Paths |-> NoDir]
    /\ tmp = [x \in Paths |-> NoDir]
    /\ archive = [x \in Paths |-> None]
    /\ pc = [p \in Procs |-> "idle"]
    /\ job \in [Procs -> Requests]     \* arbitrary before the first call
    /\ buf = [p \in Procs |-> None]
    /\ todo = [p \in Procs |-> {}]
    /\ res = [p \in Procs |-> "none"]
    /\ mishaps = 0

-----------------------------------------------------------------------------
path(p) == job[p].path
want(p) == job[p].content
Active(p) == pc[p] # "idle"

At(p, l)   == pc[p] = l
Goto(p, l) == pc' = [pc EXCEPT ![p] = l]
Return(p, r) == /\ Goto(p, "idle")
                /\ res' = [res EXCEPT ![p] = r]
(* The error paths after staging began: remove_all(tmp), then return r.     *)
Abandon(p, r) == /\ Goto(p, "discard")
                 /\ res' = [res EXCEPT ![p] = r]
Mishap == mishaps < MaxMishaps /\ mishaps' = mishaps + 1

(* Mutants: any directory is a hit; another content's marker is no marker.  *)
AnyDirHits(d, c)  == IF d.exists THEN "Hit" ELSE "Absent"
NoCollision(d, c) == IF d.marker = c THEN "Hit" ELSE "Absent"

(* check_cache: the marker decides, whatever else the directory holds.      *)
CacheState(d, c) == IF d.marker \notin Contents THEN "Absent"
                    ELSE IF d.marker = c THEN "Hit" ELSE "Collision"

(* remove_all deletes entry by entry; these are the directories it can      *)
(* leave after deleting one more.                                           *)
Removals(d) == {[d EXCEPT !.file[i] = None] : i \in {j \in Parts : d.file[j] # None}}
               \cup {[d EXCEPT !.marker = None] : m \in {d.marker} \ {None}}

(* The marker is whatever the rename found in tmp; nothing looks at it.     *)
Rename(x) == /\ dir' = [dir EXCEPT ![x] = tmp[x]]
             /\ tmp' = [tmp EXCEPT ![x] = NoDir]
(* POSIX rename(2) of a directory: the source must exist, and the target    *)
(* must be missing or an empty directory.                                   *)
CanRename(x) == tmp[x].exists /\ Removals(dir[x]) = {}

-----------------------------------------------------------------------------
(* A caller (engine dispatch, scripture install) asks for a derivation.     *)
Begin(p, r) ==
    /\ At(p, "idle")
    /\ Goto(p, "check")
    /\ job' = [job EXCEPT ![p] = r]
    /\ res' = [res EXCEPT ![p] = "none"]
    /\ UNCHANGED <<disk, buf, todo, mishaps>>

(* The cache check that opens realize_fetch / realize_inline, and the one   *)
(* realize_from_archive repeats after the download.                         *)
Check(p) ==
    /\ pc[p] \in {"check", "recheck"}
    /\ LET state == CacheState(dir[path(p)], want(p)) IN
         \/ state = "Hit" /\ Return(p, "hit")
         \/ state = "Collision" /\ Return(p, "E0233")
         \/ /\ state = "Absent"
            /\ Goto(p, IF At(p, "recheck") THEN "verify"
                       ELSE IF path(p) \in InlinePaths THEN "clearDir" ELSE "download")
            /\ UNCHANGED res
    /\ UNCHANGED <<disk, job, buf, todo, mishaps>>

(* fetch_to_file opens the cache file truncated, before any byte arrives.   *)
Download(p) ==
    /\ At(p, "download")
    /\ archive' = [archive EXCEPT ![path(p)] = Torn]
    /\ Goto(p, "fetching")
    /\ UNCHANGED <<dir, tmp, job, buf, todo, res, mishaps>>

(* The transfer ends.  A server that serves something else is a mishap, and *)
(* so is what is lost when the file is closed, which nobody asks about; if  *)
(* another process unlinked the file, the bytes go nowhere.                 *)
Fetched(p) ==
    /\ At(p, "fetching")
    /\ \E c \in Contents \cup {Torn} :
         /\ IF c = want(p) THEN UNCHANGED mishaps ELSE Mishap
         /\ archive' = [archive EXCEPT ![path(p)] = IF @ = None THEN None ELSE c]
    /\ Goto(p, "fetched")
    /\ UNCHANGED <<dir, tmp, job, buf, todo, res>>

(* curl reports an error: the file is removed and the call fails.           *)
FetchFails(p) ==
    /\ At(p, "fetching")
    /\ Mishap
    /\ archive' = [archive EXCEPT ![path(p)] = None]
    /\ Return(p, "failed")
    /\ UNCHANGED <<dir, tmp, job, buf, todo>>

(* Verification on download; a mismatching file is removed.                 *)
VerifyDownload(p) ==
    /\ At(p, "fetched")
    /\ \/ /\ archive[path(p)] = want(p)
          /\ Goto(p, "recheck")
          /\ UNCHANGED <<archive, res>>
       \/ /\ archive[path(p)] # want(p)
          /\ archive' = [archive EXCEPT ![path(p)] = None]
          /\ Return(p, "E0202")
    /\ UNCHANGED <<dir, tmp, job, buf, todo, mishaps>>

(* realize_from_archive verifies the archive once more.                     *)
Verify(p) ==
    /\ At(p, "verify")
    /\ IF archive[path(p)] = want(p)
       THEN Goto(p, "clearDir") /\ UNCHANGED res
       ELSE Return(p, "E0230")
    /\ UNCHANGED <<disk, job, buf, todo, mishaps>>

(* Mutant: without H-3 the leftover stays where the rename wants to go.      *)
KeepPartial(p) ==
    /\ At(p, "clearDir")
    /\ Goto(p, "clearTmp")
    /\ UNCHANGED <<disk, job, buf, todo, res, mishaps>>

(* H-3: remove_all of whatever unmarked directory sits at the store path.   *)
ClearDir(p) ==
    /\ At(p, "clearDir")
    /\ \/ /\ \E d \in Removals(dir[path(p)]) : dir' = [dir EXCEPT ![path(p)] = d]
          /\ UNCHANGED pc
       \/ /\ Removals(dir[path(p)]) = {}
          /\ dir' = [dir EXCEPT ![path(p)] = NoDir]
          /\ Goto(p, "clearTmp")
    /\ UNCHANGED <<tmp, archive, job, buf, todo, res, mishaps>>

(* Mutant: extract over whatever the staging directory holds.               *)
KeepStaging(p) ==
    /\ At(p, "clearTmp")
    /\ Goto(p, "open")
    /\ UNCHANGED <<disk, job, buf, todo, res, mishaps>>

(* remove_all of a staging directory an earlier attempt left behind.        *)
ClearTmp(p) ==
    /\ At(p, "clearTmp")
    /\ \/ /\ \E d \in Removals(tmp[path(p)]) : tmp' = [tmp EXCEPT ![path(p)] = d]
          /\ UNCHANGED pc
       \/ /\ Removals(tmp[path(p)]) = {}
          /\ tmp' = [tmp EXCEPT ![path(p)] = NoDir]
          /\ Goto(p, "open")
    /\ UNCHANGED <<dir, archive, job, buf, todo, res, mishaps>>

(* extract reads the whole archive into memory and creates the staging      *)
(* directory; an inline scripture has its files in memory already.  An      *)
(* archive that is missing or cut short does not parse.                     *)
Open(p) ==
    /\ At(p, "open")
    /\ LET c == IF path(p) \in InlinePaths THEN want(p) ELSE archive[path(p)] IN
         \/ /\ c \in Contents
            /\ buf' = [buf EXCEPT ![p] = c]
            /\ todo' = [todo EXCEPT ![p] = FilesOf[c]]
            /\ tmp' = [tmp EXCEPT ![path(p)] = [@ EXCEPT !.exists = TRUE]]
            /\ Goto(p, "extract")
            /\ UNCHANGED res
         \/ /\ c \notin Contents
            /\ Abandon(p, "failed")
            /\ UNCHANGED <<buf, todo, tmp>>
    /\ UNCHANGED <<dir, archive, job, mishaps>>

(* A write that fails when the stream is closed.                            *)
LoseTail(d, i) == [d EXCEPT !.exists = TRUE, !.file[i] = Torn, !.lossy = TRUE]

(* One entry is placed (its parent directories are created on the way).     *)
(* write_whole_file and realize_inline look at the stream before its        *)
(* destructor flushes it: a write that fails then cuts the file short, and  *)
(* the loop goes on.                                                        *)
PutFile(p) ==
    /\ At(p, "extract")
    /\ \E i \in todo[p] :
         /\ \/ /\ tmp' = [tmp EXCEPT ![path(p)] =
                            [@ EXCEPT !.exists = TRUE, !.file[i] = buf[p]]]
               /\ UNCHANGED mishaps
            \/ /\ Mishap
               /\ tmp' = [tmp EXCEPT ![path(p)] = LoseTail(@, i)]
         /\ todo' = [todo EXCEPT ![p] = @ \ {i}]
    /\ UNCHANGED <<dir, archive, pc, job, buf, res>>

(* Mutant: a failed write is passed over.                                   *)
SkipFailed(p) ==
    /\ At(p, "extract")
    /\ Mishap
    /\ \E i \in todo[p] : todo' = [todo EXCEPT ![p] = @ \ {i}]
    /\ UNCHANGED <<disk, pc, job, buf, res>>

(* An entry would escape the staging directory, its file cannot be opened,  *)
(* or a write fails while the stream is still looked at, which leaves the   *)
(* file cut short: the staging directory is given up.                       *)
PutFails(p) ==
    /\ At(p, "extract")
    /\ Mishap
    /\ \E i \in todo[p] : \E left \in {tmp[path(p)].file[i], Torn} :
         tmp' = [tmp EXCEPT ![path(p)] = [@ EXCEPT !.exists = TRUE, !.file[i] = left]]
    /\ Abandon(p, "failed")
    /\ UNCHANGED <<dir, archive, job, buf, todo>>

(* All entries placed.                                                      *)
Extracted(p) ==
    /\ At(p, "extract")
    /\ todo[p] = {}
    /\ Goto(p, "marker")
    /\ UNCHANGED <<disk, job, buf, todo, res, mishaps>>

(* The marker file is opened (E0231 if the staging directory is gone) and    *)
(* written; nobody asks whether the write succeeded.                         *)
WriteMarker(p) ==
    /\ At(p, "marker")
    /\ \/ /\ tmp[path(p)].exists
          /\ \E m \in {want(p), Torn} :
               /\ IF m = Torn THEN Mishap ELSE UNCHANGED mishaps
               /\ tmp' = [tmp EXCEPT ![path(p)] = [@ EXCEPT !.marker = m]]
          /\ Goto(p, "publish")
          /\ UNCHANGED res
       \/ /\ ~ tmp[path(p)].exists
          /\ Abandon(p, "failed")
          /\ UNCHANGED <<tmp, mishaps>>
    /\ UNCHANGED <<dir, archive, job, buf, todo>>

(* The atomic publish.                                                      *)
Publish(p) ==
    /\ At(p, "publish")
    /\ CanRename(path(p))
    /\ Rename(path(p))
    /\ Return(p, "realized")
    /\ UNCHANGED <<archive, job, buf, todo, mishaps>>

(* The rename was refused: a matching marker at the target means another    *)
(* process won, anything else is E0232.  Either way tmp is discarded.       *)
PublishRefused(p) ==
    /\ At(p, "publish")
    /\ ~ CanRename(path(p))
    /\ Goto(p, "lost")
    /\ UNCHANGED <<disk, job, buf, todo, res, mishaps>>

(* Mutant: retry the rename until it works or somebody wins.                *)
RetryRename(p) ==
    /\ At(p, "lost")
    /\ IF CacheState(dir[path(p)], want(p)) = "Hit"
       THEN Abandon(p, "hit") ELSE Goto(p, "publish") /\ UNCHANGED res
    /\ UNCHANGED <<disk, job, buf, todo, mishaps>>

LostRace(p) ==
    /\ At(p, "lost")
    /\ Abandon(p, IF CacheState(dir[path(p)], want(p)) = "Hit" THEN "hit" ELSE "failed")
    /\ UNCHANGED <<disk, job, buf, todo, mishaps>>

(* remove_all(tmp) on the way out; the result is already decided.           *)
Discard(p) ==
    /\ At(p, "discard")
    /\ \/ /\ \E d \in Removals(tmp[path(p)]) : tmp' = [tmp EXCEPT ![path(p)] = d]
          /\ UNCHANGED pc
       \/ /\ Removals(tmp[path(p)]) = {}
          /\ tmp' = [tmp EXCEPT ![path(p)] = NoDir]
          /\ Goto(p, "idle")
    /\ UNCHANGED <<dir, archive, job, buf, todo, res, mishaps>>

(* The process dies: its memory is gone, the disk stays as it is.           *)
Crash(p) ==
    /\ Active(p)
    /\ Mishap
    /\ Return(p, "none")
    /\ UNCHANGED <<disk, job, buf, todo>>

-----------------------------------------------------------------------------
(* One step of a call in progress, the crash apart.                         *)
Step(p) ==
    \/ Check(p) \/ Download(p) \/ Fetched(p) \/ FetchFails(p) \/ VerifyDownload(p)
    \/ Verify(p) \/ ClearDir(p) \/ ClearTmp(p) \/ Open(p)
    \/ PutFile(p) \/ PutFails(p) \/ Extracted(p) \/ WriteMarker(p)
    \/ Publish(p) \/ PublishRefused(p) \/ LostRace(p) \/ Discard(p)

Next == \E p \in Procs : Step(p) \/ Crash(p) \/ \E r \in Requests : Begin(p, r)

(* A running process keeps running; nobody is obliged to call or to crash.  *)
Fairness == \A p \in Procs : WF_vars(Step(p))

Spec     == Init /\ [][Next]_vars
FairSpec == Spec /\ Fairness

(* The store as its comments assume it: at most one process at a time works *)
(* on a given path.  Nothing in the code enforces this.                     *)
Unclaimed(x) == \A q \in Procs : Active(q) => path(q) # x

SerialNext == \E p \in Procs :
                 \/ Step(p) \/ Crash(p)
                 \/ \E r \in Requests : Unclaimed(r.path) /\ Begin(p, r)

SerialSpec     == Init /\ [][SerialNext]_vars
FairSerialSpec == SerialSpec /\ Fairness

-----------------------------------------------------------------------------
(* Properties.                                                              *)

Marked(d) == d.marker \in Contents
(* These files are there, those of the content and no others; one is cut    *)
(* short only if the error came too late for the code to see.               *)
Holds(d, c, files) == \A i \in Parts :
    IF i \in files THEN d.file[i] = c \/ (d.lossy /\ d.file[i] = Torn)
                   ELSE d.file[i] = None
Filled(d, c) == Holds(d, c, FilesOf[c])

(* A directory at a store path whose marker is valid holds the files of     *)
(* exactly the content its marker names, whole unless a write failed when   *)
(* its stream was closed: an interrupted realize, or one that saw a write   *)
(* fail, leaves no marker there.  Well-typed state is part of it.           *)
MarkedIsComplete == TypeOK /\ \A x \in Paths : Marked(dir[x]) => Filled(dir[x], dir[x].marker)

(* Once published, a store path never changes again: neither a retry, nor a *)
(* colliding request, nor a losing racer touches it.                        *)
PublishedIsImmutable == [][\A x \in Paths : Marked(dir[x]) => dir'[x] = dir[x]]_vars

(* A call that reports success leaves the files of the requested content,   *)
(* and of nothing else, at the path it returns.  What failed only when a    *)
(* stream was closed is not reported: then the marker may be torn and a     *)
(* file cut short.                                                          *)
SuccessIsComplete ==
    [][\A p \in Procs : Active(p) /\ pc'[p] = "idle" /\ res'[p] \in Successes
          => dir'[path(p)].exists /\ Filled(dir'[path(p)], want(p))]_vars

(* H-3: whatever earlier attempts left on disk, a request started after the *)
(* last mishap, for a path not claimed by different content, ends in        *)
(* success.                                                                 *)
RetrySucceeds ==
    \A p \in Procs :
        (/\ pc[p] = "check" /\ mishaps = MaxMishaps
         /\ CacheState(dir[path(p)], want(p)) # "Collision")
        ~> (pc[p] = "idle" /\ res[p] \in Successes)

(* Races included, every call returns, unless other processes keep starting *)
(* calls for ever (whose writes a remove_all could chase).                  *)
CallsReturn ==
    \A p \in Procs : \/ []<>(\E q \in Procs \ {p} : pc[q] = "check")
                     \/ Active(p) ~> ~ Active(p)

(* The protocol implements the write-once registers of ContentStore.        *)
Registers == [x \in Paths |-> IF Marked(dir[x]) THEN dir[x].marker ELSE None]
Abs == INSTANCE ContentStore WITH stored <- Registers
ImplementsContentStore == Abs!Spec

(* Statements of the comments that the code does not keep.                  *)

(* "crash-safe: an interrupted realize leaves no marker, so the next attempt*)
(* re-extracts" (store.hpp): what is marked is whole.                       *)
MarkedIsWhole == \A x \in Paths : Marked(dir[x]) => \A i \in Parts : dir[x].file[i] # Torn
=============================================================================
