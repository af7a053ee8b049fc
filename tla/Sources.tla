------------------------------ MODULE Sources -------------------------------
(***************************************************************************)
(* libs/kuli-bp/src/source.cpp: the repositories of blueprints a user has   *)
(* registered.  An entry file names the repository and the commit; for a    *)
(* github source a copy of the repository's tree is kept beside it, fetched *)
(* as a zip into a temporary file named after the repository.  No locks.    *)
(***************************************************************************)
EXTENDS Naturals

CONSTANTS Procs,      \* kuli processes
          Names,      \* names of sources
          Repos,      \* github repositories, as owner/repo
          Zips,       \* names of temporary zip files
          ZipOf,      \* the one each repository is fetched into
          MaxHead,    \* bound on the commits of a repository
          Faults,     \* the mishaps that may happen: a set of kinds
          MaxMishaps, \* bound on their number
          Local,      \* a source that is a directory of the user
          Unknown,    \* a commit that could not be asked for
          None,       \* no file
          Torn        \* a file truncated and not yet written, or cut short

Commits  == 1 .. MaxHead
Entry    == [repo : Repos \cup {Local}, commit : Commits \cup {Unknown}]
(* What a repository held at a commit, all of it or not: a directory, or a  *)
(* zip that fetch_to_file has returned.                                     *)
Copy     == [repo : Repos, commit : Commits, whole : BOOLEAN]

ASSUME SourcesAssumption ==
    /\ ZipOf \in [Repos -> Zips]
    /\ MaxHead \in Nat \ {0} /\ MaxMishaps \in Nat
    /\ {None, Torn} \cap Copy = {}

VARIABLES head,    \* the last commit of each repository
          entry,   \* bp-sources/<name>.toml
          tree,    \* bp_sources/<name>/
          zip,     \* the temporary zips
          task,    \* each process: where it is and what it has read
          mishaps  \* crashes, failed requests and failed writes so far

vars == <<head, entry, tree, zip, task, mishaps>>

Task == [pc : {"idle", "fetch", "download", "clear", "extract", "sha", "enter", "drop", "droptree"},
         cmd : {"add", "update", "remove", None}, name : Names \cup {None},
         repo : Repos \cup {Local, None}, commit : Commits \cup {Unknown},
         ret : {"none", "ok", "fail"}]

Fresh == [pc |-> "idle", cmd |-> None, name |-> None, repo |-> None, commit |-> Unknown,
          ret |-> "none"]

TypeOK ==
    /\ head \in [Repos -> Commits]
    /\ entry \in [Names -> Entry \cup {None, Torn}]
    /\ tree \in [Names -> Copy \cup {None}]
    /\ zip \in [Zips -> Copy \cup {None, Torn}]
    /\ task \in [Procs -> Task]
    /\ mishaps \in 0 .. MaxMishaps

Init ==
    /\ head = [r \in Repos |-> 1]
    /\ entry = [s \in Names |-> None]
    /\ tree = [s \in Names |-> None]
    /\ zip = [f \in Zips |-> None]
    /\ task = [p \in Procs |-> Fresh]
    /\ mishaps = 0

-----------------------------------------------------------------------------
At(p, l)     == task[p].pc = l
Become(p, s) == task' = [task EXCEPT ![p] = s]
Goto(p, l)   == Become(p, [task[p] EXCEPT !.pc = l])
End(p, r)    == Become(p, [Fresh EXCEPT !.ret = r])
Active(p)    == ~ At(p, "idle")
Name(p)      == task[p].name
Zip(p)       == ZipOf[task[p].repo]

(* "crash", "net" (a request fails), "disk" (a file cannot be written) and  *)
(* "torn" (what is written is lost, nobody checks).                         *)
Mishap(kind) == kind \in Faults /\ mishaps < MaxMishaps /\ mishaps' = mishaps + 1

(* find(): an entry without a url is no entry.                              *)
Registered(s) == entry[s] \notin {None, Torn}

(* add() of a github repository fetches it; a directory is only entered.    *)
Add(p, s, r) ==
    /\ At(p, "idle")
    /\ Become(p, [Fresh EXCEPT !.pc = IF r = Local THEN "enter" ELSE "fetch",
                               !.cmd = "add", !.name = s, !.repo = r])
    /\ UNCHANGED <<head, entry, tree, zip, mishaps>>

Update(p, s) ==
    /\ At(p, "idle")
    /\ IF ~ Registered(s) THEN End(p, "fail")
       ELSE IF entry[s].repo = Local THEN End(p, "ok")
       ELSE Become(p, [Fresh EXCEPT !.pc = "fetch", !.cmd = "update", !.name = s,
                                    !.repo = entry[s].repo])
    /\ UNCHANGED <<head, entry, tree, zip, mishaps>>

-----------------------------------------------------------------------------
(* sync_github.                                                             *)

(* Mutant: the copy is cleared before the download.                         *)
StartCleared(p) ==
    /\ At(p, "fetch")
    /\ zip' = [zip EXCEPT ![Zip(p)] = Torn]
    /\ tree' = [tree EXCEPT ![Name(p)] = None]
    /\ Goto(p, "download")
    /\ UNCHANGED <<head, entry, mishaps>>

(* Mutant: a zip that is already there is not fetched again.                *)
StartReusing(p) ==
    /\ At(p, "fetch")
    /\ IF zip[Zip(p)] \in {None, Torn}
       THEN zip' = [zip EXCEPT ![Zip(p)] = Torn] /\ Goto(p, "download")
       ELSE Goto(p, "clear") /\ UNCHANGED zip
    /\ UNCHANGED <<head, entry, tree, mishaps>>

(* The temporary zip is truncated and the download begins ...               *)
StartDownload(p) ==
    /\ At(p, "fetch")
    /\ zip' = [zip EXCEPT ![Zip(p)] = Torn]
    /\ Goto(p, "download")
    /\ UNCHANGED <<head, entry, tree, mishaps>>

(* ... which brings the last commit, or fails and leaves no zip.  Nobody    *)
(* asks whether the zip could be flushed and closed, and there is no hash   *)
(* to compare it with, so a zip that is cut short is returned as well.      *)
Download(p) ==
    /\ At(p, "download")
    /\ LET Arrive(w) == /\ zip' = [zip EXCEPT ![Zip(p)] =
                                      [repo |-> task[p].repo, commit |-> head[task[p].repo],
                                       whole |-> w]]
                        /\ Goto(p, "clear")
       IN \/ Arrive(TRUE) /\ UNCHANGED mishaps
          \/ Arrive(FALSE) /\ Mishap("torn")
          \/ Mishap("net") /\ zip' = [zip EXCEPT ![Zip(p)] = None] /\ End(p, "fail")
    /\ UNCHANGED <<head, entry, tree>>

(* The old copy goes ...                                                    *)
Clear(p) ==
    /\ At(p, "clear")
    /\ tree' = [tree EXCEPT ![Name(p)] = None]
    /\ Goto(p, "extract")
    /\ UNCHANGED <<head, entry, zip, mishaps>>

(* Mutant: a zip that cannot be read is an empty repository.                *)
ExtractQuietly(p) ==
    /\ At(p, "extract")
    /\ Goto(p, "sha")
    /\ zip' = [zip EXCEPT ![Zip(p)] = None]
    /\ UNCHANGED <<head, entry, tree, mishaps>>

(* ... and the zip is extracted, in part if a file cannot be written and    *)
(* not at all if its directory, which is at its end, is missing; the zip is *)
(* removed.                                                                 *)
Extract(p) ==
    /\ At(p, "extract")
    /\ LET got == zip[Zip(p)]
           readable == IF got \in {None, Torn} THEN FALSE ELSE got.whole
           Put(w) == tree' = [tree EXCEPT ![Name(p)] =
                                [repo |-> got.repo, commit |-> got.commit, whole |-> w]]
       IN \/ ~ readable /\ End(p, "fail") /\ UNCHANGED <<tree, mishaps>>
          \/ readable /\ Put(TRUE) /\ Goto(p, "sha") /\ UNCHANGED mishaps
          \/ readable /\ Mishap("disk") /\ Put(FALSE) /\ End(p, "fail")
    /\ zip' = [zip EXCEPT ![Zip(p)] = None]
    /\ UNCHANGED <<head, entry>>

(* A second request asks for the commit; it may fail without harm.          *)
AskCommit(p) ==
    /\ At(p, "sha")
    /\ \/ Become(p, [task[p] EXCEPT !.pc = "enter", !.commit = head[task[p].repo]])
          /\ UNCHANGED mishaps
       \/ Mishap("net") /\ Goto(p, "enter")
    /\ UNCHANGED <<head, entry, tree, zip>>

(* Mutant: update leaves the entry alone.                                   *)
EnterNew(p) ==
    /\ At(p, "enter")
    /\ entry' = IF task[p].cmd = "update" THEN entry
                ELSE [entry EXCEPT ![Name(p)] = [repo |-> task[p].repo, commit |-> task[p].commit]]
    /\ End(p, "ok")
    /\ UNCHANGED <<head, tree, zip, mishaps>>

(* write_entry: a temporary file renamed over the entry.                    *)
Enter(p) ==
    /\ At(p, "enter")
    /\ \/ /\ entry' = [entry EXCEPT ![Name(p)] = [repo |-> task[p].repo, commit |-> task[p].commit]]
          /\ End(p, "ok") /\ UNCHANGED mishaps
       \/ Mishap("torn") /\ entry' = [entry EXCEPT ![Name(p)] = Torn] /\ End(p, "ok")
       \/ Mishap("disk") /\ End(p, "fail") /\ UNCHANGED entry
    /\ UNCHANGED <<head, tree, zip>>

-----------------------------------------------------------------------------
(* remove(): the entry, then the copy of a github source.                   *)
Remove(p, s) ==
    /\ At(p, "idle")
    /\ IF Registered(s)
       THEN Become(p, [Fresh EXCEPT !.pc = "drop", !.cmd = "remove", !.name = s,
                                    !.repo = entry[s].repo])
       ELSE End(p, "fail")
    /\ UNCHANGED <<head, entry, tree, zip, mishaps>>

Drop(p) ==
    /\ At(p, "drop")
    /\ entry' = [entry EXCEPT ![Name(p)] = None]
    /\ IF task[p].repo = Local THEN End(p, "ok") ELSE Goto(p, "droptree")
    /\ UNCHANGED <<head, tree, zip, mishaps>>

DropTree(p) ==
    /\ At(p, "droptree")
    /\ tree' = [tree EXCEPT ![Name(p)] = None]
    /\ End(p, "ok")
    /\ UNCHANGED <<head, entry, zip, mishaps>>

(* A process dies between two steps.                                        *)
Crash(p) ==
    /\ Active(p) /\ Mishap("crash")
    /\ End(p, "fail")
    /\ UNCHANGED <<head, entry, tree, zip>>

(* Somebody pushes to a repository.                                         *)
Push(r) ==
    /\ head[r] < MaxHead
    /\ head' = [head EXCEPT ![r] = @ + 1]
    /\ UNCHANGED <<entry, tree, zip, task, mishaps>>

Begin(p) == \E s \in Names : \/ \E r \in Repos \cup {Local} : Add(p, s, r)
                             \/ Update(p, s) \/ Remove(p, s)

Work(p) == \/ StartDownload(p) \/ Download(p) \/ Clear(p) \/ Extract(p) \/ AskCommit(p)
           \/ Enter(p) \/ Drop(p) \/ DropTree(p)

AllQuiet == \A p \in Procs : ~ Active(p)

Next == \/ \E r \in Repos : Push(r)
        \/ \E p \in Procs : Begin(p) \/ Work(p) \/ Crash(p)

(* One command at a time, and nobody pushes while one runs.                 *)
QuietNext == \/ AllQuiet /\ \E r \in Repos : Push(r)
             \/ \E p \in Procs : (AllQuiet /\ Begin(p)) \/ Work(p) \/ Crash(p)

Spec      == Init /\ [][Next]_vars
QuietSpec == Init /\ [][QuietNext]_vars

(* A process that runs goes on until it ends.                               *)
FairSpec == QuietSpec /\ \A p \in Procs : WF_vars(Work(p))

-----------------------------------------------------------------------------
(* Properties.                                                              *)
Whole(s) == IF tree[s] = None THEN FALSE ELSE tree[s].whole

(* The blueprints of a registered source are only given up for a download   *)
(* of its own repository that was reported complete: no request that fails  *)
(* and no death before that costs them.                                     *)
GivenUp(s) ==
    \/ ~ Registered(s)
    \/ \E p \in Procs : /\ Name(p) = s /\ task[p].repo \in Repos /\ zip[Zip(p)] \in Copy
                        /\ zip[Zip(p)].repo = task[p].repo

KeepStep == \A s \in Names : Whole(s) /\ ~ Whole(s)' => GivenUp(s)

KeptUntilFetched == [][KeepStep]_vars

(* Short of mishaps, a source that is registered has its own repository's   *)
(* tree, and the commit its entry names is the one on disk.                 *)
TreeOfEntry(s) ==
    Registered(s) /\ entry[s].repo # Local =>
       /\ Whole(s) /\ tree[s].repo = entry[s].repo
       /\ entry[s].commit \in {Unknown, tree[s].commit}

CommitNamesTree == AllQuiet /\ mishaps = 0 => \A s \in Names : TreeOfEntry(s)

(* What is extracted for a source is its own repository (in a well-typed    *)
(* state).                                                                  *)
OwnRepository ==
    /\ TypeOK
    /\ \A p \in Procs : (At(p, "sha") /\ tree[Name(p)] # None) => tree[Name(p)].repo = task[p].repo

(* When nothing goes wrong any more, an update (which an entry that cannot  *)
(* be read does not get) ends with a whole tree and an entry, whatever      *)
(* earlier attempts left.                                                   *)
UpdateTakesHold ==
    \A s \in Names : \A p \in Procs :
       (At(p, "fetch") /\ task[p].cmd = "update" /\ Name(p) = s /\ mishaps = MaxMishaps)
       ~> (AllQuiet /\ Registered(s) /\ Whole(s) /\ tree[s].repo = entry[s].repo)

(* Statements of the code's own order that it does not keep.                *)

(* sync_github downloads before it removes the old copy: that is given up   *)
(* only when all of the new one is there.                                   *)
KeptUntilArrived ==
    [][\A s \in Names : Registered(s) /\ Whole(s) /\ ~ Whole(s)' =>
          \E p \in Procs : /\ Name(p) = s /\ task[p].repo \in Repos
                           /\ zip[Zip(p)] \in Copy /\ zip[Zip(p)].whole]_vars
=============================================================================
