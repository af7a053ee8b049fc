---------------------------- MODULE SourcesProofs ----------------------------
(***************************************************************************)
(* One command at a time, whatever fails and whoever dies: what is fetched  *)
(* and entered for a source is its own repository, and a copy that is whole *)
(* goes only for a download of it that was reported complete.               *)
(***************************************************************************)
EXTENDS Sources, TLAPS

OthersIdle(p) == \A q \in Procs \ {p} : task[q].pc = "idle"
OneActive     == \A p \in Procs : task[p].pc # "idle" => OthersIdle(p)

(* The last commit of a repository, whole or cut short.                     *)
Last(r, w) == [repo |-> r, commit |-> head[r], whole |-> w]

(* What a process knows, where it is: the zip it has fetched is the last    *)
(* commit of its repository (whole, if no write was lost), and so is the    *)
(* tree it has extracted, which is whole.                                   *)
StageOK(s) ==
    /\ s.pc # "idle" => s.name \in Names
    /\ s.pc \in {"fetch", "download", "clear", "extract", "sha"} =>
         s.repo \in Repos /\ s.commit = Unknown
    /\ s.pc = "enter" => s.repo \in Repos \cup {Local}
    /\ s.pc = "enter" /\ s.commit # Unknown => s.repo \in Repos /\ s.commit = head[s.repo]
    /\ s.pc \in {"clear", "extract"} =>
         \/ zip[ZipOf[s.repo]] = Last(s.repo, TRUE)
         \/ zip[ZipOf[s.repo]] = Last(s.repo, FALSE) /\ mishaps # 0
    /\ s.pc = "extract" => tree[s.name] = None
    /\ s.pc = "sha" \/ (s.pc = "enter" /\ s.repo # Local) =>
         tree[s.name] = Last(s.repo, TRUE)
    /\ s.pc = "droptree" => entry[s.name] = None

(* Between the removal of the old copy and the new entry.                   *)
Between(s, n) == s.name = n /\ s.pc \in {"extract", "sha", "enter"}

Settled == mishaps = 0 =>
               \A n \in Names : TreeOfEntry(n) \/ \E p \in Procs : Between(task[p], n)

SInv == TypeOK /\ OneActive /\ (\A p \in Procs : StageOK(task[p])) /\ Settled

-----------------------------------------------------------------------------
LEMMA FreshFacts ==
    /\ Fresh \in Task /\ Fresh.pc = "idle" /\ Fresh.commit = Unknown
    /\ \A r \in {"none", "ok", "fail"} :
          [Fresh EXCEPT !.ret = r] \in Task /\ [Fresh EXCEPT !.ret = r].pc = "idle"
  BY DEF Fresh, Task

LEMMA IdleOK == ASSUME NEW s, s.pc = "idle" PROVE StageOK(s)
  BY DEF StageOK

LEMMA Mishaps ==
    ASSUME TypeOK, NEW kind, Mishap(kind) PROVE mishaps' \in 0 .. MaxMishaps /\ mishaps' # 0
  BY SourcesAssumption DEF TypeOK, Mishap, SourcesAssumption

(* A step of p, from what it makes of its own task and of the files.        *)
LEMMA Glue ==
    ASSUME SInv, NEW p \in Procs, OthersIdle(p), NEW s \in Task, Become(p, s), UNCHANGED head,
           entry' \in [Names -> Entry \cup {None, Torn}], tree' \in [Names -> Copy \cup {None}],
           zip' \in [Zips -> Copy \cup {None, Torn}], mishaps' \in 0 .. MaxMishaps,
           StageOK(s)',
           mishaps' = 0 => \A n \in Names : TreeOfEntry(n)' \/ Between(s, n)
    PROVE  SInv'
<1>1. /\ task' = [task EXCEPT ![p] = s] /\ task' \in [Procs -> Task]
      /\ task'[p] = s /\ \A q \in Procs \ {p} : task'[q] = task[q]
  BY DEF SInv, TypeOK, Become
<1>2. TypeOK'
  BY <1>1 DEF SInv, TypeOK
<1>3. OneActive'
  BY <1>1 DEF OneActive, OthersIdle
<1>4. ASSUME NEW q \in Procs PROVE StageOK(task[q])'
  <2>1. CASE q = p
    BY <1>1, <2>1 DEF StageOK
  <2>2. CASE q # p
    BY <1>1, <2>2 DEF StageOK, OthersIdle
  <2> QED BY <2>1, <2>2
<1>5. Settled'
  BY <1>1 DEF Settled, Between
<1> QED BY <1>2, <1>3, <1>4, <1>5 DEF SInv

LEMMA Before ==
    ASSUME SInv, NEW p \in Procs, OthersIdle(p), mishaps = 0, NEW n \in Names
    PROVE  TreeOfEntry(n) \/ Between(task[p], n)
  BY DEF SInv, Settled, Between, OthersIdle

(* No file is written and nothing happens that would count as a mishap.     *)
LEMMA GlueMemory ==
    ASSUME SInv, NEW p \in Procs, OthersIdle(p), NEW s \in Task, Become(p, s),
           UNCHANGED <<head, entry, tree, zip>>, mishaps' \in 0 .. MaxMishaps, StageOK(s),
           s.pc \notin {"clear", "extract"},
           mishaps' = 0 => mishaps = 0 /\ \A n \in Names : Between(task[p], n) => Between(s, n)
    PROVE  SInv'
<1>1. /\ entry' \in [Names -> Entry \cup {None, Torn}] /\ tree' \in [Names -> Copy \cup {None}]
      /\ zip' \in [Zips -> Copy \cup {None, Torn}]
  BY DEF SInv, TypeOK
<1>2. StageOK(s)'
  BY DEF StageOK, Last
<1>3. mishaps' = 0 => \A n \in Names : TreeOfEntry(n)' \/ Between(s, n)
  BY Before DEF TreeOfEntry, Registered, Whole
<1> QED BY <1>1, <1>2, <1>3, Glue

(* A command that ends in a mishap, or by one, owes nothing but types.      *)
LEMMA GlueFailed ==
    ASSUME SInv, NEW p \in Procs, OthersIdle(p), NEW r \in {"none", "ok", "fail"}, End(p, r),
           UNCHANGED head,
           entry' \in [Names -> Entry \cup {None, Torn}], tree' \in [Names -> Copy \cup {None}],
           zip' \in [Zips -> Copy \cup {None, Torn}],
           mishaps' \in 0 .. MaxMishaps, mishaps' # 0
    PROVE  SInv'
<1>1. PICK s : s = [Fresh EXCEPT !.ret = r]
  OBVIOUS
<1>2. s \in Task /\ s.pc = "idle" /\ Become(p, s)
  BY <1>1, FreshFacts DEF End
<1>3. StageOK(s)'
  BY <1>2 DEF StageOK
<1> QED BY <1>2, <1>3, Glue

-----------------------------------------------------------------------------
(* The commands begin.                                                      *)
LEMMA BeginStep ==
    ASSUME SInv, NEW p \in Procs, OthersIdle(p), Begin(p) PROVE SInv'
<1>1. /\ At(p, "idle") /\ UNCHANGED <<head, entry, tree, zip, mishaps>>
      /\ mishaps' \in 0 .. MaxMishaps
  BY DEF Begin, Add, Update, Remove, SInv, TypeOK
<1>2. PICK n \in Names : (\E r \in Repos \cup {Local} : Add(p, n, r)) \/ Update(p, n) \/ Remove(p, n)
  BY DEF Begin
<1>3. PICK s : /\ Become(p, s)
               /\ \/ \E r \in {"ok", "fail"} : s = [Fresh EXCEPT !.ret = r]
                  \/ \E r \in Repos \cup {Local}, c \in {"add", "update"} :
                        /\ s = [Fresh EXCEPT !.pc = IF r = Local THEN "enter" ELSE "fetch",
                                             !.cmd = c, !.name = n, !.repo = r]
                  \/ \E r \in Repos \cup {Local} :
                        s = [Fresh EXCEPT !.pc = "drop", !.cmd = "remove", !.name = n, !.repo = r]
  <2>1. ASSUME NEW r \in Repos \cup {Local}, Add(p, n, r)
        PROVE  Become(p, [Fresh EXCEPT !.pc = IF r = Local THEN "enter" ELSE "fetch",
                                       !.cmd = "add", !.name = n, !.repo = r])
    BY <2>1 DEF Add
  <2>2. ASSUME Registered(n) PROVE entry[n].repo \in Repos \cup {Local}
    BY <2>2 DEF Registered, SInv, TypeOK, Entry
  <2>3. CASE Update(p, n)
    BY <2>2, <2>3 DEF Update, End
  <2>4. CASE Remove(p, n)
    BY <2>2, <2>4 DEF Remove, End
  <2> QED BY <1>2, <2>1, <2>3, <2>4
<1>4. s \in Task /\ StageOK(s) /\ s.pc \notin {"clear", "extract"}
  <2>1. CASE \E r \in {"ok", "fail"} : s = [Fresh EXCEPT !.ret = r]
    BY <2>1, FreshFacts DEF StageOK
  <2>2. ASSUME NEW r \in Repos \cup {Local}, NEW c \in {"add", "update"},
               s = [Fresh EXCEPT !.pc = IF r = Local THEN "enter" ELSE "fetch",
                                 !.cmd = c, !.name = n, !.repo = r]
        PROVE  s \in Task /\ StageOK(s) /\ s.pc \notin {"clear", "extract"}
    <3>1. CASE r = Local
      <4>1. s \in Task /\ s.pc = "enter" /\ s.name = n /\ s.repo = Local /\ s.commit = Unknown
        BY <2>2, <3>1 DEF Fresh, Task
      <4> QED BY <4>1 DEF StageOK
    <3>2. CASE r # Local
      <4>1. s \in Task /\ s.pc = "fetch" /\ s.name = n /\ s.repo = r /\ s.commit = Unknown
        BY <2>2, <3>2 DEF Fresh, Task
      <4> QED BY <3>2, <4>1 DEF StageOK
    <3> QED BY <3>1, <3>2
  <2>3. ASSUME NEW r \in Repos \cup {Local},
               s = [Fresh EXCEPT !.pc = "drop", !.cmd = "remove", !.name = n, !.repo = r]
        PROVE  s \in Task /\ StageOK(s) /\ s.pc \notin {"clear", "extract"}
    <3>1. s \in Task /\ s.pc = "drop" /\ s.name = n
      BY <2>3 DEF Fresh, Task
    <3> QED BY <3>1 DEF StageOK
  <2> QED BY <1>3, <2>1, <2>2, <2>3
<1>5. \A x \in Names : ~ Between(task[p], x)
  BY <1>1 DEF Between, At
<1> QED BY <1>1, <1>3, <1>4, <1>5, GlueMemory

(* What a process that is at work knows of itself.                          *)
LEMMA AtWork ==
    ASSUME SInv, NEW p \in Procs, task[p].pc # "idle"
    PROVE  task[p] \in Task /\ OthersIdle(p) /\ StageOK(task[p]) /\ task[p].name \in Names
  BY DEF SInv, TypeOK, OneActive, StageOK

(* Where it goes next it is still a task.                                   *)
LEMMA GoFacts ==
    ASSUME NEW t \in Task, NEW l \in {"download", "clear", "extract", "sha", "enter", "droptree"},
           NEW s, s = [t EXCEPT !.pc = l]
    PROVE  s \in Task /\ s.pc = l /\ s.name = t.name /\ s.repo = t.repo /\ s.commit = t.commit
  BY DEF Task

LEMMA CrashStep ==
    ASSUME SInv, NEW p \in Procs, Crash(p) PROVE SInv'
<1>1. /\ task[p].pc # "idle" /\ Mishap("crash") /\ End(p, "fail")
      /\ UNCHANGED <<head, entry, tree, zip>>
  BY DEF Crash, Active, At
<1>2. /\ entry' \in [Names -> Entry \cup {None, Torn}] /\ tree' \in [Names -> Copy \cup {None}]
      /\ zip' \in [Zips -> Copy \cup {None, Torn}]
  BY <1>1 DEF SInv, TypeOK
<1>3. mishaps' \in 0 .. MaxMishaps /\ mishaps' # 0
  BY <1>1, Mishaps DEF SInv
<1> QED BY <1>1, <1>2, <1>3, AtWork, GlueFailed

LEMMA StartDownloadStep ==
    ASSUME SInv, NEW p \in Procs, StartDownload(p) PROVE SInv'
<1>1. /\ task[p].pc = "fetch" /\ UNCHANGED <<head, entry, tree, mishaps>>
      /\ zip' = [zip EXCEPT ![ZipOf[task[p].repo]] = Torn]
  BY DEF StartDownload, At, Zip
<1>2. PICK s : s = [task[p] EXCEPT !.pc = "download"]
  OBVIOUS
<1>3. Become(p, s)
  BY <1>2 DEF StartDownload, Goto
<1>4. task[p] \in Task /\ OthersIdle(p) /\ StageOK(task[p]) /\ task[p].name \in Names
  BY <1>1, AtWork
<1>5. s \in Task /\ s.pc = "download" /\ s.name = task[p].name /\ s.repo = task[p].repo
      /\ s.commit = task[p].commit
  BY <1>2, <1>4, GoFacts
<1>6. StageOK(s)'
  BY <1>1, <1>4, <1>5 DEF StageOK
<1>7. mishaps' = 0 => \A n \in Names : TreeOfEntry(n)' \/ Between(s, n)
  BY <1>1, <1>4, Before DEF Between, TreeOfEntry, Registered, Whole
<1>8. /\ entry' \in [Names -> Entry \cup {None, Torn}] /\ tree' \in [Names -> Copy \cup {None}]
      /\ zip' \in [Zips -> Copy \cup {None, Torn}] /\ mishaps' \in 0 .. MaxMishaps
  BY <1>1 DEF SInv, TypeOK
<1> QED BY <1>1, <1>3, <1>4, <1>5, <1>6, <1>7, <1>8, Glue

LEMMA DownloadStep ==
    ASSUME SInv, NEW p \in Procs, Download(p) PROVE SInv'
<1>1. task[p].pc = "download" /\ UNCHANGED <<head, entry, tree>>
  BY DEF Download, At
<1>2. task[p] \in Task /\ OthersIdle(p) /\ StageOK(task[p]) /\ task[p].name \in Names
  BY <1>1, AtWork
<1>3. task[p].repo \in Repos /\ ZipOf[task[p].repo] \in Zips /\ head[task[p].repo] \in Commits
  BY <1>1, <1>2, SourcesAssumption DEF StageOK, SInv, TypeOK, SourcesAssumption
<1>4. entry' \in [Names -> Entry \cup {None, Torn}] /\ tree' \in [Names -> Copy \cup {None}]
  BY <1>1 DEF SInv, TypeOK
<1>5. ASSUME NEW w \in BOOLEAN, zip' = [zip EXCEPT ![Zip(p)] = Last(task[p].repo, w)],
             Goto(p, "clear"), mishaps' \in 0 .. MaxMishaps, mishaps' = 0 => mishaps = 0 /\ w
      PROVE  SInv'
  <2>1. PICK s : s = [task[p] EXCEPT !.pc = "clear"]
    OBVIOUS
  <2>2. Become(p, s)
    BY <1>5, <2>1 DEF Goto
  <2>3. s \in Task /\ s.pc = "clear" /\ s.name = task[p].name /\ s.repo = task[p].repo
        /\ s.commit = task[p].commit
    BY <2>1, <1>2, GoFacts
  <2>4. Last(task[p].repo, w) \in Copy
    BY <1>3 DEF Last, Copy
  <2>5. /\ zip' \in [Zips -> Copy \cup {None, Torn}]
        /\ zip'[ZipOf[task[p].repo]] = Last(task[p].repo, w)
    BY <1>3, <1>5, <2>4 DEF SInv, TypeOK, Zip
  <2>6. StageOK(s)'
    BY <1>1, <1>2, <1>5, <2>3, <2>5 DEF StageOK, Last
  <2>7. mishaps' = 0 => \A n \in Names : TreeOfEntry(n)' \/ Between(s, n)
    BY <1>1, <1>2, <1>5, Before DEF Between, TreeOfEntry, Registered, Whole
  <2> QED BY <1>1, <1>2, <1>4, <1>5, <2>2, <2>3, <2>5, <2>6, <2>7, Glue
<1>6. ASSUME Mishap("net"), zip' = [zip EXCEPT ![Zip(p)] = None], End(p, "fail")
      PROVE  SInv'
  <2>1. zip' \in [Zips -> Copy \cup {None, Torn}]
    BY <1>6 DEF SInv, TypeOK
  <2>2. mishaps' \in 0 .. MaxMishaps /\ mishaps' # 0
    BY <1>6, Mishaps DEF SInv
  <2> QED BY <1>1, <1>2, <1>4, <1>6, <2>1, <2>2, GlueFailed
<1>7. ASSUME zip' = [zip EXCEPT ![Zip(p)] = Last(task[p].repo, TRUE)], Goto(p, "clear"),
             UNCHANGED mishaps
      PROVE  SInv'
  BY <1>5, <1>7 DEF SInv, TypeOK
<1>8. ASSUME zip' = [zip EXCEPT ![Zip(p)] = Last(task[p].repo, FALSE)], Goto(p, "clear"),
             Mishap("torn")
      PROVE  SInv'
  <2>1. mishaps' \in 0 .. MaxMishaps /\ mishaps' # 0
    BY <1>8, Mishaps DEF SInv
  <2> QED BY <1>5, <1>8, <2>1
<1> QED BY <1>6, <1>7, <1>8 DEF Download, Last

LEMMA ClearStep ==
    ASSUME SInv, NEW p \in Procs, Clear(p) PROVE SInv'
<1>1. /\ task[p].pc = "clear" /\ UNCHANGED <<head, entry, zip, mishaps>>
      /\ tree' = [tree EXCEPT ![task[p].name] = None]
  BY DEF Clear, At, Name
<1>2. PICK s : s = [task[p] EXCEPT !.pc = "extract"]
  OBVIOUS
<1>3. Become(p, s)
  BY <1>2 DEF Clear, Goto
<1>4. task[p] \in Task /\ OthersIdle(p) /\ StageOK(task[p]) /\ task[p].name \in Names
  BY <1>1, AtWork
<1>5. s \in Task /\ s.pc = "extract" /\ s.name = task[p].name /\ s.repo = task[p].repo
      /\ s.commit = task[p].commit
  BY <1>2, <1>4, GoFacts
<1>6. /\ entry' \in [Names -> Entry \cup {None, Torn}] /\ tree' \in [Names -> Copy \cup {None}]
      /\ zip' \in [Zips -> Copy \cup {None, Torn}] /\ mishaps' \in 0 .. MaxMishaps
      /\ tree'[task[p].name] = None /\ \A n \in Names \ {task[p].name} : tree'[n] = tree[n]
  BY <1>1, <1>4 DEF SInv, TypeOK
<1>7. StageOK(s)'
  BY <1>1, <1>4, <1>5, <1>6 DEF StageOK, Last
<1>8. ASSUME mishaps' = 0, NEW n \in Names PROVE TreeOfEntry(n)' \/ Between(s, n)
  <2>1. CASE n = task[p].name
    BY <1>5, <2>1 DEF Between
  <2>2. CASE n # task[p].name
    BY <1>1, <1>4, <1>6, <1>8, <2>2, Before DEF Between, TreeOfEntry, Registered, Whole
  <2> QED BY <2>1, <2>2
<1> QED BY <1>1, <1>3, <1>4, <1>5, <1>6, <1>7, <1>8, Glue

LEMMA ExtractStep ==
    ASSUME SInv, NEW p \in Procs, Extract(p) PROVE SInv'
<1>1. /\ task[p].pc = "extract" /\ UNCHANGED <<head, entry>>
      /\ zip' = [zip EXCEPT ![ZipOf[task[p].repo]] = None]
  BY DEF Extract, At, Zip
<1>2. task[p] \in Task /\ OthersIdle(p) /\ StageOK(task[p]) /\ task[p].name \in Names
  BY <1>1, AtWork
<1>3. task[p].repo \in Repos /\ head[task[p].repo] \in Commits
  BY <1>1, <1>2 DEF StageOK, SInv, TypeOK
<1>4. PICK w \in BOOLEAN : zip[Zip(p)] = Last(task[p].repo, w) /\ (w \/ mishaps # 0)
  BY <1>1, <1>2 DEF StageOK, Zip
<1>5. /\ entry' \in [Names -> Entry \cup {None, Torn}] /\ zip' \in [Zips -> Copy \cup {None, Torn}]
      /\ tree \in [Names -> Copy \cup {None}]
  BY <1>1 DEF SInv, TypeOK
<1>6. /\ zip[Zip(p)] \notin {None, Torn} /\ zip[Zip(p)].whole = w
      /\ zip[Zip(p)].repo = task[p].repo /\ zip[Zip(p)].commit = head[task[p].repo]
  <2>1. Last(task[p].repo, w) \in Copy
    BY <1>3 DEF Last, Copy
  <2>2. zip[Zip(p)] \notin {None, Torn}
    BY <1>4, <2>1, SourcesAssumption DEF SourcesAssumption
  <2> QED BY <1>4, <2>2 DEF Last
<1>7. ASSUME tree' = [tree EXCEPT ![task[p].name] =
                         Last(task[p].repo, TRUE)],
             Goto(p, "sha"), UNCHANGED mishaps
      PROVE  SInv'
  <2>1. PICK s : s = [task[p] EXCEPT !.pc = "sha"]
    OBVIOUS
  <2>2. Become(p, s)
    BY <1>7, <2>1 DEF Goto
  <2>3. s \in Task /\ s.pc = "sha" /\ s.name = task[p].name /\ s.repo = task[p].repo
        /\ s.commit = task[p].commit
    BY <2>1, <1>2, GoFacts
  <2>4. Last(task[p].repo, TRUE) \in Copy
    BY <1>3 DEF Copy, Last
  <2>5. /\ tree' \in [Names -> Copy \cup {None}] /\ mishaps' \in 0 .. MaxMishaps
        /\ tree'[task[p].name] = Last(task[p].repo, TRUE)
        /\ \A n \in Names \ {task[p].name} : tree'[n] = tree[n]
    BY <1>2, <1>7, <2>4 DEF SInv, TypeOK
  <2>6. StageOK(s)'
    BY <1>1, <1>2, <2>3, <2>5 DEF StageOK, Last
  <2>7. ASSUME mishaps' = 0, NEW n \in Names PROVE TreeOfEntry(n)' \/ Between(s, n)
    <3>1. CASE n = task[p].name
      BY <2>3, <3>1 DEF Between
    <3>2. CASE n # task[p].name
      BY <1>1, <1>2, <1>7, <2>5, <2>7, <3>2, Before DEF Between, TreeOfEntry, Registered, Whole
    <3> QED BY <3>1, <3>2
  <2> QED BY <1>1, <1>2, <1>5, <2>2, <2>3, <2>5, <2>6, <2>7, Glue
<1>8. ASSUME tree' = [tree EXCEPT ![task[p].name] =
                         Last(task[p].repo, FALSE)],
             Mishap("disk"), End(p, "fail")
      PROVE  SInv'
  <2>1. Last(task[p].repo, FALSE) \in Copy
    BY <1>3 DEF Copy, Last
  <2>2. tree' \in [Names -> Copy \cup {None}]
    BY <1>8, <2>1 DEF SInv, TypeOK
  <2>3. mishaps' \in 0 .. MaxMishaps /\ mishaps' # 0
    BY <1>8, Mishaps DEF SInv
  <2> QED BY <1>1, <1>2, <1>5, <1>8, <2>2, <2>3, GlueFailed
<1>9. ASSUME ~ w, End(p, "fail"), UNCHANGED <<tree, mishaps>>
      PROVE  SInv'
  <2>1. mishaps' \in 0 .. MaxMishaps /\ mishaps' # 0
    BY <1>4, <1>9 DEF SInv, TypeOK
  <2> QED BY <1>1, <1>2, <1>5, <1>9, <2>1, GlueFailed
<1> QED BY <1>6, <1>7, <1>8, <1>9 DEF Extract, Name, Last

LEMMA AskCommitStep ==
    ASSUME SInv, NEW p \in Procs, AskCommit(p) PROVE SInv'
<1>1. task[p].pc = "sha" /\ UNCHANGED <<head, entry, tree, zip>>
  BY DEF AskCommit, At
<1>2. task[p] \in Task /\ OthersIdle(p) /\ StageOK(task[p]) /\ task[p].name \in Names
  BY <1>1, AtWork
<1>3. /\ task[p].repo \in Repos /\ head[task[p].repo] \in Commits /\ task[p].commit = Unknown
      /\ tree[task[p].name] = Last(task[p].repo, TRUE)
  BY <1>1, <1>2 DEF StageOK, SInv, TypeOK
<1>4. ASSUME NEW c \in {head[task[p].repo], Unknown},
             Become(p, [task[p] EXCEPT !.pc = "enter", !.commit = c]),
             mishaps' \in 0 .. MaxMishaps, mishaps' = 0 => mishaps = 0
      PROVE  SInv'
  <2>1. PICK s : s = [task[p] EXCEPT !.pc = "enter", !.commit = c]
    OBVIOUS
  <2>2. /\ Become(p, s) /\ s \in Task /\ s.pc = "enter" /\ s.name = task[p].name
        /\ s.repo = task[p].repo /\ s.commit = c
    BY <1>2, <1>3, <1>4, <2>1 DEF Task
  <2>3. StageOK(s)
    BY <1>2, <1>3, <2>2 DEF StageOK
  <2>4. \A n \in Names : Between(task[p], n) => Between(s, n)
    BY <2>2 DEF Between
  <2> QED BY <1>1, <1>2, <1>4, <2>2, <2>3, <2>4, GlueMemory
<1>5. CASE /\ Become(p, [task[p] EXCEPT !.pc = "enter", !.commit = head[task[p].repo]])
           /\ UNCHANGED mishaps
  BY <1>4, <1>5 DEF SInv, TypeOK
<1>6. CASE Mishap("net") /\ Goto(p, "enter")
  <2>1. [task[p] EXCEPT !.pc = "enter"] = [task[p] EXCEPT !.pc = "enter", !.commit = Unknown]
    BY <1>2, <1>3 DEF Task
  <2>2. mishaps' \in 0 .. MaxMishaps /\ mishaps' # 0
    BY <1>6, Mishaps DEF SInv
  <2> QED BY <1>4, <1>6, <2>1, <2>2 DEF Goto
<1> QED BY <1>5, <1>6 DEF AskCommit

LEMMA EnterStep ==
    ASSUME SInv, NEW p \in Procs, Enter(p) PROVE SInv'
<1>1. task[p].pc = "enter" /\ UNCHANGED <<head, tree, zip>>
  BY DEF Enter, At
<1>2. task[p] \in Task /\ OthersIdle(p) /\ StageOK(task[p]) /\ task[p].name \in Names
  BY <1>1, AtWork
<1>3. /\ task[p].repo \in Repos \cup {Local} /\ task[p].commit \in Commits \cup {Unknown}
      /\ task[p].commit # Unknown => task[p].commit = head[task[p].repo]
      /\ task[p].repo # Local =>
           tree[task[p].name] = Last(task[p].repo, TRUE)
  BY <1>1, <1>2 DEF StageOK, Task
<1>4. tree' \in [Names -> Copy \cup {None}] /\ zip' \in [Zips -> Copy \cup {None, Torn}]
  BY <1>1 DEF SInv, TypeOK
<1>5. ASSUME entry' = [entry EXCEPT ![Name(p)] = [repo |-> task[p].repo, commit |-> task[p].commit]],
             End(p, "ok"), UNCHANGED mishaps
      PROVE  SInv'
  <2>1. PICK s : s = [Fresh EXCEPT !.ret = "ok"]
    OBVIOUS
  <2>2. s \in Task /\ s.pc = "idle" /\ Become(p, s)
    BY <1>5, <2>1, FreshFacts DEF End
  <2>3. [repo |-> task[p].repo, commit |-> task[p].commit] \in Entry
    BY <1>3 DEF Entry
  <2>4. /\ entry' \in [Names -> Entry \cup {None, Torn}] /\ mishaps' \in 0 .. MaxMishaps
        /\ entry'[task[p].name] = [repo |-> task[p].repo, commit |-> task[p].commit]
        /\ \A n \in Names \ {task[p].name} : entry'[n] = entry[n]
    BY <1>2, <1>5, <2>3 DEF SInv, TypeOK, Name
  <2>5. StageOK(s)'
    BY <2>2 DEF StageOK
  <2>6. ASSUME mishaps' = 0, NEW n \in Names PROVE TreeOfEntry(n)' \/ Between(s, n)
    <3>1. CASE n = task[p].name
      <4>1. tree'[n] = tree[n] /\ entry'[n].repo = task[p].repo /\ entry'[n].commit = task[p].commit
        BY <1>1, <2>4, <3>1
      <4>2. ASSUME task[p].repo # Local
            PROVE  /\ Whole(n)' /\ tree'[n].repo = task[p].repo
                   /\ tree'[n].commit = head[task[p].repo]
        <5>1. /\ tree[n] = Last(task[p].repo, TRUE)
              /\ task[p].repo \in Repos /\ head[task[p].repo] \in Commits
          BY <1>3, <3>1, <4>2 DEF SInv, TypeOK
        <5>2. tree[n] \in Copy
          BY <5>1 DEF Copy, Last
        <5>3. tree'[n] # None
          BY <4>1, <5>2, SourcesAssumption DEF SourcesAssumption
        <5>4. /\ tree'[n].whole = TRUE /\ tree'[n].repo = task[p].repo
              /\ tree'[n].commit = head[task[p].repo]
          BY <4>1, <5>1 DEF Last
        <5> QED BY <5>3, <5>4 DEF Whole
      <4> QED BY <1>3, <4>1, <4>2 DEF TreeOfEntry
    <3>2. CASE n # task[p].name
      BY <1>1, <1>2, <1>5, <2>4, <2>6, <3>2, Before DEF Between, TreeOfEntry, Registered, Whole
    <3> QED BY <3>1, <3>2
  <2> QED BY <1>1, <1>2, <1>4, <2>2, <2>4, <2>5, <2>6, Glue
<1>6. ASSUME NEW kind, Mishap(kind), entry' \in [Names -> Entry \cup {None, Torn}],
             NEW r \in {"ok", "fail"}, End(p, r)
      PROVE  SInv'
  <2>1. mishaps' \in 0 .. MaxMishaps /\ mishaps' # 0
    BY <1>6, Mishaps DEF SInv
  <2> QED BY <1>1, <1>2, <1>4, <1>6, <2>1, GlueFailed
<1>7. CASE Mishap("torn") /\ entry' = [entry EXCEPT ![Name(p)] = Torn] /\ End(p, "ok")
  <2>1. entry' \in [Names -> Entry \cup {None, Torn}]
    BY <1>7 DEF SInv, TypeOK
  <2> QED BY <1>6, <1>7, <2>1
<1>8. CASE Mishap("disk") /\ End(p, "fail") /\ UNCHANGED entry
  <2>1. entry' \in [Names -> Entry \cup {None, Torn}]
    BY <1>8 DEF SInv, TypeOK
  <2> QED BY <1>6, <1>8, <2>1
<1> QED BY <1>5, <1>7, <1>8 DEF Enter

LEMMA DropStep ==
    ASSUME SInv, NEW p \in Procs, Drop(p) PROVE SInv'
<1>1. /\ task[p].pc = "drop" /\ UNCHANGED <<head, tree, zip, mishaps>>
      /\ entry' = [entry EXCEPT ![task[p].name] = None]
  BY DEF Drop, At, Name
<1>2. task[p] \in Task /\ OthersIdle(p) /\ StageOK(task[p]) /\ task[p].name \in Names
  BY <1>1, AtWork
<1>3. PICK s : s \in {[Fresh EXCEPT !.ret = "ok"], [task[p] EXCEPT !.pc = "droptree"]} /\ Become(p, s)
  BY DEF Drop, End, Goto
<1>4. s \in Task /\ (s.pc = "idle" \/ (s.pc = "droptree" /\ s.name = task[p].name))
  BY <1>2, <1>3, FreshFacts, GoFacts
<1>5. /\ entry' \in [Names -> Entry \cup {None, Torn}] /\ tree' \in [Names -> Copy \cup {None}]
      /\ zip' \in [Zips -> Copy \cup {None, Torn}] /\ mishaps' \in 0 .. MaxMishaps
      /\ entry'[task[p].name] = None /\ \A n \in Names \ {task[p].name} : entry'[n] = entry[n]
  BY <1>1, <1>2 DEF SInv, TypeOK
<1>6. StageOK(s)'
  BY <1>2, <1>4, <1>5 DEF StageOK
<1>7. ASSUME mishaps' = 0, NEW n \in Names PROVE TreeOfEntry(n)' \/ Between(s, n)
  <2>1. CASE n = task[p].name
    BY <1>5, <2>1 DEF TreeOfEntry, Registered
  <2>2. CASE n # task[p].name
    BY <1>1, <1>2, <1>5, <1>7, <2>2, Before DEF Between, TreeOfEntry, Registered, Whole
  <2> QED BY <2>1, <2>2
<1> QED BY <1>1, <1>2, <1>3, <1>4, <1>5, <1>6, <1>7, Glue

LEMMA DropTreeStep ==
    ASSUME SInv, NEW p \in Procs, DropTree(p) PROVE SInv'
<1>1. /\ task[p].pc = "droptree" /\ UNCHANGED <<head, entry, zip, mishaps>>
      /\ tree' = [tree EXCEPT ![task[p].name] = None]
  BY DEF DropTree, At, Name
<1>2. /\ task[p] \in Task /\ OthersIdle(p) /\ task[p].name \in Names
      /\ entry[task[p].name] = None
  BY <1>1, AtWork DEF StageOK
<1>3. PICK s : s = [Fresh EXCEPT !.ret = "ok"]
  OBVIOUS
<1>4. s \in Task /\ s.pc = "idle" /\ Become(p, s)
  BY <1>3, FreshFacts DEF DropTree, End
<1>5. /\ entry' \in [Names -> Entry \cup {None, Torn}] /\ tree' \in [Names -> Copy \cup {None}]
      /\ zip' \in [Zips -> Copy \cup {None, Torn}] /\ mishaps' \in 0 .. MaxMishaps
      /\ \A n \in Names \ {task[p].name} : tree'[n] = tree[n]
  BY <1>1, <1>2 DEF SInv, TypeOK
<1>6. StageOK(s)'
  BY <1>4 DEF StageOK
<1>7. ASSUME mishaps' = 0, NEW n \in Names PROVE TreeOfEntry(n)' \/ Between(s, n)
  <2>1. CASE n = task[p].name
    BY <1>1, <1>2, <2>1 DEF TreeOfEntry, Registered
  <2>2. CASE n # task[p].name
    BY <1>1, <1>2, <1>5, <1>7, <2>2, Before DEF Between, TreeOfEntry, Registered, Whole
  <2> QED BY <2>1, <2>2
<1> QED BY <1>1, <1>2, <1>4, <1>5, <1>6, <1>7, Glue

(* Somebody pushes while no command runs: what is on disk stays what it is. *)
LEMMA PushStep ==
    ASSUME SInv, AllQuiet, NEW r \in Repos, Push(r) PROVE SInv'
<1>1. /\ head[r] < MaxHead /\ head' = [head EXCEPT ![r] = head[r] + 1]
      /\ UNCHANGED <<entry, tree, zip, task, mishaps>>
  BY DEF Push
<1>2. head' \in [Repos -> Commits]
  <2>1. head[r] \in Nat /\ head[r] >= 1
    BY SourcesAssumption DEF SInv, TypeOK, Commits, SourcesAssumption
  <2>2. head[r] + 1 \in Commits
    BY <1>1, <2>1, SourcesAssumption DEF Commits, SourcesAssumption
  <2> QED BY <1>1, <2>2 DEF SInv, TypeOK
<1>3. TypeOK'
  BY <1>1, <1>2 DEF SInv, TypeOK
<1>4. OneActive'
  BY <1>1 DEF SInv, OneActive, OthersIdle
<1>5. ASSUME NEW q \in Procs PROVE StageOK(task[q])'
  BY <1>1 DEF AllQuiet, Active, At, StageOK
<1>6. Settled'
  BY <1>1 DEF SInv, Settled, TreeOfEntry, Registered, Whole
<1> QED BY <1>3, <1>4, <1>5, <1>6 DEF SInv

LEMMA SInit == Init => SInv
<1> SUFFICES ASSUME Init PROVE SInv
  OBVIOUS
<1>1. /\ task = [p \in Procs |-> Fresh] /\ \A p \in Procs : task[p] = Fresh
      /\ \A n \in Names : entry[n] = None
  BY DEF Init
<1>2. TypeOK
  BY <1>1, FreshFacts, SourcesAssumption DEF Init, TypeOK, Commits, SourcesAssumption
<1>3. OneActive
  BY <1>1, FreshFacts DEF OneActive, OthersIdle
<1>4. \A p \in Procs : StageOK(task[p])
  BY <1>1, FreshFacts, IdleOK
<1>5. Settled
  BY <1>1 DEF Settled, TreeOfEntry, Registered
<1> QED BY <1>2, <1>3, <1>4, <1>5 DEF SInv

LEMMA SStep == SInv /\ [QuietNext]_vars => SInv'
<1> SUFFICES ASSUME SInv, [QuietNext]_vars PROVE SInv'
  OBVIOUS
<1>1. CASE UNCHANGED vars
  BY <1>1 DEF vars, SInv, TypeOK, OneActive, OthersIdle, StageOK, Last, Settled, Between,
              TreeOfEntry, Registered, Whole
<1>2. CASE AllQuiet /\ \E r \in Repos : Push(r)
  BY <1>2, PushStep
<1>3. ASSUME NEW p \in Procs, AllQuiet, Begin(p) PROVE SInv'
  BY <1>3, BeginStep DEF AllQuiet, Active, At, OthersIdle
<1>4. ASSUME NEW p \in Procs, Work(p) PROVE SInv'
  BY <1>4, StartDownloadStep, DownloadStep, ClearStep, ExtractStep, AskCommitStep, EnterStep,
     DropStep, DropTreeStep DEF Work
<1>5. ASSUME NEW p \in Procs, Crash(p) PROVE SInv'
  BY <1>5, CrashStep
<1> QED BY <1>1, <1>2, <1>3, <1>4, <1>5 DEF QuietNext

LEMMA SAlways == QuietSpec => []SInv
  BY SInit, SStep, PTL DEF QuietSpec

-----------------------------------------------------------------------------
(* A download is only ever extracted for the source it was made for: what   *)
(* is on disk when its commit is asked for is the source's own repository.  *)
THEOREM OwnAlways == QuietSpec => []OwnRepository
<1>1. SInv => OwnRepository
  <2> SUFFICES ASSUME SInv, NEW p \in Procs, task[p].pc = "sha" PROVE tree[Name(p)].repo = task[p].repo
    BY DEF SInv, OwnRepository, At
  <2>1. tree[task[p].name] = Last(task[p].repo, TRUE)
    BY AtWork DEF StageOK
  <2> QED BY <2>1 DEF Name, Last
<1> QED BY <1>1, SAlways, PTL

(* Short of mishaps, every registered source has its own repository's tree, *)
(* and its entry names the commit that is on disk, or none.                 *)
THEOREM CommitAlwaysNamesTree == QuietSpec => []CommitNamesTree
<1>1. SInv => CommitNamesTree
  BY DEF SInv, Settled, Between, CommitNamesTree, AllQuiet, Active, At
<1> QED BY <1>1, SAlways, PTL

(* The blueprints of a registered source are given up only for a download   *)
(* of its own repository that was reported complete: one that fails, or a   *)
(* crash before its end, leaves them.  (Reported complete is not complete:  *)
(* a zip cut short when it is closed costs the copy, see KeptUntilArrived.) *)
THEOREM KeptAlways == QuietSpec => KeptUntilFetched
<1>1. ASSUME SInv, [QuietNext]_vars, NEW n \in Names, Whole(n), ~ Whole(n)'
      PROVE  GivenUp(n)
  <2>1. tree'[n] # tree[n]
    BY <1>1 DEF Whole
  <2>2. PICK p \in Procs : Clear(p) \/ Extract(p) \/ DropTree(p)
    BY <1>1, <2>1 DEF vars, QuietNext, Push, Begin, Add, Update, Remove, Work, StartDownload, Download,
                AskCommit, Enter, Drop, Crash
  <2>3. task[p].pc # "idle" /\ tree[n] # tree'[n] /\ task[p].name = n
    BY <1>1, <2>1, <2>2 DEF Clear, Extract, DropTree, At, Name, SInv, TypeOK
  <2>4. task[p].pc \in {"clear", "extract", "droptree"} /\ StageOK(task[p])
    BY <1>1, <2>2, <2>3, AtWork DEF Clear, Extract, DropTree, At
  <2>5. CASE task[p].pc = "droptree"
    BY <2>3, <2>4, <2>5 DEF StageOK, GivenUp, Registered
  <2>6. CASE task[p].pc \in {"clear", "extract"}
    <3>1. PICK w \in BOOLEAN : zip[Zip(p)] = Last(task[p].repo, w)
      BY <2>4, <2>6 DEF StageOK, Zip
    <3>2. task[p].repo \in Repos /\ head[task[p].repo] \in Commits
      BY <1>1, <2>4, <2>6 DEF StageOK, SInv, TypeOK
    <3>3. zip[Zip(p)] \in Copy /\ zip[Zip(p)].repo = task[p].repo
      BY <3>1, <3>2 DEF Last, Copy
    <3> QED BY <2>3, <3>2, <3>3 DEF GivenUp, Name
  <2> QED BY <2>4, <2>5, <2>6
<1>2. SInv /\ [QuietNext]_vars => [KeepStep]_vars
  BY <1>1 DEF KeepStep
<1> QED BY <1>2, SAlways, PTL DEF QuietSpec, KeptUntilFetched
=============================================================================
