----------------------------- MODULE MeshProofs -----------------------------
(***************************************************************************)
(* One command at a time on a node, with crashes, torn files and lost links:*)
(* the host registry, the cached records and the routed commands.           *)
(***************************************************************************)
EXTENDS Mesh, TLAPS

OthersIdle(p) == \A q \in Procs \ {p} : task[q].pc = "idle"
OneActive     == \A p \in Procs : task[p].pc # "idle" => OthersIdle(p)

(* What a process has in memory, where it is: the registry with its one     *)
(* change, a record of its node, signed with that node's key; and it has    *)
(* not run a command yet.                                                   *)
RecordOK(s) ==
    /\ s.pc \in {"publish", "key", "savekey"} => s.node \in Nodes /\ s.cmd \in {"sync", "route"}
    /\ s.pc \in {"key", "savekey", "verify", "store", "choose"} =>
         s.rec \in Record /\ s.rec.node = s.node
    /\ s.pc \in {"verify", "store"} => s.cmd = "sync"
    /\ s.cmd = "sync" /\ s.pc # "idle" => s.alias \in Aliases
    /\ s.pc = "savekey" => key[s.node] = None
    /\ s.pc \in {"verify", "store"} => s.rec.key = None \/ key[s.rec.node] \in {s.rec.key, Torn}
    /\ s.pc = "store" => s.rec.key # None /\ CachedVersion(s.alias) < s.rec.v

SaveOK(s) ==
    s.pc = "save" => /\ s.cmd \in {"add", "remove"} /\ s.alias \in Aliases
                     /\ s.cmd = "add" => s.node \in Nodes
                     /\ s.reg = [Registered EXCEPT ![s.alias] =
                                    IF s.cmd = "add" THEN s.node ELSE None]

RunOK(s) ==
    /\ s.pc \in {"choose", "run"} => s.cmd = "route"
    /\ s.pc # "idle" => s.ran = 0
    /\ s.ran <= 1
    /\ s.cmd = "route" /\ s.ret = "ok" => s.ran = 1

StageOK(p) == RecordOK(task[p]) /\ SaveOK(task[p]) /\ RunOK(task[p])

CacheOK == \A a \in Aliases : IsRecord(cache[a]) =>
               cache[a].key # None /\ key[cache[a].node] \in {cache[a].key, Torn}

MInv == TypeOK /\ OneActive /\ (\A p \in Procs : StageOK(p)) /\ CacheOK

-----------------------------------------------------------------------------
(* The constants are what they are.                                         *)
LEMMA ConstantFacts ==
    /\ Here \in Nodes /\ MaxClock \in Nat \ {0} /\ MaxMishaps \in Nat
    /\ None # Torn
    /\ None \notin Nodes /\ None \notin Keys /\ None \notin Aliases
    /\ Torn \notin Nodes /\ Torn \notin Keys /\ Torn \notin Aliases
  BY MeshAssumption DEF MeshAssumption

LEMMA FreshFacts ==
    /\ Fresh \in Task /\ NoHosts \in Hosts
    /\ Fresh.pc = "idle" /\ Fresh.cmd = None /\ Fresh.alias = None /\ Fresh.node = None
    /\ Fresh.rec = None /\ Fresh.need = {} /\ Fresh.fallback = FALSE /\ Fresh.reg = NoHosts
    /\ Fresh.ran = 0 /\ Fresh.ret = "none"
<1>1. NoHosts \in Hosts
  BY DEF NoHosts, Hosts
<1> QED BY <1>1 DEF Fresh, Task

(* A step of p, from what it makes of its own task and of the files.        *)
LEMMA Glue ==
    ASSUME MInv, NEW p \in Procs, OthersIdle(p), NEW s \in Task, Become(p, s),
           clock' \in 0 .. MaxClock, can' \in [Nodes -> SUBSET Can],
           key' \in [Nodes -> Keys \cup {None, Torn}], hosts' \in Hosts \cup {Torn},
           cache' \in [Aliases -> Record \cup {None, Torn}], mishaps' \in 0 .. MaxMishaps,
           RecordOK(s)', SaveOK(s)', RunOK(s), CacheOK'
    PROVE  MInv'
<1>1. /\ task \in [Procs -> Task] /\ task' = [task EXCEPT ![p] = s]
      /\ task'[p] = s /\ \A q \in Procs \ {p} : task'[q] = task[q]
  BY DEF MInv, TypeOK, Become
<1>2. TypeOK'
  BY <1>1 DEF TypeOK
<1>3. OneActive'
  BY <1>1 DEF OneActive, OthersIdle
<1>4. ASSUME NEW q \in Procs PROVE StageOK(q)'
  <2>1. CASE q = p
    BY <1>1, <2>1 DEF StageOK, RunOK, RecordOK, SaveOK, CachedVersion, Registered
  <2>2. CASE q # p
    <3>1. task'[q] = task[q] /\ task[q].pc = "idle" /\ RunOK(task[q])
      BY <1>1, <2>2 DEF OthersIdle, MInv, StageOK
    <3> QED BY <3>1 DEF StageOK, RunOK, RecordOK, SaveOK
  <2> QED BY <2>1, <2>2
<1> QED BY <1>2, <1>3, <1>4 DEF MInv

(* No file is written.                                                      *)
LEMMA GlueMemory ==
    ASSUME MInv, NEW p \in Procs, OthersIdle(p), NEW s \in Task, Become(p, s),
           UNCHANGED <<clock, can, key, hosts, cache>>, mishaps' \in 0 .. MaxMishaps,
           RecordOK(s), SaveOK(s), RunOK(s)
    PROVE  MInv'
<1>1. /\ clock' \in 0 .. MaxClock /\ can' \in [Nodes -> SUBSET Can]
      /\ key' \in [Nodes -> Keys \cup {None, Torn}] /\ hosts' \in Hosts \cup {Torn}
      /\ cache' \in [Aliases -> Record \cup {None, Torn}]
  BY DEF MInv, TypeOK
<1>2. RecordOK(s)' /\ SaveOK(s)' /\ CacheOK'
  BY DEF MInv, RecordOK, SaveOK, CacheOK, CachedVersion, Registered, IsRecord
<1> QED BY <1>1, <1>2, Glue

LEMMA Mishaps ==
    ASSUME TypeOK, NEW kind, Mishap(kind) PROVE mishaps' \in 0 .. MaxMishaps
  BY ConstantFacts DEF TypeOK, Mishap

(* The end of a command that ran nothing.                                   *)
LEMMA EndFacts ==
    ASSUME MInv, NEW p \in Procs, task[p].pc # "idle",
           NEW r \in {"ok", "kept", "fail"}, r = "ok" => task[p].cmd # "route"
    PROVE  LET s == [task[p] EXCEPT !.pc = "idle", !.ret = r] IN
             s \in Task /\ RecordOK(s) /\ SaveOK(s) /\ RunOK(s)
<1>1. task[p] \in Task /\ RunOK(task[p]) /\ task[p].ran = 0
  BY DEF MInv, TypeOK, StageOK, RunOK
<1> DEFINE s == [task[p] EXCEPT !.pc = "idle", !.ret = r]
<1>2. s \in Task /\ s.pc = "idle" /\ s.ret = r /\ s.ran = 0 /\ s.cmd = task[p].cmd
  BY <1>1 DEF Task
<1> HIDE DEF s
<1>3. RecordOK(s) /\ SaveOK(s) /\ RunOK(s)
  BY <1>2 DEF RecordOK, SaveOK, RunOK
<1> QED BY <1>2, <1>3 DEF s
-----------------------------------------------------------------------------
(* The commands begin.                                                      *)
LEMMA RegisteredFacts ==
    ASSUME TypeOK
    PROVE  Registered \in Hosts /\ \A a \in Aliases : Registered[a] \in Nodes \cup {None}
<1>1. Registered \in Hosts
  BY FreshFacts DEF TypeOK, Registered
<1> QED BY <1>1 DEF Hosts

LEMMA AddStep ==
    ASSUME MInv, NEW p \in Procs, OthersIdle(p), NEW a \in Aliases, NEW n \in Nodes,
           BeginAdd(p, a, n)
    PROVE  MInv'
<1>1. PICK s : s = [Fresh EXCEPT !.pc = "save", !.cmd = "add", !.alias = a, !.node = n,
                                 !.reg = [Registered EXCEPT ![a] = n]]
  OBVIOUS
<1>2. [Registered EXCEPT ![a] = n] \in Hosts
  BY RegisteredFacts DEF MInv, Hosts
<1>3. s \in Task
  BY <1>1, <1>2, FreshFacts DEF Task, Commands
<1>4. /\ s.pc = "save" /\ s.cmd = "add" /\ s.alias = a /\ s.node = n /\ s.ran = 0
      /\ s.reg = [Registered EXCEPT ![a] = n] /\ s.ret = "none"
  BY <1>1, FreshFacts DEF Fresh
<1>5. RecordOK(s) /\ SaveOK(s) /\ RunOK(s)
  BY <1>4 DEF RecordOK, SaveOK, RunOK
<1>6. Become(p, s) /\ UNCHANGED <<clock, can, key, hosts, cache>> /\ mishaps' \in 0 .. MaxMishaps
  BY <1>1 DEF BeginAdd, MInv, TypeOK
<1> QED BY <1>3, <1>5, <1>6, GlueMemory

LEMMA RemoveStep ==
    ASSUME MInv, NEW p \in Procs, OthersIdle(p), NEW a \in Aliases, BeginRemove(p, a)
    PROVE  MInv'
<1>1. PICK s : s = IF Registered[a] = None THEN [Fresh EXCEPT !.cmd = "remove", !.ret = "fail"]
                   ELSE [Fresh EXCEPT !.pc = "save", !.cmd = "remove", !.alias = a,
                                      !.reg = [Registered EXCEPT ![a] = None]]
  OBVIOUS
<1>2. [Registered EXCEPT ![a] = None] \in Hosts
  BY RegisteredFacts DEF MInv, Hosts
<1>3. s \in Task
  BY <1>1, <1>2, FreshFacts DEF Task, Commands
<1>4. /\ s.cmd = "remove" /\ s.ran = 0
      /\ s.pc = "idle" \/ (/\ s.pc = "save" /\ s.alias = a
                           /\ s.reg = [Registered EXCEPT ![a] = None])
  BY <1>1, FreshFacts DEF Fresh
<1>5. RecordOK(s) /\ SaveOK(s) /\ RunOK(s)
  <2>1. CASE s.pc = "idle"
    BY <1>4, <2>1 DEF RecordOK, SaveOK, RunOK
  <2>2. CASE s.pc = "save"
    <3>1. SaveOK(s)
      BY <1>4, <2>2 DEF SaveOK
    <3>2. RecordOK(s) /\ RunOK(s)
      BY <1>4, <2>2 DEF RecordOK, RunOK
    <3> QED BY <3>1, <3>2
  <2> QED BY <1>4, <2>1, <2>2
<1>6. Become(p, s) /\ UNCHANGED <<clock, can, key, hosts, cache>> /\ mishaps' \in 0 .. MaxMishaps
  BY <1>1 DEF BeginRemove, MInv, TypeOK
<1> QED BY <1>3, <1>5, <1>6, GlueMemory

LEMMA SyncStep ==
    ASSUME MInv, NEW p \in Procs, OthersIdle(p), NEW a \in Aliases, BeginSync(p, a)
    PROVE  MInv'
<1>1. PICK s : s = IF Registered[a] = None THEN [Fresh EXCEPT !.cmd = "sync", !.ret = "fail"]
                   ELSE [Fresh EXCEPT !.pc = "publish", !.cmd = "sync", !.alias = a,
                                      !.node = Registered[a]]
  OBVIOUS
<1>2. Registered[a] \in Nodes \cup {None}
  BY RegisteredFacts DEF MInv
<1>3. s \in Task
  BY <1>1, <1>2, FreshFacts DEF Task, Commands
<1>4. /\ s.cmd = "sync" /\ s.ran = 0
      /\ s.pc = "idle" \/ (s.pc = "publish" /\ s.alias = a /\ s.node \in Nodes)
  BY <1>1, <1>2, FreshFacts DEF Fresh
<1>5. RecordOK(s) /\ SaveOK(s) /\ RunOK(s)
  BY <1>4 DEF RecordOK, SaveOK, RunOK
<1>6. Become(p, s) /\ UNCHANGED <<clock, can, key, hosts, cache>> /\ mishaps' \in 0 .. MaxMishaps
  BY <1>1 DEF BeginSync, MInv, TypeOK
<1> QED BY <1>3, <1>5, <1>6, GlueMemory

LEMMA RouteStep ==
    ASSUME MInv, NEW p \in Procs, OthersIdle(p), NEW need \in SUBSET Can, NEW f \in BOOLEAN,
           BeginRoute(p, need, f)
    PROVE  MInv'
<1>1. PICK s : s = [Fresh EXCEPT !.pc = "publish", !.cmd = "route", !.node = Here,
                                 !.need = need, !.fallback = f]
  OBVIOUS
<1>2. s \in Task
  BY <1>1, FreshFacts, ConstantFacts DEF Task, Commands
<1>3. s.cmd = "route" /\ s.ran = 0 /\ s.pc = "publish" /\ s.node \in Nodes /\ s.ret = "none"
  BY <1>1, FreshFacts, ConstantFacts DEF Fresh
<1>4. RecordOK(s) /\ SaveOK(s) /\ RunOK(s)
  BY <1>3 DEF RecordOK, SaveOK, RunOK
<1>5. Become(p, s) /\ UNCHANGED <<clock, can, key, hosts, cache>> /\ mishaps' \in 0 .. MaxMishaps
  BY <1>1 DEF BeginRoute, MInv, TypeOK
<1> QED BY <1>2, <1>4, <1>5, GlueMemory

-----------------------------------------------------------------------------
(* The registry is saved.                                                   *)
LEMMA SaveStep ==
    ASSUME MInv, NEW p \in Procs, OthersIdle(p), Save(p) PROVE MInv'
<1>1. PICK r \in {"ok", "fail"} : End(p, r)
  BY DEF Save
<1>0. PICK s : s = [task[p] EXCEPT !.pc = "idle", !.ret = r]
  OBVIOUS
<1>2. task[p].pc = "save" /\ task[p].cmd # "route"
  BY DEF Save, At, MInv, StageOK, SaveOK
<1>3. s \in Task /\ RecordOK(s) /\ SaveOK(s) /\ RunOK(s)
  BY <1>0, <1>2, EndFacts
<1>4. Become(p, s) /\ s.pc = "idle"
  BY <1>0, <1>1, <1>2 DEF End, MInv, TypeOK, Task
<1>5. task[p].reg \in Hosts
  BY DEF MInv, TypeOK, Task
<1>6. /\ clock' \in 0 .. MaxClock /\ can' \in [Nodes -> SUBSET Can]
      /\ key' \in [Nodes -> Keys \cup {None, Torn}] /\ hosts' \in Hosts \cup {Torn}
      /\ cache' \in [Aliases -> Record \cup {None, Torn}]
  BY <1>5 DEF Save, MInv, TypeOK
<1>7. mishaps' \in 0 .. MaxMishaps
  BY Mishaps DEF Save, MInv, TypeOK
<1>8. RecordOK(s)' /\ SaveOK(s)' /\ CacheOK'
  BY <1>3, <1>4 DEF Save, RecordOK, SaveOK, CacheOK, IsRecord, MInv
<1> QED BY <1>3, <1>4, <1>6, <1>7, <1>8, Glue

-----------------------------------------------------------------------------
(* A record is published: its facts, then the key.                          *)
LEMMA PublishStep ==
    ASSUME MInv, NEW p \in Procs, OthersIdle(p), Publish(p) PROVE MInv'
<1>1. /\ task[p] \in Task /\ task[p].pc = "publish" /\ task[p].ran = 0
      /\ RecordOK(task[p]) /\ RunOK(task[p])
  BY DEF Publish, At, MInv, TypeOK, StageOK, RunOK
<1>2. PICK n : n = task[p].node
  OBVIOUS
<1>3. n \in Nodes /\ task[p].cmd \in {"sync", "route"}
  BY <1>1, <1>2 DEF RecordOK
<1>4. PICK r : r = [node |-> n, v |-> clock, can |-> can[n], key |-> None]
  OBVIOUS
<1>5. r \in Record /\ r.node = n
  BY <1>3, <1>4 DEF Record, MInv, TypeOK
<1>6. PICK s : s = [task[p] EXCEPT !.pc = "key", !.rec = r]
  OBVIOUS
<1>7. /\ s \in Task /\ s.pc = "key" /\ s.rec = r /\ s.node = n /\ s.cmd = task[p].cmd
      /\ s.alias = task[p].alias /\ s.ran = 0 /\ s.ret = task[p].ret
  BY <1>1, <1>2, <1>5, <1>6 DEF Task
<1>8. RecordOK(s)
  BY <1>1, <1>3, <1>5, <1>7 DEF RecordOK
<1>9. SaveOK(s) /\ RunOK(s)
  BY <1>1, <1>7 DEF SaveOK, RunOK
<1>10. Become(p, s) /\ UNCHANGED <<clock, can, key, hosts, cache>> /\ mishaps' \in 0 .. MaxMishaps
  BY <1>2, <1>4, <1>6 DEF Publish, MInv, TypeOK
<1> QED BY <1>7, <1>8, <1>9, <1>10, GlueMemory

LEMMA PublishedFacts ==
    ASSUME MInv, NEW p \in Procs, task[p].pc \in {"key", "savekey"}, NEW k \in Keys \cup {None}
    PROVE  LET s == Published(task[p], k) IN
             /\ s \in Task /\ SaveOK(s) /\ RunOK(s)
             /\ s.rec \in Record /\ s.rec.node = s.node /\ s.rec.key = k
             /\ s.node = task[p].node /\ s.cmd = task[p].cmd /\ s.alias = task[p].alias
             /\ \/ s.pc = "choose" /\ s.cmd = "route"
                \/ s.pc = "verify" /\ s.cmd = "sync" /\ s.alias \in Aliases
<1>1. task[p] \in Task /\ task[p].ran = 0 /\ RecordOK(task[p]) /\ RunOK(task[p])
  BY DEF MInv, TypeOK, StageOK, RunOK
<1>2. /\ task[p].rec \in Record /\ task[p].rec.node = task[p].node
      /\ task[p].cmd \in {"sync", "route"}
      /\ task[p].cmd = "sync" => task[p].alias \in Aliases
  BY <1>1 DEF RecordOK
<1>3. PICK r : r = [task[p].rec EXCEPT !.key = k]
  OBVIOUS
<1>4. r \in Record /\ r.node = task[p].node /\ r.key = k
  BY <1>2, <1>3 DEF Record
<1>5. PICK l \in {"choose", "verify"} : l = IF task[p].cmd = "route" THEN "choose" ELSE "verify"
  OBVIOUS
<1>6. PICK s : s = [task[p] EXCEPT !.rec = r, !.pc = l]
  OBVIOUS
<1>7. /\ s \in Task /\ s.pc = l /\ s.rec = r /\ s.node = task[p].node /\ s.cmd = task[p].cmd
      /\ s.alias = task[p].alias /\ s.ran = 0 /\ s.ret = task[p].ret
  BY <1>1, <1>4, <1>6 DEF Task
<1>8. Published(task[p], k) = s
  BY <1>1, <1>3, <1>5, <1>6 DEF Published, Task
<1>9. \/ s.pc = "choose" /\ s.cmd = "route"
      \/ s.pc = "verify" /\ s.cmd = "sync" /\ s.alias \in Aliases
  <2>1. CASE task[p].cmd = "route"
    BY <1>5, <1>7, <2>1
  <2>2. CASE task[p].cmd = "sync"
    BY <1>2, <1>5, <1>7, <2>2
  <2> QED BY <1>2, <2>1, <2>2
<1>10. SaveOK(s) /\ RunOK(s)
  BY <1>1, <1>7, <1>9 DEF SaveOK, RunOK
<1> QED BY <1>4, <1>7, <1>8, <1>9, <1>10

(* What is published is signed with the key on disk, or not at all, or that *)
(* key is torn.                                                             *)
LEMMA SignedRecord ==
    ASSUME NEW s, s.rec \in Record, s.rec.node = s.node,
           s.rec.key = None \/ key[s.node] \in {s.rec.key, Torn},
           \/ s.pc = "choose" /\ s.cmd = "route"
           \/ s.pc = "verify" /\ s.cmd = "sync" /\ s.alias \in Aliases
    PROVE  RecordOK(s)
<1>1. CASE s.pc = "choose" /\ s.cmd = "route"
  BY <1>1 DEF RecordOK
<1>2. CASE s.pc = "verify" /\ s.cmd = "sync" /\ s.alias \in Aliases
  BY <1>2 DEF RecordOK
<1> QED BY <1>1, <1>2

LEMMA KeyFoundStep ==
    ASSUME MInv, NEW p \in Procs, OthersIdle(p), KeyFound(p) PROVE MInv'
<1>1. PICK k : k = IF key[task[p].node] = Torn THEN None ELSE key[task[p].node]
  OBVIOUS
<1>2. task[p].pc = "key" /\ task[p].node \in Nodes
  BY DEF KeyFound, At, MInv, StageOK, RecordOK
<1>3. k \in Keys \cup {None} /\ (k = None \/ key[task[p].node] \in {k, Torn})
  BY <1>1, <1>2 DEF MInv, TypeOK
<1>4. PICK s : s = Published(task[p], k)
  OBVIOUS
<1>5. /\ s \in Task /\ SaveOK(s) /\ RunOK(s)
      /\ s.rec \in Record /\ s.rec.node = s.node /\ s.rec.key = k /\ s.node = task[p].node
      /\ \/ s.pc = "choose" /\ s.cmd = "route"
         \/ s.pc = "verify" /\ s.cmd = "sync" /\ s.alias \in Aliases
  BY <1>2, <1>3, <1>4, PublishedFacts
<1>6. RecordOK(s)
  BY <1>3, <1>5, SignedRecord
<1>7. Become(p, s) /\ UNCHANGED <<clock, can, key, hosts, cache>> /\ mishaps' \in 0 .. MaxMishaps
  BY <1>1, <1>4 DEF KeyFound, MInv, TypeOK
<1> QED BY <1>5, <1>6, <1>7, GlueMemory

LEMMA KeyMissingStep ==
    ASSUME MInv, NEW p \in Procs, OthersIdle(p), KeyMissing(p) PROVE MInv'
<1>1. /\ task[p] \in Task /\ task[p].pc = "key" /\ key[task[p].node] = None
      /\ RecordOK(task[p]) /\ RunOK(task[p])
  BY DEF KeyMissing, At, MInv, TypeOK, StageOK
<1>2. PICK s : s = [task[p] EXCEPT !.pc = "savekey"]
  OBVIOUS
<1>3. /\ s \in Task /\ s.pc = "savekey" /\ s.rec = task[p].rec /\ s.node = task[p].node
      /\ s.cmd = task[p].cmd /\ s.alias = task[p].alias /\ s.ran = task[p].ran
      /\ s.ret = task[p].ret
  BY <1>1, <1>2 DEF Task
<1>4. RecordOK(s)
  BY <1>1, <1>3 DEF RecordOK
<1>5. SaveOK(s) /\ RunOK(s)
  BY <1>1, <1>3 DEF SaveOK, RunOK
<1>6. Become(p, s) /\ UNCHANGED <<clock, can, key, hosts, cache>> /\ mishaps' \in 0 .. MaxMishaps
  BY <1>2 DEF KeyMissing, MInv, TypeOK
<1> QED BY <1>3, <1>4, <1>5, <1>6, GlueMemory

(* The first key: the node had none, so no cached record is signed by it.   *)
LEMMA KeySavedStep ==
    ASSUME MInv, NEW p \in Procs, OthersIdle(p), KeySaved(p) PROVE MInv'
<1>1. /\ task[p].pc = "savekey" /\ task[p].node \in Nodes /\ key[task[p].node] = None
  BY DEF KeySaved, At, MInv, StageOK, RecordOK
<1>2. PICK k \in Keys \cup {None} :
         /\ Become(p, Published(task[p], k))
         /\ \/ key' = [key EXCEPT ![task[p].node] = k] /\ k # None
            \/ k = None /\ UNCHANGED key
            \/ key' = [key EXCEPT ![task[p].node] = Torn]
  BY ConstantFacts DEF KeySaved
<1>3. PICK s : s = Published(task[p], k)
  OBVIOUS
<1>4. /\ s \in Task /\ SaveOK(s) /\ RunOK(s) /\ s.pc # "save"
      /\ s.rec \in Record /\ s.rec.node = s.node /\ s.rec.key = k /\ s.node = task[p].node
      /\ \/ s.pc = "choose" /\ s.cmd = "route"
         \/ s.pc = "verify" /\ s.cmd = "sync" /\ s.alias \in Aliases
  BY <1>1, <1>2, <1>3, PublishedFacts
<1>5. k = None \/ key'[task[p].node] \in {k, Torn}
  BY <1>1, <1>2 DEF MInv, TypeOK
<1>6. RecordOK(s)'
  <2>1. CASE s.pc = "choose" /\ s.cmd = "route"
    BY <1>4, <2>1 DEF RecordOK
  <2>2. CASE s.pc = "verify" /\ s.cmd = "sync" /\ s.alias \in Aliases
    BY <1>4, <1>5, <2>2 DEF RecordOK
  <2> QED BY <1>4, <2>1, <2>2
<1>7. ASSUME NEW a \in Aliases, IsRecord(cache[a])
      PROVE  key'[cache[a].node] \in {cache[a].key, Torn}
  <2>1. /\ cache[a].key # None /\ key[cache[a].node] \in {cache[a].key, Torn}
        /\ cache[a] \in Record
    BY <1>7 DEF MInv, CacheOK, TypeOK, IsRecord
  <2>2. cache[a].node # task[p].node /\ cache[a].node \in Nodes
    BY <1>1, <2>1, ConstantFacts DEF Record
  <2> QED BY <1>2, <2>1, <2>2 DEF MInv, TypeOK
<1>8. UNCHANGED <<clock, can, hosts, cache>>
  BY DEF KeySaved
<1>9. CacheOK'
  BY <1>7, <1>8 DEF CacheOK, IsRecord, MInv
<1>10. /\ clock' \in 0 .. MaxClock /\ can' \in [Nodes -> SUBSET Can]
       /\ key' \in [Nodes -> Keys \cup {None, Torn}] /\ hosts' \in Hosts \cup {Torn}
       /\ cache' \in [Aliases -> Record \cup {None, Torn}]
  BY <1>2, <1>8 DEF MInv, TypeOK
<1>11. mishaps' \in 0 .. MaxMishaps
  BY Mishaps DEF KeySaved, MInv, TypeOK
<1>12. SaveOK(s)'
  BY <1>4 DEF SaveOK
<1>13. Become(p, s)
  BY <1>2, <1>3
<1> QED BY <1>4, <1>6, <1>9, <1>10, <1>11, <1>12, <1>13, Glue

-----------------------------------------------------------------------------
(* The end of a sync: the link, the signature, the version, the write.      *)
LEMMA MemoryEnd ==
    ASSUME MInv, NEW p \in Procs, OthersIdle(p), task[p].pc # "idle",
           NEW r \in {"ok", "kept", "fail"}, r = "ok" => task[p].cmd # "route", End(p, r),
           UNCHANGED <<clock, can, key, hosts, cache>>, mishaps' \in 0 .. MaxMishaps
    PROVE  MInv'
<1>1. PICK s : s = [task[p] EXCEPT !.pc = "idle", !.ret = r]
  OBVIOUS
<1>2. s \in Task /\ RecordOK(s) /\ SaveOK(s) /\ RunOK(s) /\ Become(p, s)
  BY <1>1, EndFacts DEF End
<1> QED BY <1>2, GlueMemory

LEMMA LinkDownStep ==
    ASSUME MInv, NEW p \in Procs, OthersIdle(p), LinkDown(p) PROVE MInv'
<1>1. mishaps' \in 0 .. MaxMishaps
  BY Mishaps DEF LinkDown, MInv
<1> QED BY <1>1, MemoryEnd DEF LinkDown

LEMMA VerifyStep ==
    ASSUME MInv, NEW p \in Procs, OthersIdle(p), Verify(p) PROVE MInv'
<1>1. /\ task[p] \in Task /\ task[p].pc = "verify" /\ task[p].cmd = "sync"
      /\ task[p].alias \in Aliases /\ RecordOK(task[p]) /\ RunOK(task[p])
      /\ task[p].rec \in Record
  BY DEF Verify, At, MInv, TypeOK, StageOK, RecordOK
<1>2. UNCHANGED <<clock, can, key, hosts, cache>> /\ mishaps' \in 0 .. MaxMishaps
  BY DEF Verify, MInv, TypeOK
<1>3. CASE \E r \in {"fail", "kept"} : End(p, r)
  BY <1>1, <1>2, <1>3, MemoryEnd
<1>4. CASE /\ task[p].rec.key # None /\ ~ (CachedVersion(task[p].alias) >= task[p].rec.v)
           /\ Become(p, [task[p] EXCEPT !.pc = "store"])
  <2>1. PICK s : s = [task[p] EXCEPT !.pc = "store"]
    OBVIOUS
  <2>2. /\ s \in Task /\ s.pc = "store" /\ s.rec = task[p].rec /\ s.node = task[p].node
        /\ s.cmd = "sync" /\ s.alias = task[p].alias /\ s.ran = task[p].ran
        /\ s.ret = task[p].ret
    BY <1>1, <2>1 DEF Task
  <2>3. cache[s.alias] \in Record \cup {None, Torn}
    BY <1>1, <2>2 DEF MInv, TypeOK
  <2>4. CachedVersion(s.alias) \in Nat /\ s.rec.v \in Nat
    BY <1>1, <2>2, <2>3, ConstantFacts DEF CachedVersion, Record
  <2>5. CachedVersion(s.alias) < s.rec.v
    BY <1>4, <2>2, <2>4
  <2>6. RecordOK(s)
    BY <1>1, <1>4, <2>2, <2>5 DEF RecordOK
  <2>7. SaveOK(s) /\ RunOK(s)
    BY <1>1, <2>2 DEF SaveOK, RunOK
  <2> QED BY <1>2, <1>4, <2>1, <2>2, <2>6, <2>7, GlueMemory
<1> QED BY <1>3, <1>4 DEF Verify

LEMMA StoreRecordStep ==
    ASSUME MInv, NEW p \in Procs, OthersIdle(p), StoreRecord(p) PROVE MInv'
<1>1. /\ task[p].pc = "store" /\ task[p].cmd = "sync" /\ task[p].alias \in Aliases
      /\ task[p].rec \in Record /\ task[p].rec.key # None
      /\ key[task[p].rec.node] \in {task[p].rec.key, Torn}
  BY DEF StoreRecord, At, MInv, StageOK, RecordOK
<1>2. PICK r \in {"ok", "fail"} : End(p, r)
  BY DEF StoreRecord
<1>3. PICK s : s = [task[p] EXCEPT !.pc = "idle", !.ret = r]
  OBVIOUS
<1>4. s \in Task /\ RecordOK(s) /\ SaveOK(s) /\ RunOK(s) /\ Become(p, s)
  BY <1>1, <1>2, <1>3, EndFacts DEF End
<1>5. s.pc = "idle"
  BY <1>3 DEF MInv, TypeOK, Task
<1>6. /\ clock' \in 0 .. MaxClock /\ can' \in [Nodes -> SUBSET Can]
      /\ key' \in [Nodes -> Keys \cup {None, Torn}] /\ hosts' \in Hosts \cup {Torn}
      /\ cache' \in [Aliases -> Record \cup {None, Torn}]
  BY <1>1 DEF StoreRecord, MInv, TypeOK
<1>7. mishaps' \in 0 .. MaxMishaps
  BY Mishaps DEF StoreRecord, MInv, TypeOK
<1>8. RecordOK(s)' /\ SaveOK(s)'
  BY <1>4, <1>5 DEF RecordOK, SaveOK
<1>9. \A a \in Aliases : cache'[a] \in {cache[a], Torn, task[p].rec}
  BY <1>1 DEF StoreRecord, MInv, TypeOK
<1>10. CacheOK'
  BY <1>1, <1>9 DEF StoreRecord, CacheOK, IsRecord, MInv
<1> QED BY <1>4, <1>6, <1>7, <1>8, <1>10, Glue

-----------------------------------------------------------------------------
(* A route chooses a node, and the command runs there.                      *)
LEMMA ChosenFacts ==
    ASSUME MInv, NEW p \in Procs, At(p, "choose"), NEW s \in Task,
           s.pc = "run" \/ (s.pc = "idle" /\ s.ret = "fail"),
           s.cmd = task[p].cmd, s.ran = task[p].ran, s.ret \in {task[p].ret, "fail"}
    PROVE  RecordOK(s) /\ SaveOK(s) /\ RunOK(s)
<1>1. task[p].cmd = "route" /\ task[p].ran = 0 /\ RunOK(task[p])
  BY DEF At, MInv, StageOK, RunOK
<1>2. CASE s.pc = "run"
  BY <1>1, <1>2 DEF RecordOK, SaveOK, RunOK
<1>3. CASE s.pc = "idle" /\ s.ret = "fail"
  BY <1>1, <1>3 DEF RecordOK, SaveOK, RunOK
<1> QED BY <1>2, <1>3

LEMMA ChooseStep ==
    ASSUME MInv, NEW p \in Procs, OthersIdle(p),
           ChooseLocal(p) \/ ChoosePeer(p) \/ ChooseNone(p)
    PROVE  MInv'
<1>1. task[p] \in Task /\ At(p, "choose")
  BY DEF MInv, TypeOK, ChooseLocal, ChoosePeer, ChooseNone
<1>2. UNCHANGED <<clock, can, key, hosts, cache>> /\ mishaps' \in 0 .. MaxMishaps
  BY DEF ChooseLocal, ChoosePeer, ChooseNone, MInv, TypeOK
<1>3. PICK s : /\ Become(p, s)
               /\ \/ s = [task[p] EXCEPT !.pc = "idle", !.ret = "fail"]
                  \/ s = [task[p] EXCEPT !.pc = "run"]
                  \/ s = [task[p] EXCEPT !.pc = "run", !.rec = None]
                  \/ \E a \in Aliases :
                       /\ Registered[a] # None /\ cache[a] # None
                       /\ s = [task[p] EXCEPT !.pc = "run", !.alias = a, !.node = Registered[a],
                                  !.rec = IF cache[a] = Torn THEN None ELSE cache[a]]
  <2>1. CASE ChooseLocal(p)
    BY <2>1 DEF ChooseLocal
  <2>2. CASE ChoosePeer(p)
    BY <2>2 DEF ChoosePeer, IsCandidate
  <2>3. CASE ChooseNone(p)
    BY <2>3 DEF ChooseNone
  <2> QED BY <2>1, <2>2, <2>3
<1>4. /\ s \in Task
      /\ s.pc = "run" \/ (s.pc = "idle" /\ s.ret = "fail")
      /\ s.cmd = task[p].cmd /\ s.ran = task[p].ran /\ s.ret \in {task[p].ret, "fail"}
  <2>1. CASE s = [task[p] EXCEPT !.pc = "idle", !.ret = "fail"]
    BY <1>1, <2>1 DEF Task
  <2>2. CASE s = [task[p] EXCEPT !.pc = "run"]
    BY <1>1, <2>2 DEF Task
  <2>3. CASE s = [task[p] EXCEPT !.pc = "run", !.rec = None]
    BY <1>1, <2>3 DEF Task
  <2>4. ASSUME NEW a \in Aliases, Registered[a] # None, cache[a] # None,
               s = [task[p] EXCEPT !.pc = "run", !.alias = a, !.node = Registered[a],
                      !.rec = IF cache[a] = Torn THEN None ELSE cache[a]]
        PROVE  /\ s \in Task
               /\ s.pc = "run" \/ (s.pc = "idle" /\ s.ret = "fail")
               /\ s.cmd = task[p].cmd /\ s.ran = task[p].ran /\ s.ret \in {task[p].ret, "fail"}
    <3>1. Registered[a] \in Nodes
      BY <2>4, RegisteredFacts DEF MInv
    <3>2. PICK r \in Record \cup {None} : r = IF cache[a] = Torn THEN None ELSE cache[a]
      BY <2>4 DEF MInv, TypeOK
    <3> QED BY <1>1, <2>4, <3>1, <3>2 DEF Task
  <2> QED BY <1>3, <2>1, <2>2, <2>3, <2>4
<1>5. RecordOK(s) /\ SaveOK(s) /\ RunOK(s)
  BY <1>1, <1>4, ChosenFacts
<1> QED BY <1>2, <1>3, <1>4, <1>5, GlueMemory

LEMMA RunStep ==
    ASSUME MInv, NEW p \in Procs, OthersIdle(p), Run(p) PROVE MInv'
<1>1. /\ task[p] \in Task /\ task[p].pc = "run" /\ task[p].cmd = "route" /\ task[p].ran = 0
  BY DEF Run, At, MInv, TypeOK, StageOK, RunOK
<1>2. UNCHANGED <<clock, can, key, hosts, cache>>
  BY DEF Run
<1>3. mishaps' \in 0 .. MaxMishaps
  BY Mishaps DEF Run, MInv, TypeOK
<1>4. PICK n \in {0, 1}, r \in {"ok", "fail"} :
         /\ Become(p, [task[p] EXCEPT !.ran = @ + n, !.pc = "idle", !.ret = r])
         /\ r = "ok" => n = 1
  BY DEF Run
<1>5. PICK s : s = [task[p] EXCEPT !.ran = @ + n, !.pc = "idle", !.ret = r]
  OBVIOUS
<1>6. s \in Task /\ s.pc = "idle" /\ s.cmd = "route" /\ s.ran = n /\ s.ret = r
  <2>1. s = [task[p] EXCEPT !.ran = n, !.pc = "idle", !.ret = r]
    <3>1. task[p].ran + n = n
      BY <1>1, <1>4
    <3> QED BY <1>5, <3>1
  <2>2. n \in Nat /\ r \in {"none", "ok", "kept", "fail"}
    OBVIOUS
  <2> QED BY <1>1, <2>1, <2>2 DEF Task
<1>7. RecordOK(s) /\ SaveOK(s)
  BY <1>6 DEF RecordOK, SaveOK
<1>8. RunOK(s)
  BY <1>4, <1>6 DEF RunOK
<1> QED BY <1>2, <1>3, <1>4, <1>5, <1>6, <1>7, <1>8, GlueMemory

-----------------------------------------------------------------------------
(* A process dies, time passes, nodes change.                               *)
LEMMA CrashStep ==
    ASSUME MInv, NEW p \in Procs, OthersIdle(p), Crash(p) PROVE MInv'
<1>1. task[p].pc # "idle" /\ End(p, "fail") /\ UNCHANGED <<clock, can>>
  BY DEF Crash, Active, At
<1>2. PICK s : s = [task[p] EXCEPT !.pc = "idle", !.ret = "fail"]
  OBVIOUS
<1>3. s \in Task /\ RecordOK(s) /\ SaveOK(s) /\ RunOK(s) /\ Become(p, s)
  BY <1>1, <1>2, EndFacts DEF End
<1>4. s.pc = "idle"
  BY <1>2 DEF MInv, TypeOK, Task
<1>5. /\ task[p].pc = "savekey" => task[p].node \in Nodes
      /\ task[p].pc = "store" => task[p].alias \in Aliases
  BY DEF MInv, StageOK, RecordOK
<1>6. /\ key' \in [Nodes -> Keys \cup {None, Torn}]
      /\ \A n \in Nodes : key'[n] \in {key[n], Torn}
  BY <1>5 DEF Crash, At, MInv, TypeOK
<1>7. /\ cache' \in [Aliases -> Record \cup {None, Torn}]
      /\ \A a \in Aliases : cache'[a] \in {cache[a], Torn}
  BY <1>5 DEF Crash, At, MInv, TypeOK
<1>8. hosts' \in Hosts \cup {Torn}
  BY DEF Crash, MInv, TypeOK
<1>9. clock' \in 0 .. MaxClock /\ can' \in [Nodes -> SUBSET Can]
  BY <1>1 DEF MInv, TypeOK
<1>10. mishaps' \in 0 .. MaxMishaps
  BY Mishaps DEF Crash, MInv
<1>11. RecordOK(s)' /\ SaveOK(s)'
  BY <1>3, <1>4 DEF RecordOK, SaveOK
<1>12. CacheOK'
  <2> SUFFICES ASSUME NEW a \in Aliases, IsRecord(cache'[a])
               PROVE  cache'[a].key # None /\ key'[cache'[a].node] \in {cache'[a].key, Torn}
    BY DEF CacheOK, IsRecord
  <2>1. cache'[a] = cache[a] /\ cache[a] \in Record
    BY <1>7 DEF IsRecord
  <2>2. cache[a].key # None /\ key[cache[a].node] \in {cache[a].key, Torn}
    BY <2>1 DEF MInv, CacheOK
  <2>3. cache[a].node \in Nodes
    BY <2>1 DEF Record
  <2> QED BY <1>6, <2>1, <2>2, <2>3
<1> QED BY <1>3, <1>6, <1>7, <1>8, <1>9, <1>10, <1>11, <1>12, Glue

LEMMA WorldStep == ASSUME MInv, World PROVE MInv'
<1>1. UNCHANGED <<key, hosts, cache, task, mishaps>>
  BY DEF World, Tick, Change
<1>2. clock' \in 0 .. MaxClock /\ can' \in [Nodes -> SUBSET Can]
  BY ConstantFacts DEF World, Tick, Change, MInv, TypeOK
<1>3. TypeOK'
  BY <1>1, <1>2 DEF MInv, TypeOK
<1>4. OneActive' /\ CacheOK'
  BY <1>1 DEF MInv, OneActive, OthersIdle, CacheOK, IsRecord
<1>5. ASSUME NEW p \in Procs PROVE StageOK(p)'
  <2>1. RecordOK(task[p]) /\ SaveOK(task[p]) /\ RunOK(task[p])
    BY DEF MInv, StageOK
  <2>2. RecordOK(task[p])'
    BY <1>1, <2>1 DEF RecordOK, CachedVersion
  <2>3. SaveOK(task[p])' /\ RunOK(task[p])'
    BY <1>1, <2>1 DEF SaveOK, RunOK, Registered
  <2> QED BY <2>2, <2>3 DEF StageOK
<1> QED BY <1>3, <1>4, <1>5 DEF MInv

LEMMA BeginStep ==
    ASSUME MInv, NEW p \in Procs, OthersIdle(p), Begin(p) PROVE MInv'
  BY AddStep, RemoveStep, SyncStep, RouteStep DEF Begin

LEMMA TaskStep ==
    ASSUME MInv, NEW p \in Procs, Step(p) PROVE MInv'
<1>1. task[p].pc # "idle"
  BY DEF Step, At, Active, Save, Publish, KeyFound, KeyMissing, KeySaved, LinkDown, Verify,
         StoreRecord, ChooseLocal, ChoosePeer, ChooseNone, Run, Crash
<1>2. OthersIdle(p)
  BY <1>1 DEF MInv, OneActive
<1> QED BY <1>2, SaveStep, PublishStep, KeyFoundStep, KeyMissingStep, KeySavedStep, LinkDownStep,
           VerifyStep, StoreRecordStep, ChooseStep, RunStep, CrashStep DEF Step

LEMMA MStep == ASSUME MInv, [SerialNext]_vars PROVE MInv'
<1>1. CASE World
  BY <1>1, WorldStep
<1>2. ASSUME NEW p \in Procs, \A q \in Procs : ~ Active(q), Begin(p) PROVE MInv'
  BY <1>2, BeginStep DEF OthersIdle, Active, At
<1>3. ASSUME NEW p \in Procs, Step(p) PROVE MInv'
  BY <1>3, TaskStep
<1>4. CASE UNCHANGED vars
  BY <1>4 DEF vars, MInv, TypeOK, OneActive, OthersIdle, StageOK, RecordOK, SaveOK, RunOK,
              CacheOK, IsRecord, CachedVersion, Registered
<1> QED BY <1>1, <1>2, <1>3, <1>4 DEF SerialNext

LEMMA MInit == ASSUME Init PROVE MInv
<1>1. /\ clock \in 0 .. MaxClock /\ mishaps \in 0 .. MaxMishaps
      /\ can \in [Nodes -> SUBSET Can] /\ key \in [Nodes -> Keys \cup {None, Torn}]
      /\ hosts \in Hosts \cup {Torn} /\ cache \in [Aliases -> Record \cup {None, Torn}]
  BY ConstantFacts, FreshFacts DEF Init
<1>2. \A p \in Procs : task[p] = Fresh
  BY DEF Init
<1>3. task \in [Procs -> Task]
  BY FreshFacts DEF Init
<1>4. OneActive
  BY <1>2, FreshFacts DEF OneActive
<1>5. ASSUME NEW p \in Procs PROVE StageOK(p)
  BY <1>2, FreshFacts DEF StageOK, RecordOK, SaveOK, RunOK, Fresh
<1>6. CacheOK
  BY DEF Init, CacheOK, IsRecord
<1> QED BY <1>1, <1>3, <1>4, <1>5, <1>6 DEF MInv, TypeOK

LEMMA MAlways == SerialSpec => []MInv
  BY MInit, MStep, PTL DEF SerialSpec

-----------------------------------------------------------------------------
(* A command routed to a node runs there at most once, whatever links are   *)
(* lost, and exactly once when the route reports success.                   *)
THEOREM RunsAtMostOnce == SerialSpec => []RunsOnce
<1>1. MInv => RunsOnce
  BY DEF MInv, StageOK, RunOK, RunsOnce
<1> QED BY <1>1, MAlways, PTL

(* Every record a node's registry caches is signed with the key that node   *)
(* keeps, unless that key's file was torn.                                  *)
THEOREM SignedByOne == SerialSpec => []SignedByIdentity
<1>1. MInv => SignedByIdentity
  BY DEF MInv, CacheOK, SignedByIdentity
<1> QED BY <1>1, MAlways, PTL

(* A cached record is replaced by a newer one only.                         *)
THEOREM CacheAlwaysMonotonic == SerialSpec => CacheMonotonic
<1>1. ASSUME MInv, [SerialNext]_vars, NEW a \in Aliases,
             IsRecord(cache[a]), IsRecord(cache'[a]), cache'[a] # cache[a]
      PROVE  cache'[a].v > cache[a].v
  <2>1. PICK p \in Procs : StoreRecord(p)
    BY <1>1 DEF SerialNext, vars, World, Tick, Change, Begin, BeginAdd, BeginRemove, BeginSync,
                BeginRoute, Step, Save, Publish, KeyFound, KeyMissing, KeySaved, LinkDown, Verify,
                ChooseLocal, ChoosePeer, ChooseNone, Run, Crash, IsRecord, MInv, TypeOK
  <2>2. task[p].alias = a /\ cache'[a] = task[p].rec
    BY <1>1, <2>1 DEF StoreRecord, IsRecord, MInv, TypeOK
  <2>3. CachedVersion(a) < task[p].rec.v
    BY <1>1, <2>1, <2>2 DEF StoreRecord, At, MInv, StageOK, RecordOK
  <2>4. cache[a] \in Record /\ task[p].rec \in Record
    BY <1>1, <2>1 DEF StoreRecord, At, IsRecord, MInv, TypeOK, StageOK, RecordOK
  <2>5. cache[a].v \in Nat /\ task[p].rec.v \in Nat
    BY <2>4, ConstantFacts DEF Record
  <2>6. CachedVersion(a) = cache[a].v
    BY <1>1 DEF CachedVersion, IsRecord
  <2> QED BY <2>2, <2>3, <2>5, <2>6
<1>2. MInv /\ [SerialNext]_vars =>
        [\A a \in Aliases : IsRecord(cache[a]) /\ IsRecord(cache[a]') /\ cache'[a] # cache[a]
                             => cache'[a].v > cache[a].v]_vars
  BY <1>1 DEF IsRecord
<1> QED BY <1>2, MAlways, PTL DEF SerialSpec, CacheMonotonic

(* A command changes the one entry it was given, as it was told to.         *)
THEOREM HostsAlwaysAdditive == SerialSpec => HostsAdditive
<1>1. ASSUME MInv, [SerialNext]_vars, hosts # Torn, hosts' # Torn,
             NEW a \in Aliases, hosts'[a] # hosts[a]
      PROVE  \E p \in Procs :
                /\ At(p, "save") /\ task[p].alias = a
                /\ hosts'[a] = (IF task[p].cmd = "add" THEN task[p].node ELSE None)
  <2>1. PICK p \in Procs : Save(p)
    BY <1>1 DEF SerialNext, vars, World, Tick, Change, Begin, BeginAdd, BeginRemove, BeginSync,
                BeginRoute, Step, Publish, KeyFound, KeyMissing, KeySaved, LinkDown, Verify,
                StoreRecord, ChooseLocal, ChoosePeer, ChooseNone, Run, Crash
  <2>2. At(p, "save") /\ hosts' = task[p].reg
    BY <1>1, <2>1 DEF Save
  <2>3. /\ task[p].alias \in Aliases /\ hosts \in Hosts
        /\ hosts' = [hosts EXCEPT ![task[p].alias] =
                        IF task[p].cmd = "add" THEN task[p].node ELSE None]
    BY <1>1, <2>2 DEF At, MInv, StageOK, SaveOK, Registered, TypeOK
  <2>4. task[p].alias = a
    BY <1>1, <2>3 DEF Hosts
  <2> QED BY <2>2, <2>3, <2>4 DEF Hosts
<1>2. MInv /\ [SerialNext]_vars =>
        [hosts # Torn /\ hosts' # Torn =>
           \A a \in Aliases : hosts'[a] # hosts[a] =>
             \E p \in Procs : /\ At(p, "save") /\ task[p].alias = a
                             /\ hosts'[a] = (IF task[p].cmd = "add" THEN task[p].node ELSE None)]_vars
  BY <1>1
<1> QED BY <1>2, MAlways, PTL DEF SerialSpec, HostsAdditive

=============================================================================
