-------------------------------- MODULE Mesh --------------------------------
(***************************************************************************)
(* libs/kuli-bp/src/hosts.cpp and capability.cpp: the nodes a user knows by *)
(* an alias, the signed records in which nodes say what they can do, and    *)
(* the routing of a command to a node whose record fits.                    *)
(*                                                                          *)
(* The commands run on one node, Here; a sync runs `kuli capability` on the *)
(* node the alias names, which signs its record with a key generated on     *)
(* first use.  Registry, cache and keys are files, read and rewritten whole *)
(* without a lock.                                                          *)
(***************************************************************************)
EXTENDS Naturals, FiniteSets

CONSTANTS Procs,      \* kuli processes on Here
          Nodes,      \* machines with a kuli
          Here,       \* the machine the commands run on
          Aliases,    \* names in the host registry
          Can,        \* what nodes can do, and routes can need
          Keys,       \* Ed25519 keys
          MaxClock,   \* bound on the seconds that pass
          Faults,     \* the mishaps that may happen: a set of kinds
          MaxMishaps, \* bound on their number
          None,       \* no file; no node, key or alias
          Torn        \* a file that does not parse

ASSUME MeshAssumption ==
    /\ Here \in Nodes
    /\ MaxClock \in Nat \ {0} /\ MaxMishaps \in Nat
    /\ None # Torn /\ {None, Torn} \cap (Nodes \cup Keys \cup Aliases) = {}

Record == [node : Nodes, v : 0 .. MaxClock, can : SUBSET Can, key : Keys \cup {None}]
Hosts  == [Aliases -> Nodes \cup {None}]
NoHosts == [a \in Aliases |-> None]

VARIABLES clock,    \* the time, in seconds
          can,      \* what each node can do now
          key,      \* each node's identity file
          hosts,    \* hosts.json on Here: the node of each alias
          cache,    \* capabilities/<alias>.json on Here
          task,     \* each process: where it is and what it has read
          mishaps   \* crashes, failed writes and lost links so far

vars == <<clock, can, key, hosts, cache, task, mishaps>>

Commands == {"add", "remove", "sync", "route"}
Task == [pc   : {"idle", "publish", "key", "savekey", "verify", "store", "choose", "run", "save"},
         cmd  : Commands \cup {None},
         alias : Aliases \cup {None},         \* the alias synced, or routed to
         node : Nodes \cup {None},            \* the node that publishes, or runs the command
         rec  : Record \cup {None},           \* the record published, or chosen
         need : SUBSET Can, fallback : BOOLEAN, \* what the route asks for
         reg  : Hosts,                        \* the host registry in memory
         ran  : Nat,                          \* how often the command was run
         ret  : {"none", "ok", "kept", "fail"}]

Fresh == [pc |-> "idle", cmd |-> None, alias |-> None, node |-> None, rec |-> None,
          need |-> {}, fallback |-> FALSE, reg |-> NoHosts, ran |-> 0, ret |-> "none"]

TypeOK ==
    /\ clock \in 0 .. MaxClock
    /\ can \in [Nodes -> SUBSET Can]
    /\ key \in [Nodes -> Keys \cup {None, Torn}]
    /\ hosts \in Hosts \cup {Torn}
    /\ cache \in [Aliases -> Record \cup {None, Torn}]
    /\ task \in [Procs -> Task]
    /\ mishaps \in 0 .. MaxMishaps

Init ==
    /\ clock = 1
    /\ can \in [Nodes -> SUBSET Can]
    /\ key = [n \in Nodes |-> None]
    /\ hosts = NoHosts
    /\ cache = [a \in Aliases |-> None]
    /\ task = [p \in Procs |-> Fresh]
    /\ mishaps = 0

-----------------------------------------------------------------------------
At(p, l)     == task[p].pc = l
Become(p, s) == task' = [task EXCEPT ![p] = s]
End(p, r)    == Become(p, [task[p] EXCEPT !.pc = "idle", !.ret = r])
Active(p)    == ~ At(p, "idle")

(* "crash", "disk" (a file cannot be opened), "torn" (it is truncated and   *)
(* what is written is lost: nobody checks), "link" (the other node or the   *)
(* way to it is down).                                                      *)
Mishap(kind) == kind \in Faults /\ mishaps < MaxMishaps /\ mishaps' = mishaps + 1

(* load(), read_hosts(): what does not parse is an empty registry.          *)
Registered == IF hosts = Torn THEN NoHosts ELSE hosts

(* Mutant: what is added is all that is kept.                               *)
AddAlone(p, a, n) ==
    /\ At(p, "idle")
    /\ Become(p, [Fresh EXCEPT !.pc = "save", !.cmd = "add", !.alias = a, !.node = n,
                               !.reg = [NoHosts EXCEPT ![a] = n]])
    /\ UNCHANGED <<clock, can, key, hosts, cache, mishaps>>

(* host_add and host_remove load the registry ...                           *)
BeginAdd(p, a, n) ==
    /\ At(p, "idle")
    /\ Become(p, [Fresh EXCEPT !.pc = "save", !.cmd = "add", !.alias = a, !.node = n,
                               !.reg = [Registered EXCEPT ![a] = n]])
    /\ UNCHANGED <<clock, can, key, hosts, cache, mishaps>>

BeginRemove(p, a) ==
    /\ At(p, "idle")
    /\ Become(p, IF Registered[a] = None THEN [Fresh EXCEPT !.cmd = "remove", !.ret = "fail"]
                 ELSE [Fresh EXCEPT !.pc = "save", !.cmd = "remove", !.alias = a,
                                    !.reg = [Registered EXCEPT ![a] = None]])
    /\ UNCHANGED <<clock, can, key, hosts, cache, mishaps>>

(* ... and save() rewrites it.                                              *)
Save(p) ==
    /\ At(p, "save")
    /\ \/ hosts' = task[p].reg /\ End(p, "ok") /\ UNCHANGED mishaps
       \/ Mishap("torn") /\ hosts' = Torn /\ End(p, "ok")
       \/ Mishap("disk") /\ End(p, "fail") /\ UNCHANGED hosts
    /\ UNCHANGED <<clock, can, key, cache>>

-----------------------------------------------------------------------------
(* capability_sync: the alias is looked up and its node asked.              *)
BeginSync(p, a) ==
    /\ At(p, "idle")
    /\ Become(p, IF Registered[a] = None THEN [Fresh EXCEPT !.cmd = "sync", !.ret = "fail"]
                 ELSE [Fresh EXCEPT !.pc = "publish", !.cmd = "sync", !.alias = a,
                                    !.node = Registered[a]])
    /\ UNCHANGED <<clock, can, key, hosts, cache, mishaps>>

(* route: the local record comes first.                                     *)
BeginRoute(p, need, fallback) ==
    /\ At(p, "idle")
    /\ Become(p, [Fresh EXCEPT !.pc = "publish", !.cmd = "route", !.node = Here,
                               !.need = need, !.fallback = fallback])
    /\ UNCHANGED <<clock, can, key, hosts, cache, mishaps>>

(* local_capability, on the node: its facts and the time, then the key.     *)
Publish(p) ==
    /\ At(p, "publish")
    /\ LET n == task[p].node IN
         Become(p, [task[p] EXCEPT !.pc = "key",
                      !.rec = [node |-> n, v |-> clock, can |-> can[n], key |-> None]])
    /\ UNCHANGED <<clock, can, key, hosts, cache, mishaps>>

Published(t, k) == [t EXCEPT !.rec.key = k,
                             !.pc = IF t.cmd = "route" THEN "choose" ELSE "verify"]

(* node_private_key: the key is there (one that cannot be parsed leaves the *)
(* record unsigned), or it is generated and written.                        *)
KeyFound(p) ==
    /\ At(p, "key")
    /\ LET k == key[task[p].node] IN
         /\ k # None
         /\ Become(p, Published(task[p], IF k = Torn THEN None ELSE k))
    /\ UNCHANGED <<clock, can, key, hosts, cache, mishaps>>

KeyMissing(p) ==
    /\ At(p, "key") /\ key[task[p].node] = None
    /\ Become(p, [task[p] EXCEPT !.pc = "savekey"])
    /\ UNCHANGED <<clock, can, key, hosts, cache, mishaps>>

Used == {key[n] : n \in Nodes} \cup {task[p].rec.key : p \in {q \in Procs : task[q].rec # None}}
        \cup {cache[a].key : a \in {b \in Aliases : cache[b] \in Record}}

KeySaved(p) ==
    /\ At(p, "savekey")
    /\ \E k \in Keys \ Used :
         \/ /\ key' = [key EXCEPT ![task[p].node] = k]
            /\ Become(p, Published(task[p], k)) /\ UNCHANGED mishaps
         \/ /\ Mishap("disk")
            /\ Become(p, Published(task[p], None)) /\ UNCHANGED key
         \/ /\ Mishap("torn")
            /\ key' = [key EXCEPT ![task[p].node] = Torn]
            /\ Become(p, Published(task[p], k))
    /\ UNCHANGED <<clock, can, hosts, cache>>

(* The node cannot be reached, or its answer is lost.                       *)
LinkDown(p) ==
    /\ task[p].cmd = "sync" /\ task[p].pc \in {"publish", "verify"}
    /\ Mishap("link") /\ End(p, "fail")
    /\ UNCHANGED <<clock, can, key, hosts, cache>>

(* A record that is unsigned is refused; otherwise the cached one is read,  *)
(* and an older-or-equal record does not replace it.                        *)
CachedVersion(a) == IF cache[a] \in {None, Torn} THEN 0 ELSE cache[a].v

(* Mutants: any signature will do; any version will do.                     *)
VerifyNothing(p) ==
    /\ At(p, "verify")
    /\ IF CachedVersion(task[p].alias) >= task[p].rec.v THEN End(p, "kept")
       ELSE Become(p, [task[p] EXCEPT !.pc = "store"])
    /\ UNCHANGED <<clock, can, key, hosts, cache, mishaps>>

VerifyOnly(p) ==
    /\ At(p, "verify")
    /\ IF task[p].rec.key = None THEN End(p, "fail")
       ELSE Become(p, [task[p] EXCEPT !.pc = "store"])
    /\ UNCHANGED <<clock, can, key, hosts, cache, mishaps>>

Verify(p) ==
    /\ At(p, "verify")
    /\ IF task[p].rec.key = None THEN End(p, "fail")
       ELSE IF CachedVersion(task[p].alias) >= task[p].rec.v THEN End(p, "kept")
       ELSE Become(p, [task[p] EXCEPT !.pc = "store"])
    /\ UNCHANGED <<clock, can, key, hosts, cache, mishaps>>

StoreRecord(p) ==
    /\ At(p, "store")
    /\ LET a == task[p].alias IN
         \/ cache' = [cache EXCEPT ![a] = task[p].rec] /\ End(p, "ok") /\ UNCHANGED mishaps
         \/ Mishap("torn") /\ cache' = [cache EXCEPT ![a] = Torn] /\ End(p, "ok")
         \/ Mishap("disk") /\ End(p, "fail") /\ UNCHANGED cache
    /\ UNCHANGED <<clock, can, key, hosts>>

-----------------------------------------------------------------------------
(* capability_matches; a file that does not parse promises nothing.         *)
Fits(rec, need) == IF rec \in {None, Torn} THEN need = {} ELSE need \subseteq rec.can
IsCandidate(a)  == cache[a] # None

(* The local record if it fits, else any cached one that does (they come in *)
(* directory order), else Here if the fallback says so.                     *)
ChooseLocal(p) ==
    /\ At(p, "choose") /\ Fits(task[p].rec, task[p].need)
    /\ Become(p, [task[p] EXCEPT !.pc = "run"])
    /\ UNCHANGED <<clock, can, key, hosts, cache, mishaps>>

ChoosePeer(p) ==
    /\ At(p, "choose") /\ ~ Fits(task[p].rec, task[p].need)
    /\ \E a \in Aliases :
         /\ IsCandidate(a) /\ Fits(cache[a], task[p].need)
         /\ Become(p, IF Registered[a] = None THEN [task[p] EXCEPT !.pc = "idle", !.ret = "fail"]
                      ELSE [task[p] EXCEPT !.pc = "run", !.alias = a, !.node = Registered[a],
                                !.rec = IF cache[a] = Torn THEN None ELSE cache[a]])
    /\ UNCHANGED <<clock, can, key, hosts, cache, mishaps>>

ChooseNone(p) ==
    /\ At(p, "choose") /\ ~ Fits(task[p].rec, task[p].need)
    /\ \A a \in Aliases : IsCandidate(a) => ~ Fits(cache[a], task[p].need)
    /\ Become(p, IF task[p].fallback THEN [task[p] EXCEPT !.pc = "run", !.rec = None]
                 ELSE [task[p] EXCEPT !.pc = "idle", !.ret = "fail"])
    /\ UNCHANGED <<clock, can, key, hosts, cache, mishaps>>

(* Mutant: a command that could not be run elsewhere is run here.           *)
RunAgain(p) ==
    /\ At(p, "run")
    /\ \/ /\ Become(p, [task[p] EXCEPT !.ran = @ + 1, !.pc = "idle", !.ret = "ok"])
          /\ UNCHANGED mishaps
       \/ /\ task[p].alias # None /\ Mishap("link")
          /\ \E n \in {0, 1} :
               Become(p, [task[p] EXCEPT !.ran = @ + n, !.alias = None, !.node = Here])
    /\ UNCHANGED <<clock, can, key, hosts, cache>>

(* The command runs; a lost link may come before or after it ran.           *)
Run(p) ==
    /\ At(p, "run")
    /\ \/ /\ Become(p, [task[p] EXCEPT !.ran = @ + 1, !.pc = "idle", !.ret = "ok"])
          /\ UNCHANGED mishaps
       \/ /\ task[p].alias # None /\ Mishap("link")
          /\ \E n \in {0, 1} :
               Become(p, [task[p] EXCEPT !.ran = @ + n, !.pc = "idle", !.ret = "fail"])
    /\ UNCHANGED <<clock, can, key, hosts, cache>>

-----------------------------------------------------------------------------
(* A process dies; what it was writing is torn.                             *)
Crash(p) ==
    /\ Active(p) /\ Mishap("crash")
    /\ hosts' \in {hosts} \cup (IF At(p, "save") THEN {Torn} ELSE {})
    /\ key' \in {key} \cup (IF At(p, "savekey") THEN {[key EXCEPT ![task[p].node] = Torn]} ELSE {})
    /\ cache' \in {cache} \cup (IF At(p, "store") THEN {[cache EXCEPT ![task[p].alias] = Torn]}
                                ELSE {})
    /\ End(p, "fail")
    /\ UNCHANGED <<clock, can>>

(* Time passes; nodes change what they can do.                              *)
Tick ==
    /\ clock < MaxClock
    /\ clock' = clock + 1
    /\ UNCHANGED <<can, key, hosts, cache, task, mishaps>>

Change(n) ==
    /\ clock < MaxClock
    /\ \E c \in SUBSET Can : can' = [can EXCEPT ![n] = c]
    /\ clock' = clock + 1
    /\ UNCHANGED <<key, hosts, cache, task, mishaps>>

Begin(p) ==
    \/ \E a \in Aliases : \/ \E n \in Nodes : BeginAdd(p, a, n)
                          \/ BeginRemove(p, a) \/ BeginSync(p, a)
    \/ \E need \in SUBSET Can, f \in BOOLEAN : BeginRoute(p, need, f)

Step(p) == \/ Save(p) \/ Publish(p) \/ KeyFound(p) \/ KeyMissing(p) \/ KeySaved(p)
           \/ LinkDown(p) \/ Verify(p) \/ StoreRecord(p)
           \/ ChooseLocal(p) \/ ChoosePeer(p) \/ ChooseNone(p) \/ Run(p) \/ Crash(p)

World == Tick \/ \E n \in Nodes : Change(n)
Next  == World \/ \E p \in Procs : Begin(p) \/ Step(p)

(* One command at a time.                                                   *)
SerialNext ==
    \/ World
    \/ \E p \in Procs : (\A q \in Procs : ~ Active(q)) /\ Begin(p)
    \/ \E p \in Procs : Step(p)

Spec       == Init /\ [][Next]_vars
SerialSpec == Init /\ [][SerialNext]_vars

-----------------------------------------------------------------------------
(* Properties.                                                              *)
IsRecord(r) == r \notin {None, Torn}

(* "Monotonic: never replace a cached record with an older-or-equal         *)
(* version" (capability.cpp).                                               *)
CacheMonotonic ==
    [][\A a \in Aliases : IsRecord(cache[a]) /\ IsRecord(cache[a]') /\ cache'[a] # cache[a]
                          => cache'[a].v > cache[a].v]_vars

(* A node has one identity: every cached record is signed with the key its  *)
(* node keeps on disk, unless the write that should have put it there was   *)
(* lost (such a node can sign no record any more).  Well-typed state is part*)
(* of it.                                                                   *)
SignedByIdentity ==
    /\ TypeOK
    /\ \A a \in Aliases : IsRecord(cache[a]) => key[cache[a].node] \in {cache[a].key, Torn}

(* A routed command is run at most once, links lost on the way included,    *)
(* and once if the route reports success.                                   *)
RunsOnce ==
    \A p \in Procs : /\ task[p].ran <= 1
                     /\ task[p].cmd = "route" /\ task[p].ret = "ok" => task[p].ran = 1

(* The registry is read and rewritten whole, yet a command changes the      *)
(* entry of the alias it was given and forgets no other, unless a torn      *)
(* write comes in between; and it was told to.                              *)
HostsAdditive ==
    [][hosts # Torn /\ hosts' # Torn =>
         \A a \in Aliases : hosts'[a] # hosts[a] =>
           \E p \in Procs : /\ At(p, "save") /\ task[p].alias = a
                           /\ hosts'[a] = (IF task[p].cmd = "add" THEN task[p].node ELSE None)]_vars

(* "Run <cmd> on the first peer (local or cached) satisfying the            *)
(* constraints" (capability.hpp): it runs on the node whose record fits.    *)
RunsWhereItFits ==
    \A p \in Procs : At(p, "run") /\ IsRecord(task[p].rec) => task[p].rec.node = task[p].node

(* A failed dispatch to a peer falls back as the user asked.                *)
FallsBack ==
    \A p \in Procs : task[p].cmd = "route" /\ task[p].fallback /\ task[p].ret = "fail"
                     => task[p].ran > 0
=============================================================================
