------------------------------ MODULE Profile -------------------------------
(***************************************************************************)
(* libs/kuli-bp: apply.cpp, generation.cpp and gen_cmd.cpp.  A kuli process *)
(* applies a blueprint, or moves the profile to another generation.  What   *)
(* they share is on disk: the generation manifests, the file `current`, the *)
(* shims in ~/.local/bin, the deployed config files with their .kuli-bak    *)
(* backups, and the store.  There is no lock, every file is truncated       *)
(* before it is written, and a process may die between any two steps.       *)
(*                                                                          *)
(* A blueprint is what Luau evaluation returns: the set hash apply compares,*)
(* the derivations in the graph, the ones reachable from its root (those    *)
(* are the ones the engine is asked to realize), the shims of the graph's   *)
(* derivations and the files they deploy.                                   *)
(***************************************************************************)
EXTENDS Naturals

CONSTANTS Procs,       \* kuli processes
          Blueprints,  \* what apply may be given
          Hashes,      \* derivation-set hashes
          Derivs,      \* derivations with something in the store
          KuliExe,     \* what the shim of a scripture basename runs
          Aliases,     \* names in ~/.local/bin
          Targets,     \* paths of config files
          Contents,    \* contents of config files
          UserFile,    \* what the user had at each target before kuli came
          Faults,      \* the mishaps that may happen: a set of kinds
          MaxMishaps,  \* bound on their number
          MaxGen,      \* bound on generation ids
          None,        \* nothing there
          Torn         \* truncated, not (fully) written

Blueprint == [hash : Hashes, nodes : SUBSET Derivs, reach : SUBSET Derivs,
              shims : [Aliases -> Derivs \cup {KuliExe, None}],
              files : [Targets -> Contents \cup {None}]]

Ids == 1 .. MaxGen

(* A manifest: its parent and what the generation projects.                 *)
Generation == [parent : 0 .. MaxGen, hash : Hashes \cup {None},
               shims : [Aliases -> Derivs \cup {KuliExe, None}],
               files : [Targets -> Contents \cup {None}]]

ASSUME ProfileAssumption ==
    /\ Blueprints \subseteq Blueprint
    /\ \A b \in Blueprints : /\ b.reach \subseteq b.nodes
                             /\ \A a \in Aliases : b.shims[a] \in b.nodes \cup {KuliExe, None}
    /\ UserFile \in [Targets -> Contents \cup {None}]
    /\ Faults \subseteq {"crash", "realize", "disk", "copy", "flush"}
    /\ MaxMishaps \in Nat /\ MaxGen \in Nat
    /\ None # Torn /\ {None, Torn} \cap (Derivs \cup {KuliExe} \cup Contents) = {}
    /\ KuliExe \notin Derivs
    /\ None \notin Generation /\ Torn \notin Generation

VARIABLES gens,      \* generation manifests: missing, torn, or complete
          current,   \* the id in the file `current`, 0 if unreadable
          bin,       \* what each shim in ~/.local/bin runs
          file,      \* the config files
          bak,       \* their .kuli-bak copies
          realized,  \* derivations present in the store
          lock,      \* the derivations kuli.lock lists
          st,        \* each process: where it is and what it has read
          mishaps    \* crashes and failed writes so far

disk == <<gens, current, bin, file, bak, realized, lock>>
vars == <<disk, st, mishaps>>

EmptyGeneration == [parent |-> 0, hash |-> None,
                    shims |-> [a \in Aliases |-> None], files |-> [t \in Targets |-> None]]

Labels == {"idle", "realize", "commit", "parent", "manifest", "walk", "load", "remove",
           "restore", "write", "deploy", "setcurrent", "lock"}

(* A process's memory.  gen is the manifest activate() has loaded.          *)
Process == [pc : Labels, bp : Blueprints \cup {None}, derivs : SUBSET Derivs,
            id : 0 .. MaxGen, parent : 0 .. MaxGen, left : Nat, gen : Generation,
            shims : SUBSET Aliases, files : SUBSET Targets, at : Targets \cup {None},
            ok : BOOLEAN, ret : {"none", "ok", "noop", "oldest", "fail"}]

Exited(r) == [pc |-> "idle", bp |-> None, derivs |-> {}, id |-> 0, parent |-> 0, left |-> 0,
              gen |-> EmptyGeneration, shims |-> {}, files |-> {}, at |-> None,
              ok |-> TRUE, ret |-> r]

TypeOK ==
    /\ gens \in [Ids -> Generation \cup {None, Torn}]
    /\ current \in 0 .. MaxGen
    /\ bin \in [Aliases -> Derivs \cup {KuliExe, None, Torn}]
    /\ file \in [Targets -> Contents \cup {None, Torn}]
    /\ bak \in [Targets -> Contents \cup {None, Torn}]
    /\ realized \subseteq Derivs
    /\ lock \subseteq Derivs
    /\ st \in [Procs -> Process]
    /\ mishaps \in 0 .. MaxMishaps

Init ==
    /\ gens = [i \in Ids |-> None]
    /\ current = 0
    /\ bin = [a \in Aliases |-> None]
    /\ file = UserFile
    /\ bak = [t \in Targets |-> None]
    /\ realized = {}
    /\ lock = {}
    /\ st = [p \in Procs |-> Exited("none")]
    /\ mishaps = 0

-----------------------------------------------------------------------------
At(p, l)     == st[p].pc = l
Become(p, s) == st' = [st EXCEPT ![p] = s]
Exit(p, r)   == Become(p, Exited(r))     \* the process ends, its memory is gone
Active(p)    == ~ At(p, "idle")

(* The kinds of mishap: a crash; a derivation that cannot be realized; a    *)
(* write or removal that fails ("disk"); a backup that cannot be copied; a  *)
(* write that fails only when the stream is closed, after its state was     *)
(* last looked at ("flush").                                                *)
Mishap(kind) == kind \in Faults /\ mishaps < MaxMishaps /\ mishaps' = mishaps + 1

(* Profile::load returns a generation only for a manifest that parses.      *)
Loadable(i) == i \in Ids /\ gens[i] \notin {None, Torn}

(* commit() adds one to the greatest id Profile::list returns, which goes by*)
(* file names, torn manifests included.                                     *)
NextId(i) == /\ i - 1 \in {0} \cup {j \in Ids : gens[j] # None}
             /\ \A j \in Ids : gens[j] # None => j < i

Shimmed(g)  == {a \in Aliases : g.shims[a] # None}
Deployed(g) == {t \in Targets : g.files[t] # None}

-----------------------------------------------------------------------------
(* kuli bp apply.                                                           *)

(* Evaluate, then the no-op check (C1) against the current generation.      *)
(* Bound: no apply starts once the last id is used up.                      *)
ApplyBegin(p, b) ==
    /\ At(p, "idle")
    /\ gens[MaxGen] = None
    /\ IF Loadable(current) /\ gens[current].hash = b.hash
       THEN Exit(p, "noop")
       ELSE Become(p, [Exited("none") EXCEPT !.pc = "realize", !.bp = b, !.derivs = b.reach])
    /\ UNCHANGED <<disk, mishaps>>

(* The engine realizes the reachable derivations one after the other.       *)
Realize(p) ==
    /\ At(p, "realize")
    /\ \E d \in st[p].derivs :
         /\ realized' = realized \cup {d}
         /\ Become(p, [st[p] EXCEPT !.derivs = @ \ {d}])
    /\ UNCHANGED <<gens, current, bin, file, bak, lock, mishaps>>

(* Mutant: the engine's exit code is not looked at.                         *)
IgnoreFailure(p) ==
    /\ At(p, "realize")
    /\ st[p].derivs # {}
    /\ Mishap("realize")
    /\ Become(p, [st[p] EXCEPT !.derivs = {}, !.pc = "commit"])
    /\ UNCHANGED disk

(* The first failure ends the apply; what was realized stays.               *)
RealizeFails(p) ==
    /\ At(p, "realize")
    /\ st[p].derivs # {}
    /\ Mishap("realize")
    /\ Exit(p, "fail")
    /\ UNCHANGED disk

RealizeDone(p) ==
    /\ At(p, "realize")
    /\ st[p].derivs = {}
    /\ Become(p, [st[p] EXCEPT !.pc = "commit"])
    /\ UNCHANGED <<disk, mishaps>>

(* Mutant: number generations from the current one.                         *)
ReuseId(p) ==
    /\ At(p, "commit")
    /\ current < MaxGen
    /\ Become(p, [st[p] EXCEPT !.pc = "parent", !.id = current + 1])
    /\ UNCHANGED <<disk, mishaps>>

(* commit(): the new id is one more than the greatest on disk (none is left *)
(* if another process took the last one, a matter of the bound) ...         *)
CommitId(p) ==
    /\ At(p, "commit")
    /\ \E i \in Ids : /\ NextId(i)
                      /\ Become(p, [st[p] EXCEPT !.pc = "parent", !.id = i])
    /\ UNCHANGED <<disk, mishaps>>

(* Mutants: the parent is the newest generation; the generation itself.     *)
NewestIsParent(p) ==
    /\ At(p, "parent")
    /\ Become(p, [st[p] EXCEPT !.pc = "manifest", !.parent = st[p].id - 1])
    /\ UNCHANGED <<disk, mishaps>>

OwnParent(p) ==
    /\ At(p, "parent")
    /\ Become(p, [st[p] EXCEPT !.pc = "manifest", !.parent = st[p].id])
    /\ UNCHANGED <<disk, mishaps>>

(* ... its parent the current generation ...                                *)
CommitParent(p) ==
    /\ At(p, "parent")
    /\ Become(p, [st[p] EXCEPT !.pc = "manifest", !.parent = current])
    /\ UNCHANGED <<disk, mishaps>>

(* ... and it records every derivation of the graph.  write_json does not   *)
(* report a failure.                                                        *)
Manifest(p) == [parent |-> st[p].parent, hash |-> st[p].bp.hash,
                shims |-> st[p].bp.shims, files |-> st[p].bp.files]

CommitManifest(p) ==
    /\ At(p, "manifest")
    /\ \/ /\ gens' = [gens EXCEPT ![st[p].id] = Manifest(p)]
          /\ UNCHANGED mishaps
       \/ /\ Mishap("disk")
          /\ \E g \in {gens[st[p].id], Torn} : gens' = [gens EXCEPT ![st[p].id] = g]
    /\ Become(p, [st[p] EXCEPT !.pc = "load"])
    /\ UNCHANGED <<current, bin, file, bak, realized, lock>>

-----------------------------------------------------------------------------
(* kuli bp generation switch / rollback.                                    *)

SwitchBegin(p, i) ==
    /\ At(p, "idle")
    /\ IF Loadable(i) THEN Become(p, [Exited("none") EXCEPT !.pc = "load", !.id = i])
                      ELSE Exit(p, "fail")
    /\ UNCHANGED <<disk, mishaps>>

RollbackBegin(p, steps) ==
    /\ At(p, "idle")
    /\ IF current = 0 THEN Exit(p, "fail")
       ELSE Become(p, [Exited("none") EXCEPT !.pc = "walk", !.id = current, !.left = steps])
    /\ UNCHANGED <<disk, mishaps>>

HasParent(i) == Loadable(i) /\ gens[i].parent # 0

(* One turn of the loop over the parents.                                   *)
RollbackStep(p) ==
    /\ At(p, "walk")
    /\ st[p].left > 0 /\ HasParent(st[p].id)
    /\ Become(p, [st[p] EXCEPT !.id = gens[st[p].id].parent, !.left = @ - 1])
    /\ UNCHANGED <<disk, mishaps>>

RollbackFound(p) ==
    /\ At(p, "walk")
    /\ st[p].left = 0 \/ ~ HasParent(st[p].id)
    /\ IF st[p].id = current THEN Exit(p, "oldest")
                             ELSE Become(p, [st[p] EXCEPT !.pc = "load"])
    /\ UNCHANGED <<disk, mishaps>>

-----------------------------------------------------------------------------
(* Mutant: activation gives up without a current generation.                *)
LoadBoth(p) ==
    /\ At(p, "load")
    /\ IF Loadable(st[p].id) /\ Loadable(current)
       THEN LET g == gens[st[p].id] IN
            Become(p, [st[p] EXCEPT !.pc = "remove", !.gen = g,
                                    !.shims = Shimmed(gens[current]) \ Shimmed(g),
                                    !.files = Deployed(gens[current]) \ Deployed(g)])
       ELSE Exit(p, "fail")
    /\ UNCHANGED <<disk, mishaps>>

(* Profile::activate(id): load the target and the current generation, ...   *)
Load(p) ==
    /\ At(p, "load")
    /\ LET g == gens[st[p].id]
           cur == IF Loadable(current) THEN gens[current] ELSE EmptyGeneration IN
       IF Loadable(st[p].id)
       THEN Become(p, [st[p] EXCEPT !.pc = "remove", !.gen = g,
                                    !.shims = Shimmed(cur) \ Shimmed(g),
                                    !.files = Deployed(cur) \ Deployed(g)])
       ELSE Exit(p, "fail")
    /\ UNCHANGED <<disk, mishaps>>

(* ... remove what the current one projects and the target does not ...     *)
RemoveShim(p) ==
    /\ At(p, "remove")
    /\ \E a \in st[p].shims :
         /\ \/ bin' = [bin EXCEPT ![a] = None] /\ UNCHANGED mishaps
            \/ Mishap("disk") /\ UNCHANGED bin
         /\ Become(p, [st[p] EXCEPT !.shims = @ \ {a}])
    /\ UNCHANGED <<gens, current, file, bak, realized, lock>>

(* (remove_deployed: delete the file, then put the backup back if any)      *)
RemoveFile(p) ==
    /\ At(p, "remove")
    /\ \E t \in st[p].files :
         /\ \/ file' = [file EXCEPT ![t] = None] /\ UNCHANGED mishaps
            \/ Mishap("disk") /\ UNCHANGED file
         /\ Become(p, [st[p] EXCEPT !.files = @ \ {t}, !.at = t,
                                    !.pc = IF bak[t] = None THEN "remove" ELSE "restore"])
    /\ UNCHANGED <<gens, current, bin, bak, realized, lock>>

RestoreFile(p) ==
    /\ At(p, "restore")
    /\ \/ /\ file' = [file EXCEPT ![st[p].at] = IF bak[st[p].at] = None THEN @ ELSE bak[st[p].at]]
          /\ bak' = [bak EXCEPT ![st[p].at] = None]
          /\ UNCHANGED mishaps
       \/ Mishap("disk") /\ UNCHANGED <<file, bak>>
    /\ Become(p, [st[p] EXCEPT !.pc = "remove"])
    /\ UNCHANGED <<gens, current, bin, realized, lock>>

(* Mutant: write only what is missing.                                      *)
WriteMissing(p) ==
    /\ At(p, "remove")
    /\ st[p].shims = {} /\ st[p].files = {}
    /\ Become(p, [st[p] EXCEPT !.pc = "write", !.ok = TRUE,
                               !.shims = {a \in Shimmed(st[p].gen) : bin[a] = None},
                               !.files = {t \in Deployed(st[p].gen) : file[t] = None}])
    /\ UNCHANGED <<disk, mishaps>>

RemoveDone(p) ==
    /\ At(p, "remove")
    /\ st[p].shims = {} /\ st[p].files = {}
    /\ Become(p, [st[p] EXCEPT !.pc = "write", !.ok = TRUE, !.shims = Shimmed(st[p].gen),
                               !.files = Deployed(st[p].gen)])
    /\ UNCHANGED <<disk, mishaps>>

(* ... write the target's shims, going on after a failure ...               *)
WriteShim(p) ==
    /\ At(p, "write")
    /\ \E a \in st[p].shims :
         \/ /\ bin' = [bin EXCEPT ![a] = st[p].gen.shims[a]]
            /\ Become(p, [st[p] EXCEPT !.shims = @ \ {a}])
            /\ UNCHANGED mishaps
         \/ /\ Mishap("disk")
            /\ \E left \in {bin[a], Torn} : bin' = [bin EXCEPT ![a] = left]
            /\ Become(p, [st[p] EXCEPT !.shims = @ \ {a}, !.ok = FALSE])
         \/ /\ Mishap("flush")
            /\ bin' = [bin EXCEPT ![a] = Torn]
            /\ Become(p, [st[p] EXCEPT !.shims = @ \ {a}])
    /\ UNCHANGED <<gens, current, file, bak, realized, lock>>

(* Mutant: a backup before every write.                                     *)
BackupAlways(p) ==
    /\ At(p, "write")
    /\ \E t \in st[p].files :
         /\ Become(p, [st[p] EXCEPT !.pc = "deploy", !.files = @ \ {t}, !.at = t])
         /\ bak' = [bak EXCEPT ![t] = IF file[t] = None THEN @ ELSE file[t]]
    /\ UNCHANGED <<gens, current, bin, file, realized, lock, mishaps>>

(* ... and its files.  deploy_file first copies what is there, unless a     *)
(* backup exists; nobody asks whether the copy succeeded.                   *)
BackupFile(p) ==
    /\ At(p, "write")
    /\ \E t \in st[p].files :
         /\ Become(p, [st[p] EXCEPT !.pc = "deploy", !.files = @ \ {t}, !.at = t])
         /\ \/ /\ file[t] # None /\ bak[t] = None
               /\ \/ bak' = [bak EXCEPT ![t] = file[t]] /\ UNCHANGED mishaps
                  \/ /\ Mishap("copy")
                     /\ \E left \in {None, Torn} : bak' = [bak EXCEPT ![t] = left]
            \/ /\ file[t] = None \/ bak[t] # None
               /\ UNCHANGED <<bak, mishaps>>
    /\ UNCHANGED <<gens, current, bin, file, realized, lock>>

DeployFile(p) ==
    /\ At(p, "deploy")
    /\ LET t == st[p].at IN
         \/ /\ file' = [file EXCEPT ![t] = st[p].gen.files[t]]
            /\ Become(p, [st[p] EXCEPT !.pc = "write"])
            /\ UNCHANGED mishaps
         \/ /\ Mishap("disk")
            /\ \E left \in {file[t], Torn} : file' = [file EXCEPT ![t] = left]
            /\ Become(p, [st[p] EXCEPT !.pc = "write", !.ok = FALSE])
         \/ /\ Mishap("flush")
            /\ file' = [file EXCEPT ![t] = Torn]
            /\ Become(p, [st[p] EXCEPT !.pc = "write"])
    /\ UNCHANGED <<gens, current, bin, bak, realized, lock>>

(* A partial projection does not advance `current` (M-2).                   *)
WriteDone(p) ==
    /\ At(p, "write")
    /\ st[p].shims = {} /\ st[p].files = {}
    /\ IF st[p].ok THEN Become(p, [st[p] EXCEPT !.pc = "setcurrent"]) ELSE Exit(p, "fail")
    /\ UNCHANGED <<disk, mishaps>>

(* set_current truncates and writes `current`; apply then writes the lock.  *)
SetCurrent(p) ==
    /\ At(p, "setcurrent")
    /\ \/ /\ Loadable(st[p].id)
          /\ \/ current' = st[p].id /\ UNCHANGED mishaps
             \/ Mishap("flush") /\ current' = 0
          /\ IF st[p].bp = None THEN Exit(p, "ok")
                                ELSE Become(p, [st[p] EXCEPT !.pc = "lock"])
       \/ /\ Loadable(st[p].id)
          /\ Mishap("disk")
          /\ current' \in {current, 0}
          /\ Exit(p, "fail")
       \/ /\ ~ Loadable(st[p].id)
          /\ Exit(p, "fail")
          /\ UNCHANGED <<current, mishaps>>
    /\ UNCHANGED <<gens, bin, file, bak, realized, lock>>

(* write_lock lists the graph's derivations; a failure goes unnoticed.      *)
WriteLock(p) ==
    /\ At(p, "lock")
    /\ \/ lock' = st[p].bp.nodes /\ UNCHANGED mishaps
       \/ Mishap("disk") /\ lock' \in {lock, {}}
    /\ Exit(p, "ok")
    /\ UNCHANGED <<gens, current, bin, file, bak, realized>>

(* The process dies: its memory is gone, the disk stays as it is.           *)
Crash(p) ==
    /\ Active(p)
    /\ Mishap("crash")
    /\ Exit(p, "none")
    /\ UNCHANGED disk

-----------------------------------------------------------------------------
Command(p) == \/ \E b \in Blueprints : ApplyBegin(p, b)
              \/ \E i \in Ids : SwitchBegin(p, i)
              \/ \E n \in Ids : RollbackBegin(p, n)

Commit(p)   == CommitId(p) \/ CommitParent(p) \/ CommitManifest(p)
Activate(p) == \/ Load(p) \/ RemoveShim(p) \/ RemoveFile(p) \/ RestoreFile(p) \/ RemoveDone(p)
               \/ WriteShim(p) \/ BackupFile(p) \/ DeployFile(p) \/ WriteDone(p)
               \/ SetCurrent(p)
Step(p) == \/ Realize(p) \/ RealizeFails(p) \/ RealizeDone(p) \/ Commit(p)
           \/ RollbackStep(p) \/ RollbackFound(p) \/ Activate(p) \/ WriteLock(p)

Next == \E p \in Procs : Command(p) \/ Step(p) \/ Crash(p)

(* A running process keeps running; nobody is obliged to start or to crash. *)
Fairness == \A p \in Procs : WF_vars(Step(p))

Spec == Init /\ [][Next]_vars

(* One kuli process at a time, as a user at one terminal runs them.         *)
Quiet      == \A q \in Procs : ~ Active(q)
SerialNext == \E p \in Procs : (Quiet /\ Command(p)) \/ Step(p) \/ Crash(p)

SerialSpec     == Init /\ [][SerialNext]_vars
FairSerialSpec == SerialSpec /\ Fairness

-----------------------------------------------------------------------------
(* Properties.                                                              *)

Shows(g)   == \A a \in Aliases : g.shims[a] # None => bin[a] = g.shims[a]
Deploys(g) == \A t \in Targets : g.files[t] # None => file[t] = g.files[t]

(* `current` always names a generation whose manifest is complete, whatever *)
(* crashed or could not be written (SerialSpec).                            *)
CurrentLoadable == current # 0 => Loadable(current)

(* A complete manifest is never rewritten: "Append-only: never reuse an id" *)
(* (commit).                                                                *)
AppendOnly == [][\A i \in Ids : Loadable(i) => gens'[i] = gens[i]]_vars

(* The parents of a generation are older and complete, so the loop of       *)
(* generation_rollback ends, at a generation that can be activated.         *)
(* Well-typed state is part of it.                                          *)
ParentsOlder ==
    /\ TypeOK
    /\ \A i \in Ids : Loadable(i) =>
         gens[i].parent < i /\ (gens[i].parent = 0 \/ Loadable(gens[i].parent))

(* The step that moves `current` to what a process has activated.           *)
ProjectStep ==
    \A p \in Procs : At(p, "setcurrent") /\ current' = st[p].id /\ mishaps' = mishaps
       => Shows(st[p].gen) /\ Deploys(st[p].gen)

(* M-2: activate moves `current` only onto a generation all of whose shims  *)
(* and files are in place (short of a failure when a stream is closed).     *)
ActivationProjects == [][ProjectStep]_vars

(* With no activation cut short, ~/.local/bin holds the shims of the current*)
(* generation and no others, its files are deployed, and no file of the user*)
(* is lost: it is back as it was, or waits in the backup of the target that *)
(* the generation deploys.                                                  *)
CurrentGen == IF Loadable(current) THEN gens[current] ELSE EmptyGeneration
ProfileShowsCurrent ==
    Quiet /\ mishaps = 0 =>
       /\ bin = CurrentGen.shims
       /\ Deploys(CurrentGen)
       /\ \A t \in Targets : UserFile[t] # None =>
             (IF t \in Deployed(CurrentGen) THEN bak[t] ELSE file[t]) = UserFile[t]

(* The shims of every derivation in the graph are projected, while only     *)
(* those the root reaches are realized.                                     *)
Unreached(a, d) == \E b \in Blueprints : b.shims[a] = d /\ d \notin b.reach

(* A shim of a derivation only appears once that derivation is in the store,*)
(* however many processes apply, switch and crash: the one exception is a   *)
(* derivation that the root of a blueprint with this shim does not reach.   *)
ShimsResolve ==
    \A a \in Aliases : bin[a] \in Derivs => bin[a] \in realized \/ Unreached(a, bin[a])

(* M-2: an apply that got past the no-op check and meets no new mishap ends *)
(* with its generation current and fully projected, whatever partial        *)
(* projections and torn manifests came before.                              *)
ApplySucceeds ==
    \A p \in Procs : \A b \in Blueprints :
        (At(p, "realize") /\ st[p].bp = b /\ mishaps = MaxMishaps)
        ~> /\ st[p].ret = "ok" /\ Loadable(current)
           /\ gens[current].hash = b.hash /\ Shows(b) /\ Deploys(b)

(* A rollback from a generation with a parent moves to an older one.        *)
RollbackMovesBack ==
    \A p \in Procs : \A i \in Ids :
        (At(p, "walk") /\ current = i /\ HasParent(i) /\ mishaps = MaxMishaps)
        ~> (st[p].ret = "ok" /\ current < i)

(* Commit and activation implement the generation log.                      *)
Log == INSTANCE GenerationLog WITH
          Manifests <- Generation,
          hist <- [i \in Ids |-> IF gens[i] = Torn THEN None ELSE gens[i]]
ImplementsGenerationLog == Log!Spec

(* Statements of the comments and documents that the code does not keep.    *)

(* "issues found (re-apply to repair)" (doctor) and "re-run `kuli bp apply` *)
(* ... to repair": an apply that reports success leaves the shims there.    *)
ReapplyRepairs ==
    [][\A p \in Procs : ~ Active(p) /\ st'[p].ret = "noop" => Shows(gens[current])]_vars

(* "Undo a deployed file: restore the backup if we made one, else delete the*)
(* file we created": a file of kuli's own does not outlive the generations  *)
(* that deploy it.                                                          *)
CreatedFilesRemoved ==
    Quiet => \A t \in Targets \ Deployed(CurrentGen) : UserFile[t] = None => file[t] = None

(* "withFiles target path exists and is not managed by kuli -> replace      *)
(* refuses" (design.md 8.2.8): the user's files are left alone.             *)
ReplaceRefuses == \A t \in Targets : UserFile[t] # None => file[t] = UserFile[t]

(* "a reproducibility record of the realized derivation set" (write_lock).  *)
LockIsRealized == lock \subseteq realized
=============================================================================
