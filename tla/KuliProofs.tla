------------------------------ MODULE KuliProofs ------------------------------
(* Proofs about Profile, for any number of processes, blueprints, aliases,  *)
(* targets, generations and mishaps; and about Kuli, where commands on      *)
(* scriptures come between those on profiles.                               *)
EXTENDS Kuli, TLAPS

(* What a process's memory satisfies besides its type: the fields a label   *)
(* relies on are set.                                                       *)
Sound(s) == /\ s \in Process
            /\ s.pc \in {"realize", "commit", "parent", "manifest", "lock"} => s.bp \in Blueprints
            /\ s.pc \in {"parent", "manifest"} => s.id \in Ids
            /\ s.pc \in {"restore", "deploy"} => s.at \in Targets

DiskOK == /\ gens \in [Ids -> Generation \cup {None, Torn}]
          /\ current \in 0 .. MaxGen
          /\ bin \in [Aliases -> Derivs \cup {KuliExe, None, Torn}]
          /\ file \in [Targets -> Contents \cup {None, Torn}]
          /\ bak \in [Targets -> Contents \cup {None, Torn}]
          /\ realized \subseteq Derivs
          /\ lock \subseteq Derivs

MemoryOK == st \in [Procs -> Process] /\ \A p \in Procs : Sound(st[p])

TInv == DiskOK /\ MemoryOK /\ mishaps \in 0 .. MaxMishaps

-----------------------------------------------------------------------------
(* Ids are natural numbers up to the bound.                                 *)
LEMMA IdsType == ASSUME NEW i \in Ids PROVE i \in Nat /\ i \in 0 .. MaxGen
  BY ProfileAssumption DEF ProfileAssumption, Ids

(* A blueprint is well formed.                                              *)
LEMMA BlueprintType ==
  ASSUME NEW b \in Blueprints
  PROVE  /\ b \in Blueprint
         /\ b.hash \in Hashes
         /\ b.nodes \subseteq Derivs /\ b.reach \subseteq Derivs
         /\ b.shims \in [Aliases -> Derivs \cup {KuliExe, None}]
         /\ b.files \in [Targets -> Contents \cup {None}]
  BY ProfileAssumption DEF ProfileAssumption, Blueprint

(* The memory of a process that has just ended or is about to begin.        *)
LEMMA ExitedSound ==
  ASSUME NEW r \in {"none", "ok", "noop", "oldest", "fail"}
  PROVE  Sound(Exited(r))
<1>1. EmptyGeneration \in Generation
  BY ProfileAssumption DEF ProfileAssumption, EmptyGeneration, Generation
<1> QED BY <1>1, ProfileAssumption
        DEF ProfileAssumption, Sound, Exited, Process, Labels

(* Replacing the memory of one process by sound memory keeps all sound.     *)
LEMMA BecomeSound ==
  ASSUME MemoryOK, NEW p \in Procs, NEW s, Sound(s), Become(p, s)
  PROVE  MemoryOK'
  BY DEF MemoryOK, Become, Sound

(* A process that ends leaves sound memory behind.                          *)
LEMMA ExitSound ==
  ASSUME MemoryOK, NEW p \in Procs,
         NEW r \in {"none", "ok", "noop", "oldest", "fail"}, Exit(p, r)
  PROVE  MemoryOK'
  BY ExitedSound, BecomeSound DEF Exit

(* A mishap keeps the count within its bound.                               *)
LEMMA MishapType ==
  ASSUME mishaps \in 0 .. MaxMishaps, NEW k, Mishap(k)
  PROVE  mishaps' \in 0 .. MaxMishaps
  BY ProfileAssumption DEF ProfileAssumption, Mishap

(* The manifest a process writes is a generation.                           *)
LEMMA ManifestType ==
  ASSUME TInv, NEW p \in Procs, At(p, "manifest")
  PROVE  Manifest(p) \in Generation /\ st[p].id \in Ids
<1>1. st[p].bp \in Blueprints /\ st[p].id \in Ids /\ st[p].parent \in 0 .. MaxGen
  BY DEF TInv, MemoryOK, Sound, At, Process
<1> QED BY <1>1, BlueprintType DEF Manifest, Generation

(* What load returns is a generation.                                       *)
LEMMA LoadableType ==
  ASSUME TInv, NEW i, Loadable(i)
  PROVE  i \in Ids /\ gens[i] \in Generation
  BY DEF TInv, DiskOK, Loadable
-----------------------------------------------------------------------------
(* Typing is inductive, one lemma for each command.                         *)

(* The types hold initially.                                                *)
LEMMA TypeInit == Init => TInv
<1> SUFFICES ASSUME Init PROVE TInv OBVIOUS
<1>1. DiskOK
  BY ProfileAssumption DEF ProfileAssumption, Init, DiskOK
<1>2. MemoryOK
  <2>1. Sound(Exited("none")) BY ExitedSound
  <2> QED BY <2>1 DEF Init, MemoryOK, Sound
<1> QED BY <1>1, <1>2, ProfileAssumption DEF ProfileAssumption, Init, TInv

(* The commands of the user keep them.                                      *)
LEMMA TypeCommand ==
  ASSUME TInv, NEW p \in Procs, Command(p)
  PROVE  TInv'
<1> USE DEF TInv
<1>0. Sound(Exited("none")) /\ Exited("none") \in Process
  BY ExitedSound DEF Sound
<1>1. ASSUME NEW b \in Blueprints, ApplyBegin(p, b) PROVE TInv'
  <2>1. Sound([Exited("none") EXCEPT !.pc = "realize", !.bp = b, !.derivs = b.reach])
    BY <1>0, BlueprintType DEF Sound, Process, Labels, Exited
  <2>2. MemoryOK'
    BY <1>1, <2>1, BecomeSound, ExitSound DEF ApplyBegin
  <2> QED BY <1>1, <2>2 DEF ApplyBegin, DiskOK, disk
<1>2. ASSUME NEW i \in Ids, SwitchBegin(p, i) PROVE TInv'
  <2>1. Sound([Exited("none") EXCEPT !.pc = "load", !.id = i])
    <3>1. i \in 0 .. MaxGen BY IdsType
    <3> QED BY <1>0, <3>1 DEF Sound, Process, Labels, Exited
  <2>2. MemoryOK'
    BY <1>2, <2>1, BecomeSound, ExitSound DEF SwitchBegin
  <2> QED BY <1>2, <2>2 DEF SwitchBegin, DiskOK, disk
<1>3. ASSUME NEW n \in Ids, RollbackBegin(p, n) PROVE TInv'
  <2>1. Sound([Exited("none") EXCEPT !.pc = "walk", !.id = current, !.left = n])
    <3>1. n \in Nat /\ current \in 0 .. MaxGen BY IdsType DEF DiskOK
    <3> QED BY <1>0, <3>1 DEF Sound, Process, Labels, Exited
  <2>2. MemoryOK'
    BY <1>3, <2>1, BecomeSound, ExitSound DEF RollbackBegin
  <2> QED BY <1>3, <2>2 DEF RollbackBegin, DiskOK, disk
<1> QED BY <1>1, <1>2, <1>3 DEF Command

(* apply, up to the manifest; and the walk of a rollback.                   *)
LEMMA TypeApply ==
  ASSUME TInv, NEW p \in Procs,
         Realize(p) \/ RealizeFails(p) \/ RealizeDone(p) \/ Commit(p)
  PROVE  TInv'
<1> USE DEF TInv
<1>0. st[p] \in Process /\ Sound(st[p])
  BY DEF MemoryOK
<1>1. CASE Realize(p)
  <2>1. PICK d \in st[p].derivs : /\ realized' = realized \cup {d}
                                  /\ Become(p, [st[p] EXCEPT !.derivs = @ \ {d}])
    BY <1>1 DEF Realize
  <2>2. d \in Derivs BY <1>0 DEF Process
  <2>3. Sound([st[p] EXCEPT !.derivs = @ \ {d}])
    BY <1>0 DEF Sound, Process
  <2>4. MemoryOK' BY <2>1, <2>3, BecomeSound
  <2> QED BY <1>1, <2>1, <2>2, <2>4 DEF Realize, DiskOK
<1>2. CASE RealizeFails(p)
  <2>1. MemoryOK' BY <1>2, ExitSound DEF RealizeFails
  <2> QED BY <1>2, <2>1, MishapType DEF RealizeFails, DiskOK, disk
<1>3. CASE RealizeDone(p)
  <2>1. Sound([st[p] EXCEPT !.pc = "commit"])
    BY <1>0, <1>3 DEF Sound, Process, Labels, RealizeDone, At
  <2>2. MemoryOK' BY <1>3, <2>1, BecomeSound DEF RealizeDone
  <2> QED BY <1>3, <2>2 DEF RealizeDone, DiskOK, disk
<1>4. CASE CommitId(p)
  <2>1. PICK i \in Ids : Become(p, [st[p] EXCEPT !.pc = "parent", !.id = i])
    BY <1>4 DEF CommitId
  <2>2. i \in 0 .. MaxGen BY IdsType
  <2>3. Sound([st[p] EXCEPT !.pc = "parent", !.id = i])
    BY <1>0, <1>4, <2>2 DEF Sound, Process, Labels, CommitId, At
  <2>4. MemoryOK' BY <2>1, <2>3, BecomeSound
  <2> QED BY <1>4, <2>4 DEF CommitId, DiskOK, disk
<1>5. CASE CommitParent(p)
  <2>1. current \in 0 .. MaxGen BY DEF DiskOK
  <2>2. Sound([st[p] EXCEPT !.pc = "manifest", !.parent = current])
    BY <1>0, <1>5, <2>1 DEF Sound, Process, Labels, CommitParent, At
  <2>3. MemoryOK' BY <1>5, <2>2, BecomeSound DEF CommitParent
  <2> QED BY <1>5, <2>3 DEF CommitParent, DiskOK, disk
<1>6. CASE CommitManifest(p)
  <2>1. Manifest(p) \in Generation /\ st[p].id \in Ids
    BY <1>6, ManifestType DEF CommitManifest
  <2>2. Sound([st[p] EXCEPT !.pc = "load"])
    BY <1>0 DEF Sound, Process, Labels
  <2>3. MemoryOK' BY <1>6, <2>2, BecomeSound DEF CommitManifest
  <2>4. gens' \in [Ids -> Generation \cup {None, Torn}]
    BY <1>6, <2>1 DEF CommitManifest, DiskOK
  <2>5. mishaps' \in 0 .. MaxMishaps
    BY <1>6, MishapType DEF CommitManifest
  <2> QED BY <1>6, <2>3, <2>4, <2>5 DEF CommitManifest, DiskOK
<1> QED BY <1>1, <1>2, <1>3, <1>4, <1>5, <1>6 DEF Commit

(* So does the walk over the parents.                                       *)
LEMMA TypeWalk ==
  ASSUME TInv, NEW p \in Procs, RollbackStep(p) \/ RollbackFound(p)
  PROVE  TInv'
<1> USE DEF TInv
<1>0. st[p] \in Process /\ Sound(st[p])
  BY DEF MemoryOK
<1>1. CASE RollbackStep(p)
  <2>1. gens[st[p].id].parent \in 0 .. MaxGen
    BY <1>1, LoadableType DEF RollbackStep, HasParent, Generation
  <2>2. st[p].left - 1 \in Nat
    BY <1>0, <1>1 DEF RollbackStep, Process
  <2>3. Sound([st[p] EXCEPT !.id = gens[st[p].id].parent, !.left = st[p].left - 1])
    BY <1>0, <1>1, <2>1, <2>2 DEF Sound, Process, Labels, RollbackStep, At
  <2>4. MemoryOK' BY <1>1, <2>3, BecomeSound DEF RollbackStep
  <2> QED BY <1>1, <2>4 DEF RollbackStep, DiskOK, disk
<1>2. CASE RollbackFound(p)
  <2>1. Sound([st[p] EXCEPT !.pc = "load"])
    BY <1>0 DEF Sound, Process, Labels
  <2>2. MemoryOK' BY <1>2, <2>1, BecomeSound, ExitSound DEF RollbackFound
  <2> QED BY <1>2, <2>2 DEF RollbackFound, DiskOK, disk
<1> QED BY <1>1, <1>2

(* Activation.                                                              *)
LEMMA TypeRemove ==
  ASSUME TInv, NEW p \in Procs,
         Load(p) \/ RemoveShim(p) \/ RemoveFile(p) \/ RestoreFile(p) \/ RemoveDone(p)
  PROVE  TInv'
<1> USE DEF TInv
<1>0. st[p] \in Process /\ Sound(st[p])
  BY DEF MemoryOK
<1>1. CASE Load(p)
  <2> DEFINE g   == gens[st[p].id]
             cur == IF Loadable(current) THEN gens[current] ELSE EmptyGeneration
             s   == [st[p] EXCEPT !.pc = "remove", !.gen = g,
                                  !.shims = Shimmed(cur) \ Shimmed(g),
                                  !.files = Deployed(cur) \ Deployed(g)]
  <2>1. CASE Loadable(st[p].id)
    <3>1. g \in Generation BY <2>1, LoadableType
    <3>2. Shimmed(cur) \ Shimmed(g) \subseteq Aliases /\ Deployed(cur) \ Deployed(g) \subseteq Targets
      BY DEF Shimmed, Deployed
    <3> HIDE DEF g, cur
    <3>3. Sound(s)
      BY <1>0, <3>1, <3>2 DEF Sound, Process, Labels
    <3>4. Become(p, s) BY <1>1, <2>1 DEF Load, g, cur
    <3> HIDE DEF s
    <3>5. MemoryOK' BY <3>3, <3>4, BecomeSound
    <3> QED BY <1>1, <3>5 DEF Load, DiskOK, disk
  <2>2. CASE ~ Loadable(st[p].id)
    <3>1. MemoryOK' BY <1>1, <2>2, ExitSound DEF Load
    <3> QED BY <1>1, <3>1 DEF Load, DiskOK, disk
  <2> QED BY <2>1, <2>2
<1>2. CASE RemoveShim(p)
  <2>1. PICK a \in st[p].shims : /\ \/ bin' = [bin EXCEPT ![a] = None] /\ UNCHANGED mishaps
                                    \/ Mishap("disk") /\ UNCHANGED bin
                                 /\ Become(p, [st[p] EXCEPT !.shims = @ \ {a}])
    BY <1>2 DEF RemoveShim
  <2>2. Sound([st[p] EXCEPT !.shims = @ \ {a}])
    BY <1>0 DEF Sound, Process
  <2>3. MemoryOK' BY <2>1, <2>2, BecomeSound
  <2>4. mishaps' \in 0 .. MaxMishaps BY <2>1, MishapType
  <2>5. bin' \in [Aliases -> Derivs \cup {KuliExe, None, Torn}] BY <2>1 DEF DiskOK
  <2> QED BY <1>2, <2>3, <2>4, <2>5 DEF RemoveShim, DiskOK
<1>3. CASE RemoveFile(p)
  <2>1. PICK t \in st[p].files :
          /\ \/ file' = [file EXCEPT ![t] = None] /\ UNCHANGED mishaps
             \/ Mishap("disk") /\ UNCHANGED file
          /\ Become(p, [st[p] EXCEPT !.files = @ \ {t}, !.at = t,
                                     !.pc = IF bak[t] = None THEN "remove" ELSE "restore"])
    BY <1>3 DEF RemoveFile
  <2>2. t \in Targets BY <1>0 DEF Process
  <2>3. Sound([st[p] EXCEPT !.files = @ \ {t}, !.at = t,
                            !.pc = IF bak[t] = None THEN "remove" ELSE "restore"])
    BY <1>0, <2>2, ZenonT(40) DEF Sound, Process, Labels
  <2>4. MemoryOK' BY <2>1, <2>3, BecomeSound
  <2>5. mishaps' \in 0 .. MaxMishaps BY <2>1, MishapType
  <2>6. file' \in [Targets -> Contents \cup {None, Torn}] BY <2>1 DEF DiskOK
  <2> QED BY <1>3, <2>4, <2>5, <2>6 DEF RemoveFile, DiskOK
<1>4. CASE RestoreFile(p)
  <2>1. Sound([st[p] EXCEPT !.pc = "remove"])
    BY <1>0 DEF Sound, Process, Labels
  <2>2. MemoryOK' BY <1>4, <2>1, BecomeSound DEF RestoreFile
  <2>3. st[p].at \in Targets BY <1>0, <1>4 DEF Sound, RestoreFile, At
  <2>4. mishaps' \in 0 .. MaxMishaps BY <1>4, MishapType DEF RestoreFile
  <2>5. /\ file' \in [Targets -> Contents \cup {None, Torn}]
        /\ bak' \in [Targets -> Contents \cup {None, Torn}]
    BY <1>4, <2>3 DEF RestoreFile, DiskOK
  <2> QED BY <1>4, <2>2, <2>4, <2>5 DEF RestoreFile, DiskOK
<1>5. CASE RemoveDone(p)
  <2>1. Shimmed(st[p].gen) \subseteq Aliases /\ Deployed(st[p].gen) \subseteq Targets
    BY DEF Shimmed, Deployed
  <2>2. Sound([st[p] EXCEPT !.pc = "write", !.ok = TRUE, !.shims = Shimmed(st[p].gen),
                            !.files = Deployed(st[p].gen)])
    BY <1>0, <2>1 DEF Sound, Process, Labels
  <2>3. MemoryOK' BY <1>5, <2>2, BecomeSound DEF RemoveDone
  <2> QED BY <1>5, <2>3 DEF RemoveDone, DiskOK, disk
<1> QED BY <1>1, <1>2, <1>3, <1>4, <1>5

(* So does writing the shims and files of the target.                       *)
LEMMA TypeWrite ==
  ASSUME TInv, NEW p \in Procs,
         WriteShim(p) \/ BackupFile(p) \/ DeployFile(p) \/ WriteDone(p)
  PROVE  TInv'
<1> USE DEF TInv
<1>0. st[p] \in Process /\ Sound(st[p])
  BY DEF MemoryOK
<1>g. /\ st[p].gen.shims \in [Aliases -> Derivs \cup {KuliExe, None}]
      /\ st[p].gen.files \in [Targets -> Contents \cup {None}]
  BY <1>0 DEF Process, Generation
<1>1. CASE WriteShim(p)
  <2>1. PICK a \in st[p].shims :
          /\ bin' \in {[bin EXCEPT ![a] = st[p].gen.shims[a]], bin, [bin EXCEPT ![a] = Torn]}
          /\ \E b \in BOOLEAN : Become(p, [st[p] EXCEPT !.shims = @ \ {a}, !.ok = b])
          /\ mishaps' \in 0 .. MaxMishaps
    <3>1. [st[p] EXCEPT !.ok = st[p].ok] = st[p] /\ st[p].ok \in BOOLEAN
      BY <1>0 DEF Process
    <3>2. \A a : [st[p] EXCEPT !.shims = @ \ {a}]
                 = [st[p] EXCEPT !.shims = @ \ {a}, !.ok = st[p].ok]
      BY <1>0 DEF Process
    <3>3. PICK a \in st[p].shims :
            \/ /\ bin' = [bin EXCEPT ![a] = st[p].gen.shims[a]]
               /\ Become(p, [st[p] EXCEPT !.shims = @ \ {a}])
               /\ UNCHANGED mishaps
            \/ /\ Mishap("disk")
               /\ \E left \in {bin[a], Torn} : bin' = [bin EXCEPT ![a] = left]
               /\ Become(p, [st[p] EXCEPT !.shims = @ \ {a}, !.ok = FALSE])
            \/ /\ Mishap("flush")
               /\ bin' = [bin EXCEPT ![a] = Torn]
               /\ Become(p, [st[p] EXCEPT !.shims = @ \ {a}])
      BY <1>1 DEF WriteShim
    <3>4. [bin EXCEPT ![a] = bin[a]] = bin BY DEF DiskOK
    <3>5. mishaps' \in 0 .. MaxMishaps BY <3>3, MishapType
    <3>6. \E b \in BOOLEAN : Become(p, [st[p] EXCEPT !.shims = @ \ {a}, !.ok = b])
      BY <3>1, <3>2, <3>3
    <3>7. bin' \in {[bin EXCEPT ![a] = st[p].gen.shims[a]], bin, [bin EXCEPT ![a] = Torn]}
      BY <3>3, <3>4
    <3> QED BY <3>5, <3>6, <3>7
  <2>2. \A b \in BOOLEAN : Sound([st[p] EXCEPT !.shims = @ \ {a}, !.ok = b])
    BY <1>0 DEF Sound, Process
  <2>3. MemoryOK' BY <2>1, <2>2, BecomeSound
  <2>4. a \in Aliases BY <1>0 DEF Process
  <2>5. bin' \in [Aliases -> Derivs \cup {KuliExe, None, Torn}]
    BY <1>g, <2>1, <2>4 DEF DiskOK
  <2> QED BY <1>1, <2>1, <2>3, <2>5 DEF WriteShim, DiskOK
<1>2. CASE BackupFile(p)
  <2>1. PICK t \in st[p].files :
          /\ Become(p, [st[p] EXCEPT !.pc = "deploy", !.files = @ \ {t}, !.at = t])
          /\ \/ /\ file[t] # None /\ bak[t] = None
                /\ \/ bak' = [bak EXCEPT ![t] = file[t]] /\ UNCHANGED mishaps
                   \/ /\ Mishap("copy")
                      /\ \E left \in {None, Torn} : bak' = [bak EXCEPT ![t] = left]
             \/ /\ file[t] = None \/ bak[t] # None
                /\ UNCHANGED <<bak, mishaps>>
    BY <1>2 DEF BackupFile
  <2>2. t \in Targets BY <1>0 DEF Process
  <2>3. Sound([st[p] EXCEPT !.pc = "deploy", !.files = @ \ {t}, !.at = t])
    BY <1>0, <2>2 DEF Sound, Process, Labels
  <2>4. MemoryOK' BY <2>1, <2>3, BecomeSound
  <2>5. mishaps' \in 0 .. MaxMishaps BY <2>1, MishapType
  <2>6. bak' \in [Targets -> Contents \cup {None, Torn}] BY <2>1, <2>2 DEF DiskOK
  <2> QED BY <1>2, <2>4, <2>5, <2>6 DEF BackupFile, DiskOK
<1>3. CASE DeployFile(p)
  <2>1. st[p].at \in Targets BY <1>0, <1>3 DEF Sound, DeployFile, At
  <2>2. /\ Sound([st[p] EXCEPT !.pc = "write"])
        /\ Sound([st[p] EXCEPT !.pc = "write", !.ok = FALSE])
    BY <1>0, ZenonT(40) DEF Sound, Process, Labels
  <2>3. MemoryOK' BY <1>3, <2>2, BecomeSound DEF DeployFile
  <2>4. mishaps' \in 0 .. MaxMishaps BY <1>3, MishapType DEF DeployFile
  <2>5. file' \in [Targets -> Contents \cup {None, Torn}]
    BY <1>3, <1>g, <2>1 DEF DeployFile, DiskOK
  <2> QED BY <1>3, <2>3, <2>4, <2>5 DEF DeployFile, DiskOK
<1>4. CASE WriteDone(p)
  <2>1. Sound([st[p] EXCEPT !.pc = "setcurrent"])
    BY <1>0 DEF Sound, Process, Labels
  <2>2. MemoryOK' BY <1>4, <2>1, BecomeSound, ExitSound DEF WriteDone
  <2> QED BY <1>4, <2>2 DEF WriteDone, DiskOK, disk
<1> QED BY <1>1, <1>2, <1>3, <1>4

(* So do moving `current` and writing the lock.                             *)
LEMMA TypeFinish ==
  ASSUME TInv, NEW p \in Procs, SetCurrent(p) \/ WriteLock(p) \/ Crash(p)
  PROVE  TInv'
<1> USE DEF TInv
<1>0. st[p] \in Process /\ Sound(st[p])
  BY DEF MemoryOK
<1>1. CASE SetCurrent(p)
  <2>1. ASSUME st[p].bp # None PROVE Sound([st[p] EXCEPT !.pc = "lock"])
    <3>1. st[p].bp \in Blueprints BY <1>0, <2>1 DEF Process
    <3> QED BY <1>0, <3>1 DEF Sound, Process, Labels
  <2>2. MemoryOK' BY <1>1, <2>1, BecomeSound, ExitSound DEF SetCurrent
  <2>3. mishaps' \in 0 .. MaxMishaps BY <1>1, MishapType DEF SetCurrent
  <2>4. 0 \in 0 .. MaxGen BY ProfileAssumption DEF ProfileAssumption
  <2>5. current' \in 0 .. MaxGen
    BY <1>0, <1>1, <2>4 DEF SetCurrent, DiskOK, Process
  <2> QED BY <1>1, <2>2, <2>3, <2>5 DEF SetCurrent, DiskOK
<1>2. CASE WriteLock(p)
  <2>1. st[p].bp.nodes \subseteq Derivs
    BY <1>0, <1>2, BlueprintType DEF Sound, WriteLock, At
  <2>2. MemoryOK' BY <1>2, ExitSound DEF WriteLock
  <2>3. mishaps' \in 0 .. MaxMishaps BY <1>2, MishapType DEF WriteLock
  <2>4. lock' \subseteq Derivs BY <1>2, <2>1 DEF WriteLock, DiskOK
  <2> QED BY <1>2, <2>2, <2>3, <2>4 DEF WriteLock, DiskOK
<1>3. CASE Crash(p)
  <2>1. MemoryOK' BY <1>3, ExitSound DEF Crash
  <2> QED BY <1>3, <2>1, MishapType DEF Crash, DiskOK, disk
<1> QED BY <1>1, <1>2, <1>3

(* Every action keeps the types.                                            *)
LEMMA TypeStep == TInv /\ [Next]_vars => TInv'
<1> SUFFICES ASSUME TInv, [Next]_vars PROVE TInv'
  OBVIOUS
<1>1. CASE UNCHANGED vars
  BY <1>1 DEF vars, disk, TInv, DiskOK, MemoryOK
<1>2. ASSUME NEW p \in Procs, Command(p) \/ Step(p) \/ Crash(p) PROVE TInv'
  BY <1>2, TypeCommand, TypeApply, TypeWalk, TypeRemove, TypeWrite, TypeFinish
  DEF Step, Activate
<1> QED BY <1>1, <1>2 DEF Next

(* Type correctness: whatever crashes and whichever way processes           *)
(* interleave, the files on disk and every process's memory have their      *)
(* types.                                                                   *)
THEOREM TypeCorrect == Spec => []TypeOK
<1>1. TInv => TypeOK BY DEF TInv, DiskOK, MemoryOK, TypeOK
<1> QED BY <1>1, TypeInit, TypeStep, PTL DEF Spec

-----------------------------------------------------------------------------
(* One process at a time: the history of generations.                       *)

OneActive == \A p, q \in Procs : Active(p) /\ Active(q) => p = q

(* While a process commits, its id is greater than every id in use, and the *)
(* parent it has read is still current.                                     *)
Fresh(p) == /\ st[p].pc \in {"parent", "manifest"} => \A j \in Ids : gens[j] # None => j < st[p].id
            /\ st[p].pc = "manifest" => st[p].parent = current

(* Parents are older and loadable.                                          *)
Older == \A i \in Ids : Loadable(i) =>
            gens[i].parent < i /\ (gens[i].parent = 0 \/ Loadable(gens[i].parent))
History == CurrentLoadable /\ Older

SInv == OneActive /\ (\A p \in Procs : Fresh(p)) /\ History

(* The actions that touch neither the manifests nor `current`, nor begin to *)
(* commit.                                                                  *)
Elsewhere(p) == \/ Command(p) \/ Realize(p) \/ RealizeFails(p) \/ RealizeDone(p)
                \/ RollbackStep(p) \/ RollbackFound(p)
                \/ Load(p) \/ RemoveShim(p) \/ RemoveFile(p) \/ RestoreFile(p) \/ RemoveDone(p)
                \/ WriteShim(p) \/ BackupFile(p) \/ DeployFile(p) \/ WriteDone(p)
                \/ WriteLock(p) \/ Crash(p)

(* A process that takes a step other than a command is active.              *)
LEMMA StepsAreActive ==
  ASSUME NEW p \in Procs, Step(p) \/ Crash(p)
  PROVE  Active(p)
<1>1. CASE Crash(p) BY <1>1 DEF Crash
<1>2. CASE Commit(p) BY <1>2 DEF Commit, CommitId, CommitParent, CommitManifest, Active, At
<1>3. CASE Activate(p)
  BY <1>3 DEF Activate, Load, RemoveShim, RemoveFile, RestoreFile, RemoveDone, WriteShim,
              BackupFile, DeployFile, WriteDone, SetCurrent, Active, At
<1>4. CASE Realize(p) \/ RealizeFails(p) \/ RealizeDone(p)
  BY <1>4 DEF Realize, RealizeFails, RealizeDone, Active, At
<1>5. CASE RollbackStep(p) \/ RollbackFound(p) \/ WriteLock(p)
  BY <1>5 DEF RollbackStep, RollbackFound, WriteLock, Active, At
<1> QED BY <1>1, <1>2, <1>3, <1>4, <1>5 DEF Step

(* A step changes the memory of the process that takes it and no other.     *)
LEMMA StepsAreOwn ==
  ASSUME NEW p \in Procs, Command(p) \/ Step(p) \/ Crash(p)
  PROVE  \E s : Become(p, s)
<1>1. CASE Crash(p) BY <1>1 DEF Crash, Exit
<1>2. CASE Command(p) BY <1>2 DEF Command, ApplyBegin, SwitchBegin, RollbackBegin, Exit
<1>3. CASE Commit(p) BY <1>3 DEF Commit, CommitId, CommitParent, CommitManifest
<1>4. CASE Load(p) \/ RemoveShim(p) \/ RemoveFile(p) \/ RestoreFile(p) \/ RemoveDone(p)
  BY <1>4 DEF Load, RemoveShim, RemoveFile, RestoreFile, RemoveDone, Exit
<1>5. CASE WriteShim(p) \/ BackupFile(p) \/ DeployFile(p) \/ WriteDone(p)
  BY <1>5 DEF WriteShim, BackupFile, DeployFile, WriteDone, Exit
<1>6. CASE SetCurrent(p) \/ WriteLock(p)
  BY <1>6 DEF SetCurrent, WriteLock, Exit
<1>7. CASE Realize(p) \/ RealizeFails(p) \/ RealizeDone(p)
  BY <1>7 DEF Realize, RealizeFails, RealizeDone, Exit
<1>8. CASE RollbackStep(p) \/ RollbackFound(p)
  BY <1>8 DEF RollbackStep, RollbackFound, Exit
<1> QED BY <1>1, <1>2, <1>3, <1>4, <1>5, <1>6, <1>7, <1>8 DEF Step, Activate

(* What the actions of Elsewhere leave alone.                               *)
LEMMA ElsewhereKeeps ==
  ASSUME TInv, NEW p \in Procs, Elsewhere(p)
  PROVE  UNCHANGED <<gens, current>> /\ st'[p].pc \notin {"parent", "manifest"}
<1>0. /\ st \in [Procs -> Process] /\ st[p] \in Process
      /\ \A s : Become(p, s) => st'[p] = s
  BY DEF TInv, MemoryOK, Become
<1>e. \A r : Exit(p, r) => st'[p].pc = "idle"
  BY <1>0 DEF Exit, Exited
<1>1. CASE Crash(p) BY <1>e, <1>1 DEF Crash, disk
<1>2. CASE Command(p)
  <2>1. CASE \E b \in Blueprints : ApplyBegin(p, b)
    <3>1. PICK b \in Blueprints : ApplyBegin(p, b)
      BY <2>1
    <3>2. \/ Exit(p, "noop")
          \/ Become(p, [Exited("none") EXCEPT !.pc = "realize", !.bp = b, !.derivs = b.reach])
      BY <3>1 DEF ApplyBegin
    <3>3. st'[p].pc = "idle" \/ st'[p].pc = "realize"
      BY <1>0, <1>e, <3>2 DEF Exited
    <3> QED BY <3>1, <3>3 DEF ApplyBegin, disk
  <2>2. CASE \E i \in Ids : SwitchBegin(p, i)
    BY <1>0, <1>e, <2>2 DEF SwitchBegin, disk, Exited
  <2>3. CASE \E n \in Ids : RollbackBegin(p, n)
    BY <1>0, <1>e, <2>3 DEF RollbackBegin, disk, Exited
  <2> QED BY <1>2, <2>1, <2>2, <2>3 DEF Command
<1>3. CASE Realize(p)
  BY <1>0, <1>3 DEF Realize, At, Process
<1>4. CASE RealizeFails(p) \/ RealizeDone(p)
  BY <1>0, <1>e, <1>4 DEF RealizeFails, RealizeDone, disk, Process
<1>5. CASE RollbackStep(p)
  BY <1>0, <1>5 DEF RollbackStep, At, disk, Process
<1>6. CASE RollbackFound(p)
  BY <1>0, <1>e, <1>6 DEF RollbackFound, disk, Process
<1>7. CASE Load(p)
  BY <1>0, <1>e, <1>7 DEF Load, disk, Process
<1>8. CASE RemoveShim(p)
  BY <1>0, <1>8 DEF RemoveShim, At, Process
<1>9. CASE RemoveFile(p)
  BY <1>0, <1>9 DEF RemoveFile, Process
<1>10. CASE RestoreFile(p) \/ RemoveDone(p)
  <2>1. CASE RestoreFile(p)
    BY <1>0, <2>1 DEF RestoreFile, Process
  <2>2. CASE RemoveDone(p)
    BY <1>0, <2>2 DEF RemoveDone, disk, Process
  <2> QED BY <1>10, <2>1, <2>2
<1>11. CASE WriteShim(p)
  BY <1>0, <1>11 DEF WriteShim, At, Process
<1>12. CASE BackupFile(p)
  BY <1>0, <1>12 DEF BackupFile, Process
<1>13. CASE DeployFile(p)
  BY <1>0, <1>13 DEF DeployFile, Process
<1>14. CASE WriteDone(p)
  BY <1>0, <1>e, <1>14 DEF WriteDone, disk, Process
<1>15. CASE WriteLock(p)
  BY <1>0, <1>e, <1>15 DEF WriteLock
<1> QED BY <1>1, <1>2, <1>3, <1>4, <1>5, <1>6, <1>7, <1>8, <1>9, <1>10, <1>11, <1>12,
           <1>13, <1>14, <1>15 DEF Elsewhere

(* Writing the manifest: nothing was there before, and what is written is   *)
(* younger than everything else.                                            *)
LEMMA ManifestIsNew ==
  ASSUME TInv, NEW p \in Procs, Fresh(p), CommitManifest(p)
  PROVE  /\ st[p].id \in Ids /\ gens[st[p].id] = None
         /\ st[p].parent = current
         /\ \A j \in Ids : gens[j] # None => j < st[p].id
         /\ gens' \in {gens, [gens EXCEPT ![st[p].id] = Torn],
                       [gens EXCEPT ![st[p].id] = Manifest(p)]}
         /\ Manifest(p) \in Generation /\ Manifest(p).parent = current
         /\ current' = current
<1>1. st[p].pc = "manifest" BY DEF CommitManifest, At
<1>2. /\ st[p].parent = current
      /\ \A j \in Ids : gens[j] # None => j < st[p].id
  BY <1>1 DEF Fresh
<1>3. Manifest(p) \in Generation /\ st[p].id \in Ids
  BY <1>1, ManifestType DEF At
<1>4. gens[st[p].id] = None
  <2>1. ~ (st[p].id < st[p].id) BY <1>3, IdsType
  <2> QED BY <1>2, <1>3, <2>1
<1>5. gens' \in {gens, [gens EXCEPT ![st[p].id] = Torn], [gens EXCEPT ![st[p].id] = Manifest(p)]}
  <2>1. [gens EXCEPT ![st[p].id] = gens[st[p].id]] = gens BY DEF TInv, DiskOK
  <2> QED BY <2>1 DEF CommitManifest
<1>6. Manifest(p).parent = current BY <1>2 DEF Manifest
<1> QED BY <1>2, <1>3, <1>4, <1>5, <1>6 DEF CommitManifest

(* The history stays well formed when a manifest is written ...             *)
LEMMA HistoryGrows ==
  ASSUME TInv, NEW p \in Procs, Fresh(p), History, CommitManifest(p)
  PROVE  History'
<1> DEFINE new == st[p].id
<1>1. /\ new \in Ids /\ gens[new] = None /\ current' = current
      /\ gens' \in {gens, [gens EXCEPT ![new] = Torn], [gens EXCEPT ![new] = Manifest(p)]}
      /\ Manifest(p).parent = current
      /\ \A j \in Ids : gens[j] # None => j < new
  BY ManifestIsNew
<1>2. \A i \in Ids : i # new => gens'[i] = gens[i]
  BY <1>1 DEF TInv, DiskOK
<1>3. \A i \in Ids : Loadable(i) => gens'[i] = gens[i] /\ Loadable(i)'
  BY <1>1, <1>2 DEF Loadable
<1>4. \A i \in Ids : Loadable(i)' => Loadable(i) \/ (i = new /\ gens'[i] = Manifest(p))
  BY <1>1, <1>2 DEF Loadable, TInv, DiskOK
<1>5. CurrentLoadable'
  BY <1>1, <1>3 DEF History, CurrentLoadable, Loadable
<1>6. Older'
  <2> SUFFICES ASSUME NEW i \in Ids, Loadable(i)'
               PROVE  (gens[i].parent < i /\ (gens[i].parent = 0 \/ Loadable(gens[i].parent)))'
    BY DEF Older
  <2>0. \A j : Loadable(j) => j \in Ids /\ gens'[j] \notin {None, Torn}
    BY <1>3 DEF Loadable
  <2>1. CASE Loadable(i)
    <3>1. gens'[i] = gens[i] BY <1>3, <2>1
    <3>2. gens[i].parent < i /\ (gens[i].parent = 0 \/ Loadable(gens[i].parent))
      BY <2>1 DEF History, Older
    <3> QED BY <2>0, <3>1, <3>2 DEF Loadable
  <2>2. CASE i = new /\ gens'[i] = Manifest(p)
    <3>1. current = 0 \/ (Loadable(current) /\ current < new)
      BY <1>1 DEF History, CurrentLoadable, Loadable
    <3>2. current < new
      <4>1. new \in Nat /\ new > 0 BY <1>1, ProfileAssumption DEF Ids, ProfileAssumption
      <4> QED BY <3>1, <4>1
    <3> QED BY <1>1, <2>0, <2>2, <3>1, <3>2 DEF Loadable
  <2> QED BY <1>4, <2>1, <2>2
<1> QED BY <1>5, <1>6 DEF History

(* ... and when `current` moves.                                            *)
LEMMA HistorySelects ==
  ASSUME TInv, NEW p \in Procs, History, SetCurrent(p)
  PROVE  History' /\ gens' = gens /\ (current' \in {0, current} \/ (Loadable(st[p].id) /\ current' = st[p].id))
<1>1. gens' = gens /\ (current' \in {0, current} \/ (Loadable(st[p].id) /\ current' = st[p].id))
  BY DEF SetCurrent
<1>2. \A i : Loadable(i)' <=> Loadable(i)
  BY <1>1 DEF Loadable
<1>3. CurrentLoadable' BY <1>1, <1>2 DEF History, CurrentLoadable
<1>4. Older' BY <1>1, <1>2 DEF History, Older, Loadable
<1> QED BY <1>1, <1>3, <1>4 DEF History

(* Every step of one process at a time keeps the invariant.                 *)
LEMMA SerialStep == TInv /\ SInv /\ [SerialNext]_vars => SInv'
<1> SUFFICES ASSUME TInv, SInv, [SerialNext]_vars PROVE SInv'
  OBVIOUS
<1>1. CASE UNCHANGED vars
  BY <1>1 DEF vars, disk, SInv, OneActive, Active, At, Fresh, History, CurrentLoadable,
              Older, Loadable
<1>2. ASSUME NEW p \in Procs, (Quiet /\ Command(p)) \/ Step(p) \/ Crash(p) PROVE SInv'
  <2>1. \A q \in Procs : q # p => ~ Active(q)
    BY <1>2, StepsAreActive DEF SInv, OneActive, Quiet
  <2>2. \A q \in Procs : q # p => st'[q] = st[q]
    <3>1. PICK s : Become(p, s) BY <1>2, StepsAreOwn
    <3> QED BY <3>1 DEF Become, TInv, MemoryOK
  <2>3. OneActive'
    BY <2>1, <2>2 DEF OneActive, Active, At
  <2>4. \A q \in Procs : q # p => Fresh(q)'
    BY <2>1, <2>2 DEF Fresh, Active, At
  <2>5. CASE Elsewhere(p)
    <3>1. UNCHANGED <<gens, current>> /\ st'[p].pc \notin {"parent", "manifest"}
      BY <2>5, ElsewhereKeeps
    <3>2. Fresh(p)' BY <3>1 DEF Fresh
    <3>3. History'
      BY <3>1 DEF SInv, History, CurrentLoadable, Older, Loadable
    <3> QED BY <2>3, <2>4, <3>2, <3>3 DEF SInv
  <2>6. CASE CommitId(p)
    <3>1. UNCHANGED <<gens, current>> BY <2>6 DEF CommitId, disk
    <3>2. PICK i \in Ids : NextId(i) /\ st'[p] = [st[p] EXCEPT !.pc = "parent", !.id = i]
      BY <2>6 DEF CommitId, Become, TInv, MemoryOK
    <3>3. st'[p].pc = "parent" /\ st'[p].id = i
      BY <3>2 DEF TInv, MemoryOK, Process
    <3>4. Fresh(p)' BY <3>1, <3>2, <3>3 DEF Fresh, NextId
    <3>5. History'
      BY <3>1 DEF SInv, History, CurrentLoadable, Older, Loadable
    <3> QED BY <2>3, <2>4, <3>4, <3>5 DEF SInv
  <2>7. CASE CommitParent(p)
    <3>1. UNCHANGED <<gens, current>> BY <2>7 DEF CommitParent, disk
    <3>2. st'[p] = [st[p] EXCEPT !.pc = "manifest", !.parent = current]
      BY <2>7 DEF CommitParent, Become, TInv, MemoryOK
    <3>3. st'[p].pc = "manifest" /\ st'[p].id = st[p].id /\ st'[p].parent = current
      BY <3>2 DEF TInv, MemoryOK, Process
    <3>4. Fresh(p)'
      BY <2>7, <3>1, <3>3 DEF SInv, Fresh, CommitParent, At
    <3>5. History'
      BY <3>1 DEF SInv, History, CurrentLoadable, Older, Loadable
    <3> QED BY <2>3, <2>4, <3>4, <3>5 DEF SInv
  <2>8. CASE CommitManifest(p)
    <3>1. st'[p] = [st[p] EXCEPT !.pc = "load"]
      BY <2>8 DEF CommitManifest, Become, TInv, MemoryOK
    <3>2. st'[p].pc = "load" BY <3>1 DEF TInv, MemoryOK, Process
    <3>3. Fresh(p)' BY <3>2 DEF Fresh
    <3>4. History' BY <2>8, HistoryGrows DEF SInv
    <3> QED BY <2>3, <2>4, <3>3, <3>4 DEF SInv
  <2>9. CASE SetCurrent(p)
    <3>1. st'[p].pc \in {"idle", "lock"}
      BY <2>9 DEF SetCurrent, Exit, Become, Exited, TInv, MemoryOK, Process
    <3>2. Fresh(p)' BY <3>1 DEF Fresh
    <3>3. History' BY <2>9, HistorySelects DEF SInv
    <3> QED BY <2>3, <2>4, <3>2, <3>3 DEF SInv
  <2> QED BY <1>2, <2>5, <2>6, <2>7, <2>8, <2>9 DEF Step, Commit, Activate, Elsewhere
<1> QED BY <1>1, <1>2 DEF SerialNext

(* The invariant holds initially.                                           *)
LEMMA SerialInit == Init => SInv
<1> SUFFICES ASSUME Init PROVE SInv OBVIOUS
<1>1. \A p \in Procs : st[p].pc = "idle" BY DEF Init, Exited
<1>2. OneActive BY <1>1 DEF OneActive, Active, At
<1>3. \A p \in Procs : Fresh(p) BY <1>1 DEF Fresh
<1>4. History BY DEF Init, History, CurrentLoadable, Older, Loadable
<1> QED BY <1>2, <1>3, <1>4 DEF SInv

(* One process at a time is a special case of any number.                   *)
LEMMA SerialIsNext == [SerialNext]_vars => [Next]_vars
BY DEF SerialNext, Next

(* With one process at a time the invariant of commit and activation holds. *)
THEOREM SerialInvariant == SerialSpec => [](TInv /\ SInv)
<1>1. Init => TInv /\ SInv BY TypeInit, SerialInit
<1>2. (TInv /\ SInv) /\ [SerialNext]_vars => (TInv /\ SInv)'
  BY TypeStep, SerialStep, SerialIsNext
<1> QED BY <1>1, <1>2, PTL DEF SerialSpec

(* `current` always names a complete manifest.                              *)
THEOREM CurrentAlwaysLoadable == SerialSpec => []CurrentLoadable
<1>1. SInv => CurrentLoadable BY DEF SInv, History
<1> QED BY <1>1, SerialInvariant, PTL

(* A rollback only ever meets older, complete generations.                  *)
THEOREM ParentsAlwaysOlder == SerialSpec => []ParentsOlder
<1>1. TInv /\ SInv => ParentsOlder
  BY DEF TInv, DiskOK, MemoryOK, TypeOK, SInv, History, Older, ParentsOlder
<1> QED BY <1>1, SerialInvariant, PTL

-----------------------------------------------------------------------------
(* Refinement: what each step does to the history.                          *)

Hist == [i \in Ids |-> IF gens[i] = Torn THEN None ELSE gens[i]]

(* A step that is not a commit, an activation's last one or a stutter leaves*)
(* the manifests and `current` alone.                                       *)
LEMMA StepKinds ==
  ASSUME TInv, SInv, [SerialNext]_vars
  PROVE  \/ UNCHANGED <<gens, current>>
         \/ \E p \in Procs : Fresh(p) /\ (CommitManifest(p) \/ SetCurrent(p))
<1>1. CASE UNCHANGED vars BY <1>1 DEF vars, disk
<1>2. ASSUME NEW p \in Procs, Command(p) \/ Step(p) \/ Crash(p)
      PROVE  \/ UNCHANGED <<gens, current>>
             \/ CommitManifest(p) \/ SetCurrent(p)
  <2>1. CASE Elsewhere(p) BY <2>1, ElsewhereKeeps
  <2>2. CASE CommitId(p) \/ CommitParent(p) BY <2>2 DEF CommitId, CommitParent, disk
  <2> QED BY <1>2, <2>1, <2>2 DEF Step, Commit, Activate, Elsewhere
<1> QED BY <1>1, <1>2 DEF SerialNext, SInv

(* Every step is one of the log, or leaves history and pointer alone.       *)
LEMMA LogStep ==
  ASSUME TInv, SInv, [SerialNext]_vars
  PROVE  Log!Next \/ UNCHANGED <<Hist, current>>
<1>1. CASE UNCHANGED <<gens, current>> BY <1>1 DEF Hist
<1>2. ASSUME NEW p \in Procs, Fresh(p), CommitManifest(p)
      PROVE  Log!Next \/ UNCHANGED <<Hist, current>>
  <2>0. PICK new \in Ids : new = st[p].id
    BY <1>2, ManifestIsNew
  <2>1. /\ new \in Ids /\ gens[new] = None /\ current' = current
        /\ gens' \in {gens, [gens EXCEPT ![new] = Torn], [gens EXCEPT ![new] = Manifest(p)]}
        /\ Manifest(p) \in Generation /\ Manifest(p).parent = current
        /\ \A j \in Ids : gens[j] # None => j < new
    BY <1>2, <2>0, ManifestIsNew
  <2>2. CASE gens' \in {gens, [gens EXCEPT ![new] = Torn]}
    <3>1. Hist' = Hist BY <2>1, <2>2 DEF Hist, TInv, DiskOK
    <3> QED BY <2>1, <3>1
  <2>3. CASE gens' = [gens EXCEPT ![new] = Manifest(p)]
    <3>1. Manifest(p) # Torn /\ Manifest(p) # None
      BY <2>1, ProfileAssumption DEF ProfileAssumption
    <3>2. Hist' = [Hist EXCEPT ![new] = Manifest(p)]
      BY <2>1, <2>3, <3>1 DEF Hist, TInv, DiskOK
    <3>3. Hist'[new] = Manifest(p) BY <2>1, <3>2 DEF Hist
    <3>4. \A j \in Ids : Hist[j] # None => j < new
      BY <2>1 DEF Hist
    <3>5. Log!Append(new)
      BY <2>1, <3>2, <3>3, <3>4 DEF Log!Append, Log!Ids, Ids, Hist
    <3> QED BY <2>1, <3>5 DEF Log!Next, Log!Ids, Ids
  <2> QED BY <2>1, <2>2, <2>3
<1>3. ASSUME NEW p \in Procs, SetCurrent(p)
      PROVE  Log!Next \/ UNCHANGED <<Hist, current>>
  <2>1. gens' = gens /\ (current' \in {0, current} \/ (Loadable(st[p].id) /\ current' = st[p].id))
    BY <1>3, HistorySelects DEF SInv
  <2>2. Hist' = Hist BY <2>1 DEF Hist
  <2>3. CASE current' = current BY <2>2, <2>3
  <2>4. CASE current' = 0
    BY <2>2, <2>4 DEF Log!Next, Log!Lose, Hist
  <2>5. CASE Loadable(st[p].id) /\ current' = st[p].id
    <3>1. st[p].id \in Ids /\ Hist[st[p].id] # None
      BY <2>5 DEF Loadable, Hist
    <3>2. Log!Select(st[p].id)
      BY <2>2, <2>5, <3>1 DEF Log!Select, Hist
    <3> QED BY <3>1, <3>2 DEF Log!Next, Log!Ids, Ids
  <2> QED BY <2>1, <2>3, <2>4, <2>5
<1> QED BY <1>1, <1>2, <1>3, StepKinds

(* With one process at a time, commit and activation implement the          *)
(* generation log: complete manifests are appended with growing ids and the *)
(* current generation as parent, and `current` only ever selects one.       *)
THEOREM ProfileRefinesLog == SerialSpec => ImplementsGenerationLog
<1>1. Init => Log!Init
  BY ProfileAssumption DEF ProfileAssumption, Init, Log!Init, Log!Ids, Ids
<1>2. TInv /\ SInv /\ [SerialNext]_vars => [Log!Next]_<<Hist, current>>
  BY LogStep
<1>3. TInv /\ SInv /\ [SerialNext]_vars
      => [Log!Next]_<<[i \in Ids |-> IF gens[i] = Torn THEN None ELSE gens[i]], current>>
  BY <1>2 DEF Hist
<1> QED BY <1>1, <1>3, SerialInvariant, PTL DEF SerialSpec, ImplementsGenerationLog, Log!Spec

(* With one process at a time a complete manifest is never rewritten; the   *)
(* race run shows that two processes do rewrite one.                        *)
THEOREM AppendOnlyHolds == SerialSpec => AppendOnly
<1>1. TInv /\ SInv /\ [SerialNext]_vars
      => [\A i \in Ids : Loadable(i) => gens'[i] = gens[i]]_vars
  <2> SUFFICES ASSUME TInv, SInv, [SerialNext]_vars, NEW i \in Ids, Loadable(i)
               PROVE  gens'[i] = gens[i]
    OBVIOUS
  <2>1. ASSUME NEW p \in Procs, Fresh(p), CommitManifest(p) PROVE gens'[i] = gens[i]
    <3>1. i # st[p].id BY <2>1, ManifestIsNew DEF Loadable
    <3> QED BY <2>1, <3>1, ManifestIsNew DEF TInv, DiskOK
  <2>2. ASSUME NEW p \in Procs, SetCurrent(p) PROVE gens'[i] = gens[i]
    BY <2>2 DEF SetCurrent
  <2> QED BY <2>1, <2>2, StepKinds
<1> QED BY <1>1, SerialInvariant, PTL DEF SerialSpec, AppendOnly

-----------------------------------------------------------------------------
(* The store and the shims, for any interleaving.                           *)

InStore(a, d) == d \in Derivs => d \in realized \/ Unreached(a, d)

Resolved(g) == \A a \in Aliases : InStore(a, g.shims[a])

(* What a process is about to record or project is in the store.            *)
Backed(p) ==
    /\ st[p].pc = "realize" => st[p].bp.reach \subseteq realized \cup st[p].derivs
    /\ st[p].pc \in {"commit", "parent", "manifest"} => st[p].bp.reach \subseteq realized
    /\ Resolved(st[p].gen)

RInv == /\ \A i \in Ids : Loadable(i) => Resolved(gens[i])
        /\ \A p \in Procs : Backed(p)
        /\ ShimsResolve

(* The store only grows.                                                    *)
LEMMA StoreGrows == [Next]_vars => realized \subseteq realized'
<1> SUFFICES ASSUME NEW p \in Procs, Command(p) \/ Step(p) \/ Crash(p)
             PROVE  realized \subseteq realized'
  BY DEF Next, vars, disk
<1>1. CASE Realize(p) BY <1>1 DEF Realize
<1>2. CASE Command(p) \/ Crash(p) \/ RealizeFails(p) \/ RealizeDone(p)
  BY <1>2 DEF Command, ApplyBegin, SwitchBegin, RollbackBegin, Crash, RealizeFails,
              RealizeDone, disk
<1>3. CASE Commit(p) \/ RollbackStep(p) \/ RollbackFound(p) \/ WriteLock(p)
  BY <1>3 DEF Commit, CommitId, CommitParent, CommitManifest, RollbackStep, RollbackFound,
              WriteLock, disk
<1>4. CASE Activate(p)
  BY <1>4 DEF Activate, Load, RemoveShim, RemoveFile, RestoreFile, RemoveDone, WriteShim,
              BackupFile, DeployFile, WriteDone, SetCurrent, disk
<1> QED BY <1>1, <1>2, <1>3, <1>4 DEF Step

(* The manifests a step leaves behind name only derivations in the store.   *)
LEMMA ManifestsBacked ==
  ASSUME TInv, RInv, NEW p \in Procs, CommitManifest(p)
  PROVE  \A i \in Ids : Loadable(i)' => Resolved(gens[i])'
<1>1. st[p].pc = "manifest" /\ st[p].bp \in Blueprints /\ realized' = realized
  BY DEF TInv, MemoryOK, Sound, CommitManifest, At
<1>2. \A a \in Aliases : InStore(a, st[p].bp.shims[a])
  BY <1>1 DEF RInv, Backed, InStore, Unreached
<1>3. Resolved(Manifest(p)) BY <1>2 DEF Resolved, InStore, Manifest
<1>4. \A i \in Ids : gens'[i] \in {gens[i], Torn, Manifest(p)}
  BY DEF CommitManifest, TInv, DiskOK
<1> QED BY <1>1, <1>3, <1>4 DEF RInv, Loadable, Resolved, InStore

(* The shims a step leaves behind name only derivations in the store.       *)
LEMMA ShimsBacked ==
  ASSUME TInv, RInv, NEW p \in Procs, RemoveShim(p) \/ WriteShim(p)
  PROVE  ShimsResolve'
<1>0. realized' = realized /\ None \notin Derivs /\ Torn \notin Derivs
  BY ProfileAssumption DEF ProfileAssumption, RemoveShim, WriteShim
<1>1. \A a \in Aliases : bin'[a] \in {bin[a], None, Torn, st[p].gen.shims[a]}
  BY DEF RemoveShim, WriteShim, TInv, DiskOK
<1>2. Resolved(st[p].gen) BY DEF RInv, Backed
<1> QED BY <1>0, <1>1, <1>2 DEF RInv, ShimsResolve, Resolved, InStore

(* The labels at which a process still has a manifest to write.             *)
Applying == {"realize", "commit", "parent", "manifest"}

(* A process that ends projects nothing.                                    *)
LEMMA EndBacked ==
  ASSUME MemoryOK, NEW p \in Procs, NEW r, Exit(p, r)
  PROVE  Backed(p)'
<1>1. st'[p] = Exited(r) BY DEF Exit, Become, MemoryOK
<1>2. st'[p].pc = "idle" /\ st'[p].gen = EmptyGeneration BY <1>1 DEF Exited
<1>3. \A a \in Aliases : EmptyGeneration.shims[a] \notin Derivs
  BY ProfileAssumption DEF ProfileAssumption, EmptyGeneration
<1> QED BY <1>2, <1>3 DEF Backed, Resolved, InStore

(* A step that keeps what a process is to project keeps it realized.        *)
LEMMA KeepBacked ==
  ASSUME MemoryOK, RInv, NEW p \in Procs, realized \subseteq realized',
         st'[p].gen = st[p].gen, st'[p].pc \notin Applying
  PROVE  Backed(p)'
  BY DEF RInv, Backed, Resolved, InStore, Applying

(* The commands of the user project nothing yet.                            *)
LEMMA CommandBacked ==
  ASSUME TInv, RInv, NEW p \in Procs, Command(p)
  PROVE  Backed(p)'
<1>0. /\ st \in [Procs -> Process] /\ MemoryOK
      /\ \A s : Become(p, s) => st'[p] = s
      /\ None \notin Derivs
  BY ProfileAssumption DEF ProfileAssumption, TInv, MemoryOK, Become
<1>1. ASSUME NEW b \in Blueprints, ApplyBegin(p, b) PROVE Backed(p)'
  <2>1. CASE Exit(p, "noop") BY <1>0, <2>1, EndBacked
  <2>2. CASE Become(p, [Exited("none") EXCEPT !.pc = "realize", !.bp = b, !.derivs = b.reach])
    <3>1. /\ st'[p].pc = "realize" /\ st'[p].bp = b /\ st'[p].derivs = b.reach
          /\ st'[p].gen = EmptyGeneration
      BY <1>0, <2>2 DEF Exited
    <3> QED BY <1>0, <3>1 DEF Backed, Resolved, InStore, EmptyGeneration
  <2> QED BY <1>1, <2>1, <2>2 DEF ApplyBegin
<1>2. ASSUME NEW i \in Ids, SwitchBegin(p, i) PROVE Backed(p)'
  <2>1. CASE Exit(p, "fail") BY <1>0, <2>1, EndBacked
  <2>2. CASE Become(p, [Exited("none") EXCEPT !.pc = "load", !.id = i])
    <3>1. st'[p].pc = "load" /\ st'[p].gen = EmptyGeneration
      BY <1>0, <2>2 DEF Exited
    <3> QED BY <1>0, <3>1 DEF Backed, Resolved, InStore, EmptyGeneration
  <2> QED BY <1>2, <2>1, <2>2 DEF SwitchBegin
<1>3. ASSUME NEW n \in Ids, RollbackBegin(p, n) PROVE Backed(p)'
  <2>1. CASE Exit(p, "fail") BY <1>0, <2>1, EndBacked
  <2>2. CASE Become(p, [Exited("none") EXCEPT !.pc = "walk", !.id = current, !.left = n])
    <3>1. st'[p].pc = "walk" /\ st'[p].gen = EmptyGeneration
      BY <1>0, <2>2 DEF Exited
    <3> QED BY <1>0, <3>1 DEF Backed, Resolved, InStore, EmptyGeneration
  <2> QED BY <1>3, <2>1, <2>2 DEF RollbackBegin
<1> QED BY <1>1, <1>2, <1>3 DEF Command

(* Up to the commit a process has realized what it will record.             *)
LEMMA ApplyBacked ==
  ASSUME TInv, RInv, NEW p \in Procs,
         Realize(p) \/ RealizeFails(p) \/ RealizeDone(p) \/ Commit(p)
  PROVE  Backed(p)'
<1>0. /\ st \in [Procs -> Process] /\ st[p] \in Process /\ MemoryOK /\ Backed(p)
      /\ \A s : Become(p, s) => st'[p] = s
  BY DEF TInv, MemoryOK, Become, RInv
<1>1. CASE Realize(p)
  <2>1. PICK d \in st[p].derivs : /\ realized' = realized \cup {d}
                                  /\ st'[p] = [st[p] EXCEPT !.derivs = @ \ {d}]
    BY <1>0, <1>1 DEF Realize
  <2>2. /\ st'[p].pc = "realize" /\ st'[p].bp = st[p].bp /\ st'[p].gen = st[p].gen
        /\ st'[p].derivs = st[p].derivs \ {d}
    BY <1>0, <1>1, <2>1 DEF Realize, At, Process
  <2> QED BY <1>0, <1>1, <2>1, <2>2 DEF Backed, Resolved, InStore, Realize, At
<1>2. CASE RealizeFails(p) BY <1>0, <1>2, EndBacked DEF RealizeFails
<1>3. CASE RealizeDone(p)
  <2>1. st'[p].pc = "commit" /\ st'[p].bp = st[p].bp /\ st'[p].gen = st[p].gen
    BY <1>0, <1>3 DEF RealizeDone, Process
  <2> QED BY <1>0, <1>3, <2>1 DEF Backed, Resolved, InStore, RealizeDone, At, disk
<1>4. CASE CommitId(p)
  <2>1. st'[p].pc = "parent" /\ st'[p].bp = st[p].bp /\ st'[p].gen = st[p].gen
    BY <1>0, <1>4 DEF CommitId, Process
  <2> QED BY <1>0, <1>4, <2>1 DEF Backed, Resolved, InStore, CommitId, At, disk
<1>5. CASE CommitParent(p)
  <2>1. st'[p].pc = "manifest" /\ st'[p].bp = st[p].bp /\ st'[p].gen = st[p].gen
    BY <1>0, <1>5 DEF CommitParent, Process
  <2> QED BY <1>0, <1>5, <2>1 DEF Backed, Resolved, InStore, CommitParent, At, disk
<1>6. CASE CommitManifest(p)
  <2>1. st'[p].pc = "load" /\ st'[p].gen = st[p].gen /\ realized' = realized
    BY <1>0, <1>6 DEF CommitManifest, Process
  <2> QED BY <1>0, <2>1, KeepBacked DEF Applying
<1> QED BY <1>1, <1>2, <1>3, <1>4, <1>5, <1>6 DEF Commit

(* After the commit it projects a manifest that is realized.                *)
LEMMA LaterBacked ==
  ASSUME TInv, RInv, NEW p \in Procs, realized \subseteq realized',
         RollbackStep(p) \/ RollbackFound(p) \/ Activate(p) \/ WriteLock(p) \/ Crash(p)
  PROVE  Backed(p)'
<1>0. /\ st \in [Procs -> Process] /\ st[p] \in Process /\ MemoryOK /\ Backed(p)
      /\ \A s : Become(p, s) => st'[p] = s
  BY DEF TInv, MemoryOK, Become, RInv
<1>1. CASE Load(p)
  <2>1. CASE Loadable(st[p].id)
    <3>1. st'[p].pc = "remove" /\ st'[p].gen = gens[st[p].id] /\ realized' = realized
      BY <1>0, <1>1, <2>1 DEF Load, Process, disk
    <3>2. Resolved(gens[st[p].id]) BY <2>1 DEF RInv, Loadable
    <3> QED BY <3>1, <3>2 DEF Backed, Resolved, InStore
  <2>2. CASE ~ Loadable(st[p].id) BY <1>0, <1>1, <2>2, EndBacked DEF Load
  <2> QED BY <2>1, <2>2
<1>2. ASSUME \E r : Exit(p, r) PROVE Backed(p)' BY <1>0, <1>2, EndBacked
<1>3. CASE RollbackStep(p) \/ RollbackFound(p)
  <2>1. (\E r : Exit(p, r)) \/ (st'[p].gen = st[p].gen /\ st'[p].pc \notin Applying)
    BY <1>0, <1>3 DEF RollbackStep, RollbackFound, At, Process, Applying
  <2> QED BY <1>0, <1>2, <2>1, KeepBacked
<1>4. CASE RemoveShim(p) \/ RemoveFile(p) \/ RestoreFile(p) \/ RemoveDone(p)
  <2>1. CASE RemoveShim(p)
    <3>1. st'[p].gen = st[p].gen /\ st'[p].pc \notin Applying
      BY <1>0, <2>1 DEF RemoveShim, At, Process, Applying
    <3> QED BY <1>0, <3>1, KeepBacked
  <2>2. CASE RemoveFile(p)
    <3>1. PICK t \in st[p].files :
             st'[p] = [st[p] EXCEPT !.files = @ \ {t}, !.at = t,
                                    !.pc = IF bak[t] = None THEN "remove" ELSE "restore"]
      BY <1>0, <2>2 DEF RemoveFile
    <3>2. st'[p].gen = st[p].gen /\ st'[p].pc \notin Applying
      BY <1>0, <3>1 DEF Process, Applying
    <3> QED BY <1>0, <3>2, KeepBacked
  <2>3. CASE RestoreFile(p)
    <3>1. st'[p].gen = st[p].gen /\ st'[p].pc \notin Applying
      BY <1>0, <2>3 DEF RestoreFile, At, Process, Applying
    <3> QED BY <1>0, <3>1, KeepBacked
  <2>4. CASE RemoveDone(p)
    <3>1. st'[p] = [st[p] EXCEPT !.pc = "write", !.ok = TRUE, !.shims = Shimmed(st[p].gen),
                                 !.files = Deployed(st[p].gen)]
      BY <1>0, <2>4 DEF RemoveDone
    <3>2. st'[p].gen = st[p].gen /\ st'[p].pc \notin Applying
      BY <1>0, <3>1 DEF Process, Applying
    <3> QED BY <1>0, <3>2, KeepBacked
  <2> QED BY <1>4, <2>1, <2>2, <2>3, <2>4
<1>5. CASE WriteShim(p) \/ BackupFile(p) \/ DeployFile(p)
  <2>1. CASE WriteShim(p)
    <3>1. st'[p].gen = st[p].gen /\ st'[p].pc \notin Applying
      BY <1>0, <2>1 DEF WriteShim, At, Process, Applying
    <3> QED BY <1>0, <3>1, KeepBacked
  <2>2. CASE BackupFile(p)
    <3>1. st'[p].gen = st[p].gen /\ st'[p].pc \notin Applying
      BY <1>0, <2>2 DEF BackupFile, At, Process, Applying
    <3> QED BY <1>0, <3>1, KeepBacked
  <2>3. CASE DeployFile(p)
    <3>1. st'[p].gen = st[p].gen /\ st'[p].pc \notin Applying
      BY <1>0, <2>3 DEF DeployFile, At, Process, Applying
    <3> QED BY <1>0, <3>1, KeepBacked
  <2> QED BY <1>5, <2>1, <2>2, <2>3
<1>6. CASE WriteDone(p) \/ SetCurrent(p) \/ WriteLock(p) \/ Crash(p)
  <2>1. (\E r : Exit(p, r)) \/ (st'[p].gen = st[p].gen /\ st'[p].pc \notin Applying)
    BY <1>0, <1>6 DEF WriteDone, SetCurrent, WriteLock, Crash, Process, Applying
  <2> QED BY <1>0, <1>2, <2>1, KeepBacked
<1> QED BY <1>1, <1>3, <1>4, <1>5, <1>6 DEF Activate

(* Which steps write manifests and shims at all.                            *)
LEMMA OthersWriteNeither ==
  ASSUME NEW p \in Procs, Command(p) \/ Step(p) \/ Crash(p)
  PROVE  /\ CommitManifest(p) \/ UNCHANGED gens
         /\ RemoveShim(p) \/ WriteShim(p) \/ UNCHANGED bin
<1>1. CASE Command(p) \/ Crash(p) \/ Realize(p) \/ RealizeFails(p) \/ RealizeDone(p)
  BY <1>1 DEF Command, ApplyBegin, SwitchBegin, RollbackBegin, Crash, Realize, RealizeFails,
              RealizeDone, disk
<1>2. CASE Commit(p) \/ RollbackStep(p) \/ RollbackFound(p) \/ WriteLock(p)
  BY <1>2 DEF Commit, CommitId, CommitParent, CommitManifest, RollbackStep, RollbackFound,
              WriteLock, disk
<1>3. CASE Activate(p)
  BY <1>3 DEF Activate, Load, RemoveShim, RemoveFile, RestoreFile, RemoveDone, WriteShim,
              BackupFile, DeployFile, WriteDone, SetCurrent, disk
<1> QED BY <1>1, <1>2, <1>3 DEF Step

(* Every step keeps shims and manifests within the store.                   *)
LEMMA StoreStep == TInv /\ RInv /\ [Next]_vars => RInv'
<1> SUFFICES ASSUME TInv, RInv, [Next]_vars PROVE RInv'
  OBVIOUS
<1>0. realized \subseteq realized' BY StoreGrows
<1>1. CASE UNCHANGED vars
  BY <1>1 DEF vars, disk, RInv, Loadable, Resolved, InStore, Backed, ShimsResolve
<1>2. ASSUME NEW p \in Procs, Command(p) \/ Step(p) \/ Crash(p) PROVE RInv'
  <2>1. Backed(p)'
    BY <1>0, <1>2, CommandBacked, ApplyBacked, LaterBacked DEF Step
  <2>2. \A q \in Procs : q # p => Backed(q)'
    <3>1. PICK s : Become(p, s) BY <1>2, StepsAreOwn
    <3>2. \A q \in Procs : q # p => st'[q] = st[q] BY <3>1 DEF Become, TInv, MemoryOK
    <3> QED BY <1>0, <3>2 DEF RInv, Backed, Resolved, InStore
  <2>3. \A i \in Ids : Loadable(i)' => Resolved(gens[i])'
    <3>1. CASE CommitManifest(p) BY <3>1, ManifestsBacked
    <3>2. CASE UNCHANGED gens BY <1>0, <3>2 DEF RInv, Loadable, Resolved, InStore
    <3> QED BY <1>2, <3>1, <3>2, OthersWriteNeither
  <2>4. ShimsResolve'
    <3>1. CASE RemoveShim(p) \/ WriteShim(p) BY <3>1, ShimsBacked
    <3>2. CASE UNCHANGED bin BY <1>0, <3>2 DEF RInv, ShimsResolve, InStore
    <3> QED BY <1>2, <3>1, <3>2, OthersWriteNeither
  <2> QED BY <2>1, <2>2, <2>3, <2>4 DEF RInv
<1> QED BY <1>1, <1>2 DEF Next

(* Nothing is projected at first.                                           *)
LEMMA StoreInit == Init => RInv
<1> SUFFICES ASSUME Init PROVE RInv OBVIOUS
<1>1. None \notin Derivs BY ProfileAssumption DEF ProfileAssumption
<1>2. \A p \in Procs : Backed(p)
  BY <1>1 DEF Init, Exited, Backed, Resolved, InStore, EmptyGeneration
<1> QED BY <1>1, <1>2 DEF Init, RInv, Loadable, ShimsResolve, InStore

(* However many processes apply, switch and crash, a shim only ever runs a  *)
(* derivation that is in the store, or one that the root of a blueprint     *)
(* with this shim does not reach, for any blueprints.                       *)
THEOREM ShimsAlwaysResolve == Spec => []ShimsResolve
<1>1. Init => TInv /\ RInv BY TypeInit, StoreInit
<1>2. (TInv /\ RInv) /\ [Next]_vars => (TInv /\ RInv)' BY TypeStep, StoreStep
<1>3. RInv => ShimsResolve BY DEF RInv
<1> QED BY <1>1, <1>2, <1>3, PTL DEF Spec

-----------------------------------------------------------------------------
(* One process at a time and no mishap so far: what is projected.           *)
Removing   == {"remove", "restore"}
Writing    == {"write", "deploy", "setcurrent"}
Projecting == Removing \cup Writing

(* A target is as generation g has it.                                      *)
Under(t, g) ==
    /\ t \in Deployed(g) => file[t] = g.files[t]
    /\ UserFile[t] # None =>
         IF t \in Deployed(g) THEN bak[t] = UserFile[t]
         ELSE file[t] = UserFile[t] /\ bak[t] = None

InPlace(g) == (\A a \in Aliases : bin[a] = g.shims[a]) /\ (\A t \in Targets : Under(t, g))

(* The target a process has taken from its list and not put in place yet.   *)
Handles(s, t) == s.pc \in {"restore", "deploy"} /\ s.at = t

(* In the middle of an activation: what is still on a process's lists is as *)
(* the current generation has it, and the rest as the one it activates.     *)
ShimMoves(s, a) ==
    bin[a] = IF a \in s.shims \/ (s.pc \in Removing /\ a \in Shimmed(s.gen))
             THEN CurrentGen.shims[a] ELSE s.gen.shims[a]

FileMoves(s, t) ==
    IF Handles(s, t)
    THEN /\ t \notin s.files /\ (t \in Deployed(s.gen) <=> s.pc = "deploy")
         /\ UserFile[t] # None => bak[t] = UserFile[t]
    ELSE Under(t, IF t \in s.files \/ (s.pc \in Removing /\ t \in Deployed(s.gen))
                  THEN CurrentGen ELSE s.gen)

Moving(s) ==
    /\ Loadable(s.id) /\ s.gen = gens[s.id]
    /\ s.pc \in Removing => /\ s.shims \cap Shimmed(s.gen) = {}
                            /\ s.files \subseteq Deployed(CurrentGen) \ Deployed(s.gen)
    /\ s.pc \in Writing => s.files \subseteq Deployed(s.gen) /\ s.ok = TRUE
    /\ s.pc = "setcurrent" => s.shims = {} /\ s.files = {}
    /\ \A a \in Aliases : ShimMoves(s, a)
    /\ \A t \in Targets : FileMoves(s, t)

VInv == mishaps = 0 =>
    /\ \A p \in Procs : st[p].pc \in Projecting => Moving(st[p])
    /\ (\A p \in Procs : st[p].pc \notin Projecting) => InPlace(CurrentGen)

(* The current generation is a generation.                                  *)
LEMMA CurrentType ==
    ASSUME TInv PROVE CurrentGen \in Generation /\ EmptyGeneration \in Generation
  BY LoadableType, ProfileAssumption
     DEF CurrentGen, ProfileAssumption, EmptyGeneration, Generation

(* Where a process goes.                                                    *)
LEMMA Onward ==
    ASSUME TInv, NEW p \in Procs, \A q \in Procs \ {p} : ~ Active(q), NEW s, Become(p, s),
           mishaps' = 0 /\ s.pc \in Projecting => Moving(s)',
           mishaps' = 0 /\ s.pc \notin Projecting => InPlace(CurrentGen)'
    PROVE  VInv'
<1>1. st'[p] = s /\ \A q \in Procs \ {p} : st'[q].pc = "idle"
  BY DEF Become, TInv, MemoryOK, Active, At
<1>2. ASSUME mishaps' = 0, NEW q \in Procs, st'[q].pc \in Projecting PROVE Moving(st[q])'
  <2>1. q = p
    BY <1>1, <1>2 DEF Projecting, Removing, Writing
  <2> QED BY <1>1, <1>2, <2>1 DEF Moving, ShimMoves, FileMoves, Handles, Under
<1>3. ASSUME mishaps' = 0, \A q \in Procs : st'[q].pc \notin Projecting PROVE InPlace(CurrentGen)'
  BY <1>1, <1>3
<1> QED BY <1>2, <1>3 DEF VInv

(* What a process finds.                                                    *)
LEMMA Behind ==
    ASSUME VInv, mishaps = 0, NEW p \in Procs, \A q \in Procs \ {p} : ~ Active(q)
    PROVE  /\ st[p].pc \in Projecting => Moving(st[p])
           /\ st[p].pc \notin Projecting => InPlace(CurrentGen)
  BY DEF VInv, Active, At, Projecting, Removing, Writing

(* A mishap leaves nothing to show.                                         *)
LEMMA NoMishap ==
    ASSUME TInv, NEW k, Mishap(k) PROVE mishaps' # 0
  BY ProfileAssumption DEF TInv, Mishap, ProfileAssumption

(* No disk step, nothing projected before or after.                         *)
LEMMA QuietMemory ==
    ASSUME TInv, SInv, VInv, NEW p \in Procs, \A q \in Procs \ {p} : ~ Active(q),
           st[p].pc \notin Projecting, NEW s, Become(p, s), s.pc \notin Projecting,
           UNCHANGED <<bin, file, bak>>, CurrentGen' = CurrentGen,
           mishaps' = 0 => mishaps = 0
    PROVE  VInv'
<1>1. mishaps' = 0 => InPlace(CurrentGen)'
  BY Behind DEF InPlace, Under
<1> QED BY <1>1, Onward

(* Everything but activation.                                               *)
Away == {"idle", "realize", "commit", "parent", "manifest", "walk", "load", "lock"}

LEMMA OutsideMemory ==
    ASSUME TInv, NEW p \in Procs,
           \/ Command(p) \/ Realize(p) \/ RealizeFails(p) \/ RealizeDone(p) \/ CommitId(p)
           \/ CommitParent(p) \/ RollbackStep(p) \/ RollbackFound(p) \/ WriteLock(p)
    PROVE  /\ st[p].pc \in Away /\ st'[p].pc \in Away
           /\ UNCHANGED <<bin, file, bak, gens, current>>
           /\ mishaps' = 0 => mishaps = 0
<1>0. /\ st[p] \in Process /\ Exited("none") \in Process /\ \A r : Exited(r).pc = "idle"
      /\ \A s : Become(p, s) => st'[p] = s
  BY ExitedSound DEF TInv, MemoryOK, Sound, Exited, Become
<1>1. st[p].pc \in Away /\ UNCHANGED <<bin, file, bak, gens, current>>
  BY DEF Away, Command, ApplyBegin, SwitchBegin, RollbackBegin, Realize, RealizeFails,
         RealizeDone, CommitId, CommitParent, RollbackStep, RollbackFound, WriteLock, At, disk
<1>2. mishaps' = mishaps \/ \E k : Mishap(k)
  BY DEF Command, ApplyBegin, SwitchBegin, RollbackBegin, Realize, RealizeFails, RealizeDone,
         CommitId, CommitParent, RollbackStep, RollbackFound, WriteLock
<1>3. st'[p].pc \in Away
  <2>1. CASE Command(p)
    <3>1. ASSUME NEW b \in Blueprints, ApplyBegin(p, b) PROVE st'[p].pc \in Away
      <4>1. \/ Become(p, Exited("noop"))
            \/ Become(p, [Exited("none") EXCEPT !.pc = "realize", !.bp = b, !.derivs = b.reach])
        BY <3>1 DEF Away, ApplyBegin, Exit
      <4> QED BY <1>0, <4>1 DEF Away, Process
    <3>2. ASSUME NEW i \in Ids, SwitchBegin(p, i) PROVE st'[p].pc \in Away
      BY <1>0, <3>2 DEF Away, SwitchBegin, Exit, Process
    <3>3. ASSUME NEW i \in Ids, RollbackBegin(p, i) PROVE st'[p].pc \in Away
      BY <1>0, <3>3 DEF Away, RollbackBegin, Exit, Process
    <3> QED BY <2>1, <3>1, <3>2, <3>3 DEF Command
  <2>2. CASE Realize(p)
    BY <1>0, <2>2 DEF Away, Realize, At, Process
  <2>3. CASE RealizeFails(p) \/ WriteLock(p)
    BY <1>0, <2>3 DEF Away, RealizeFails, WriteLock, Exit
  <2>4. CASE RealizeDone(p)
    BY <1>0, <2>4 DEF Away, RealizeDone, Process
  <2>5. CASE CommitId(p)
    BY <1>0, <2>5 DEF Away, CommitId, Process
  <2>6. CASE CommitParent(p)
    BY <1>0, <2>6 DEF Away, CommitParent, Process
  <2>7. CASE RollbackStep(p)
    BY <1>0, <2>7 DEF Away, RollbackStep, At, Process
  <2>8. CASE RollbackFound(p)
    BY <1>0, <2>8 DEF Away, RollbackFound, Exit, Process
  <2> QED BY <2>1, <2>2, <2>3, <2>4, <2>5, <2>6, <2>7, <2>8
<1> QED BY <1>1, <1>2, <1>3, NoMishap

LEMMA OutsideStep ==
    ASSUME TInv, SInv, VInv, NEW p \in Procs, \A q \in Procs \ {p} : ~ Active(q),
           \/ Command(p) \/ Realize(p) \/ RealizeFails(p) \/ RealizeDone(p) \/ CommitId(p)
           \/ CommitParent(p) \/ RollbackStep(p) \/ RollbackFound(p) \/ WriteLock(p)
    PROVE  VInv'
<1>1. /\ st[p].pc \in Away /\ st'[p].pc \in Away /\ UNCHANGED <<bin, file, bak, gens, current>>
      /\ mishaps' = 0 => mishaps = 0
  BY OutsideMemory
<1>2. PICK s : Become(p, s)
  BY StepsAreOwn DEF Step, Commit
<1>3. st'[p] = s
  BY <1>2 DEF Become, TInv, MemoryOK
<1>4. CurrentGen' = CurrentGen
  BY <1>1 DEF CurrentGen, Loadable
<1>5. st[p].pc \notin Projecting /\ s.pc \notin Projecting
  BY <1>1, <1>3 DEF Away, Projecting, Removing, Writing
<1> QED BY <1>1, <1>2, <1>4, <1>5, QuietMemory

(* The manifest of a new generation is not the current one's.               *)
LEMMA ManifestStep ==
    ASSUME TInv, SInv, VInv, NEW p \in Procs, \A q \in Procs \ {p} : ~ Active(q),
           CommitManifest(p)
    PROVE  VInv'
<1>1. PICK s : s = [st[p] EXCEPT !.pc = "load"]
  OBVIOUS
<1>2. Become(p, s) /\ s.pc = "load" /\ st[p].pc = "manifest"
  BY <1>1 DEF CommitManifest, At, TInv, MemoryOK, Process
<1>3. /\ gens[st[p].id] = None /\ st[p].id \in Ids /\ current' = current
      /\ gens' \in {gens, [gens EXCEPT ![st[p].id] = Torn], [gens EXCEPT ![st[p].id] = Manifest(p)]}
  BY ManifestIsNew DEF SInv
<1>4. CurrentGen' = CurrentGen
  <2>1. CASE Loadable(current)
    <3>1. current \in Ids /\ current # st[p].id
      BY <1>3, <2>1 DEF Loadable
    <3>2. gens'[current] = gens[current]
      BY <1>3, <3>1 DEF TInv, DiskOK
    <3> QED BY <1>3, <2>1, <3>2 DEF CurrentGen, Loadable
  <2>2. CASE ~ Loadable(current)
    <3>1. current = 0 /\ 0 \notin Ids
      BY <2>2 DEF SInv, History, CurrentLoadable, Ids
    <3> QED BY <1>3, <2>2, <3>1 DEF CurrentGen, Loadable
  <2> QED BY <2>1, <2>2
<1>5. UNCHANGED <<bin, file, bak>> /\ (mishaps' = 0 => mishaps = 0)
  BY NoMishap DEF CommitManifest
<1>6. st[p].pc \notin Projecting /\ s.pc \notin Projecting
  BY <1>2 DEF Projecting, Removing, Writing
<1> QED BY <1>2, <1>4, <1>5, <1>6, QuietMemory

(* An activation begins.                                                    *)
LEMMA LoadStep ==
    ASSUME TInv, SInv, VInv, NEW p \in Procs, \A q \in Procs \ {p} : ~ Active(q), Load(p)
    PROVE  VInv'
<1>1. /\ st[p].pc = "load" /\ UNCHANGED <<bin, file, bak, gens, current, mishaps>>
      /\ st[p] \in Process /\ st[p].pc \notin Projecting
  BY DEF Load, At, disk, TInv, MemoryOK, Projecting, Removing, Writing
<1>2. CurrentGen' = CurrentGen
  BY <1>1 DEF CurrentGen, Loadable
<1>3. CASE ~ Loadable(st[p].id)
  <2>1. PICK s : s = Exited("fail")
    OBVIOUS
  <2>2. Become(p, s) /\ s.pc \notin Projecting
    BY <1>3, <2>1 DEF Load, Exit, Exited, Projecting, Removing, Writing
  <2> QED BY <1>1, <1>2, <2>2, QuietMemory
<1>4. CASE Loadable(st[p].id)
  <2> DEFINE g == gens[st[p].id]
  <2>1. PICK s : s = [st[p] EXCEPT !.pc = "remove", !.gen = g,
                                   !.shims = Shimmed(CurrentGen) \ Shimmed(g),
                                   !.files = Deployed(CurrentGen) \ Deployed(g)]
    OBVIOUS
  <2>2. Become(p, s)
    BY <1>4, <2>1 DEF Load, CurrentGen
  <2>3. /\ s.pc = "remove" /\ s.id = st[p].id /\ s.gen = g
        /\ s.shims = Shimmed(CurrentGen) \ Shimmed(g) /\ s.files = Deployed(CurrentGen) \ Deployed(g)
    BY <1>1, <2>1 DEF Process
  <2>4. g \in Generation /\ CurrentGen \in Generation
    BY <1>4, LoadableType, CurrentType
  <2> HIDE DEF g
  <2>5. ASSUME mishaps' = 0 PROVE Moving(s)'
    <3>1. InPlace(CurrentGen)
      BY <1>1, <2>5, Behind
    <3>2. \A a \in Aliases : ShimMoves(s, a)
      BY <2>3, <3>1 DEF ShimMoves, InPlace, Shimmed, Removing
    <3>3. \A t \in Targets : FileMoves(s, t)
      BY <2>3, <3>1 DEF FileMoves, Handles, InPlace, Under, Deployed, Removing
    <3>4. \A a \in Aliases : ShimMoves(s, a)'
      BY <1>1, <1>2, <3>2 DEF ShimMoves
    <3>5. \A t \in Targets : FileMoves(s, t)'
      BY <1>1, <1>2, <3>3 DEF FileMoves, Handles, Under
    <3>6. Loadable(s.id)' /\ s.gen = gens'[s.id]
      BY <1>1, <1>4, <2>3 DEF Loadable, g
    <3> QED BY <1>2, <2>3, <3>4, <3>5, <3>6 DEF Moving, Removing, Writing
  <2>6. s.pc \in Projecting
    BY <2>3 DEF Projecting, Removing
  <2> QED BY <2>2, <2>5, <2>6, Onward
<1> QED BY <1>3, <1>4

(* A list gets shorter.                                                     *)
LEMMA RemoveShimStep ==
    ASSUME TInv, SInv, VInv, NEW p \in Procs, \A q \in Procs \ {p} : ~ Active(q), RemoveShim(p)
    PROVE  VInv'
<1>1. PICK a \in st[p].shims :
         /\ \/ bin' = [bin EXCEPT ![a] = None] /\ UNCHANGED mishaps
            \/ Mishap("disk") /\ UNCHANGED bin
         /\ Become(p, [st[p] EXCEPT !.shims = @ \ {a}])
  BY DEF RemoveShim
<1>2. PICK s : s = [st[p] EXCEPT !.shims = @ \ {a}]
  OBVIOUS
<1>3. /\ st[p].pc = "remove" /\ st[p] \in Process /\ a \in Aliases
      /\ UNCHANGED <<gens, current, file, bak>>
  BY <1>1 DEF RemoveShim, At, TInv, MemoryOK, Process
<1>4. /\ s.pc = "remove" /\ s.id = st[p].id /\ s.gen = st[p].gen /\ s.shims = st[p].shims \ {a}
      /\ s.files = st[p].files
  BY <1>2, <1>3 DEF Process
<1>5. CurrentGen' = CurrentGen
  BY <1>3 DEF CurrentGen, Loadable
<1>6. ASSUME mishaps' = 0 PROVE Moving(s)'
  <2>1. bin' = [bin EXCEPT ![a] = None] /\ mishaps = 0
    BY <1>1, <1>6, NoMishap
  <2>2. Moving(st[p])
    BY <1>3, <2>1, Behind DEF Projecting, Removing
  <2>3. bin'[a] = None /\ \A x \in Aliases \ {a} : bin'[x] = bin[x]
    BY <1>3, <2>1 DEF TInv, DiskOK
  <2>4. a \notin Shimmed(s.gen) /\ s.gen.shims[a] = None
    BY <1>1, <1>3, <1>4, <2>2 DEF Moving, Removing, Shimmed
  <2>5. ASSUME NEW x \in Aliases PROVE ShimMoves(s, x)'
    <3>1. CASE x = a
      BY <1>4, <2>3, <2>4, <3>1 DEF ShimMoves, Shimmed
    <3>2. CASE x # a
      BY <1>3, <1>4, <1>5, <2>2, <2>3, <3>2 DEF Moving, ShimMoves
    <3> QED BY <3>1, <3>2
  <2>6. ASSUME NEW t \in Targets PROVE FileMoves(s, t)'
    BY <1>3, <1>4, <1>5, <2>2 DEF Moving, FileMoves, Handles, Under
  <2>7. Loadable(s.id)' /\ s.gen = gens'[s.id]
    BY <1>3, <1>4, <2>2 DEF Moving, Loadable
  <2> QED BY <1>3, <1>4, <1>5, <2>2, <2>5, <2>6, <2>7 DEF Moving, Removing, Writing
<1>7. s.pc \in Projecting
  BY <1>4 DEF Projecting, Removing
<1> QED BY <1>1, <1>2, <1>6, <1>7, Onward

LEMMA RemoveFileStep ==
    ASSUME TInv, SInv, VInv, NEW p \in Procs, \A q \in Procs \ {p} : ~ Active(q), RemoveFile(p)
    PROVE  VInv'
<1>1. PICK t \in st[p].files :
         /\ \/ file' = [file EXCEPT ![t] = None] /\ UNCHANGED mishaps
            \/ Mishap("disk") /\ UNCHANGED file
         /\ Become(p, [st[p] EXCEPT !.files = @ \ {t}, !.at = t,
                                    !.pc = IF bak[t] = None THEN "remove" ELSE "restore"])
  BY DEF RemoveFile
<1>2. PICK s : s = [st[p] EXCEPT !.files = @ \ {t}, !.at = t,
                                 !.pc = IF bak[t] = None THEN "remove" ELSE "restore"]
  OBVIOUS
<1>3. /\ st[p].pc = "remove" /\ st[p] \in Process /\ t \in Targets
      /\ UNCHANGED <<gens, current, bin, bak>>
  BY <1>1 DEF RemoveFile, At, TInv, MemoryOK, Process
<1>4. /\ s.pc = (IF bak[t] = None THEN "remove" ELSE "restore") /\ s.id = st[p].id
      /\ s.gen = st[p].gen /\ s.shims = st[p].shims /\ s.files = st[p].files \ {t} /\ s.at = t
  BY <1>2, <1>3 DEF Process
<1>5. CurrentGen' = CurrentGen
  BY <1>3 DEF CurrentGen, Loadable
<1>6. ASSUME mishaps' = 0 PROVE Moving(s)'
  <2>1. file' = [file EXCEPT ![t] = None] /\ mishaps = 0
    BY <1>1, <1>6, NoMishap
  <2>2. Moving(st[p])
    BY <1>3, <2>1, Behind DEF Projecting, Removing
  <2>3. file'[t] = None /\ \A x \in Targets \ {t} : file'[x] = file[x]
    BY <1>3, <2>1 DEF TInv, DiskOK
  <2>4. t \in Deployed(CurrentGen) /\ t \notin Deployed(s.gen) /\ Under(t, CurrentGen)
    BY <1>1, <1>3, <1>4, <2>2 DEF Moving, FileMoves, Handles, Removing
  <2>5. UserFile[t] # None => bak[t] = UserFile[t]
    BY <2>4 DEF Under
  <2>6. ASSUME NEW x \in Targets PROVE FileMoves(s, x)'
    <3>1. CASE x = t /\ bak[t] = None
      BY <1>3, <1>4, <2>4, <2>5, <3>1 DEF FileMoves, Handles, Under, Removing
    <3>2. CASE x = t /\ bak[t] # None
      BY <1>3, <1>4, <2>4, <2>5, <3>2 DEF FileMoves, Handles
    <3>3. CASE x # t
      <4>1. FileMoves(st[p], x) /\ ~ Handles(st[p], x) /\ ~ Handles(s, x)
        BY <1>3, <1>4, <2>2, <3>3 DEF Moving, Handles
      <4>2. s.pc \in Removing /\ st[p].pc \in Removing
        BY <1>3, <1>4 DEF Removing
      <4> QED BY <1>3, <1>4, <1>5, <2>3, <3>3, <4>1, <4>2 DEF FileMoves, Handles, Under
    <3> QED BY <3>1, <3>2, <3>3
  <2>7. ASSUME NEW a \in Aliases PROVE ShimMoves(s, a)'
    BY <1>3, <1>4, <1>5, <2>2 DEF Moving, ShimMoves, Removing
  <2>8. Loadable(s.id)' /\ s.gen = gens'[s.id]
    BY <1>3, <1>4, <2>2 DEF Moving, Loadable
  <2> QED BY <1>3, <1>4, <1>5, <2>2, <2>6, <2>7, <2>8 DEF Moving, Removing, Writing
<1>7. s.pc \in Projecting
  BY <1>4 DEF Projecting, Removing
<1> QED BY <1>1, <1>2, <1>6, <1>7, Onward

LEMMA RestoreFileStep ==
    ASSUME TInv, SInv, VInv, NEW p \in Procs, \A q \in Procs \ {p} : ~ Active(q), RestoreFile(p)
    PROVE  VInv'
<1>1. PICK s : s = [st[p] EXCEPT !.pc = "remove"]
  OBVIOUS
<1>2. /\ st[p].pc = "restore" /\ st[p] \in Process /\ UNCHANGED <<gens, current, bin>>
      /\ Become(p, s) /\ st[p].at \in Targets
  BY <1>1 DEF RestoreFile, At, TInv, MemoryOK, Sound
<1>3. /\ s.pc = "remove" /\ s.id = st[p].id /\ s.gen = st[p].gen /\ s.shims = st[p].shims
      /\ s.files = st[p].files /\ s.at = st[p].at
  BY <1>1, <1>2 DEF Process
<1>4. CurrentGen' = CurrentGen
  BY <1>2 DEF CurrentGen, Loadable
<1>5. ASSUME mishaps' = 0 PROVE Moving(s)'
  <2> DEFINE t == st[p].at
  <2>1. /\ file' = [file EXCEPT ![t] = IF bak[t] = None THEN @ ELSE bak[t]]
        /\ bak' = [bak EXCEPT ![t] = None] /\ mishaps = 0
    BY <1>5, NoMishap DEF RestoreFile
  <2>2. Moving(st[p])
    BY <1>2, <2>1, Behind DEF Projecting, Removing
  <2>3. /\ file'[t] = (IF bak[t] = None THEN file[t] ELSE bak[t]) /\ bak'[t] = None
        /\ \A x \in Targets \ {t} : file'[x] = file[x] /\ bak'[x] = bak[x]
    BY <1>2, <2>1 DEF TInv, DiskOK
  <2>4. /\ t \notin st[p].files /\ t \notin Deployed(st[p].gen)
        /\ UserFile[t] # None => bak[t] = UserFile[t]
    BY <1>2, <2>2 DEF Moving, FileMoves, Handles
  <2>5. ASSUME NEW x \in Targets PROVE FileMoves(s, x)'
    <3>1. CASE x = t
      BY <1>3, <2>3, <2>4, <3>1 DEF FileMoves, Handles, Under
    <3>2. CASE x # t
      <4>1. FileMoves(st[p], x) /\ ~ Handles(st[p], x) /\ ~ Handles(s, x)
        BY <1>2, <1>3, <2>2, <3>2 DEF Moving, Handles
      <4>2. s.pc \in Removing /\ st[p].pc \in Removing
        BY <1>2, <1>3 DEF Removing
      <4> QED BY <1>2, <1>3, <1>4, <2>3, <3>2, <4>1, <4>2 DEF FileMoves, Handles, Under
    <3> QED BY <3>1, <3>2
  <2>6. ASSUME NEW a \in Aliases PROVE ShimMoves(s, a)'
    BY <1>2, <1>3, <1>4, <2>2 DEF Moving, ShimMoves, Removing
  <2>7. Loadable(s.id)' /\ s.gen = gens'[s.id]
    BY <1>2, <1>3, <2>2 DEF Moving, Loadable
  <2> QED BY <1>2, <1>3, <1>4, <2>2, <2>5, <2>6, <2>7 DEF Moving, Removing, Writing
<1>6. s.pc \in Projecting
  BY <1>3 DEF Projecting, Removing
<1> QED BY <1>2, <1>5, <1>6, Onward

LEMMA RemoveDoneStep ==
    ASSUME TInv, SInv, VInv, NEW p \in Procs, \A q \in Procs \ {p} : ~ Active(q), RemoveDone(p)
    PROVE  VInv'
<1>1. PICK s : s = [st[p] EXCEPT !.pc = "write", !.ok = TRUE, !.shims = Shimmed(st[p].gen),
                                 !.files = Deployed(st[p].gen)]
  OBVIOUS
<1>2. /\ st[p].pc = "remove" /\ st[p] \in Process /\ st[p].shims = {} /\ st[p].files = {}
      /\ UNCHANGED <<gens, current, bin, file, bak, mishaps>> /\ Become(p, s)
  BY <1>1 DEF RemoveDone, At, TInv, MemoryOK, disk
<1>3. /\ s.pc = "write" /\ s.id = st[p].id /\ s.gen = st[p].gen /\ s.shims = Shimmed(s.gen)
      /\ s.files = Deployed(s.gen)
  BY <1>1, <1>2 DEF Process
<1>4. s.ok = TRUE
  BY <1>1, <1>2 DEF Process
<1>5. CurrentGen' = CurrentGen
  BY <1>2 DEF CurrentGen, Loadable
<1>6. ASSUME mishaps' = 0 PROVE Moving(s)'
  <2>1. Moving(st[p])
    BY <1>2, <1>6, Behind DEF Projecting, Removing
  <2>2. \A a \in Aliases : ShimMoves(s, a)
    BY <1>2, <1>3, <2>1 DEF Moving, ShimMoves, Shimmed, Removing
  <2>3. \A t \in Targets : FileMoves(s, t)
    BY <1>2, <1>3, <2>1 DEF Moving, FileMoves, Handles, Removing
  <2>4. \A a \in Aliases : ShimMoves(s, a)'
    BY <1>2, <1>5, <2>2 DEF ShimMoves
  <2>5. \A t \in Targets : FileMoves(s, t)'
    BY <1>2, <1>5, <2>3 DEF FileMoves, Handles, Under
  <2>6. Loadable(s.id)' /\ s.gen = gens'[s.id]
    BY <1>2, <1>3, <2>1 DEF Moving, Loadable
  <2> QED BY <1>3, <1>4, <2>4, <2>5, <2>6 DEF Moving, Removing
<1>7. s.pc \in Projecting
  BY <1>3 DEF Projecting, Writing
<1> QED BY <1>2, <1>6, <1>7, Onward

LEMMA WriteShimStep ==
    ASSUME TInv, SInv, VInv, NEW p \in Procs, \A q \in Procs \ {p} : ~ Active(q), WriteShim(p)
    PROVE  VInv'
<1>1. /\ st[p].pc = "write" /\ st[p] \in Process /\ UNCHANGED <<gens, current, file, bak>>
  BY DEF WriteShim, At, TInv, MemoryOK
<1>0. PICK a \in st[p].shims : \E s :
         /\ Become(p, s)
         /\ s.pc = "write" /\ s.id = st[p].id /\ s.gen = st[p].gen
         /\ s.shims = st[p].shims \ {a} /\ s.files = st[p].files
         /\ mishaps' = 0 => /\ bin' = [bin EXCEPT ![a] = st[p].gen.shims[a]]
                            /\ s.ok = st[p].ok /\ mishaps = 0
  <2>1. PICK a \in st[p].shims :
           \/ /\ bin' = [bin EXCEPT ![a] = st[p].gen.shims[a]] /\ UNCHANGED mishaps
              /\ Become(p, [st[p] EXCEPT !.shims = @ \ {a}])
           \/ /\ \E k : Mishap(k)
              /\ \E b \in BOOLEAN : Become(p, [st[p] EXCEPT !.shims = @ \ {a}, !.ok = b])
    <3>1. \A x : [st[p] EXCEPT !.shims = x] = [st[p] EXCEPT !.shims = x, !.ok = st[p].ok]
      BY <1>1 DEF Process
    <3>2. st[p].ok \in BOOLEAN
      BY <1>1 DEF Process
    <3> QED BY <3>1, <3>2 DEF WriteShim
  <2>2. CASE \E k : Mishap(k)
    <3>1. mishaps' # 0
      BY <2>2, NoMishap
    <3>2. PICK b \in BOOLEAN : \/ Become(p, [st[p] EXCEPT !.shims = @ \ {a}])
                               \/ Become(p, [st[p] EXCEPT !.shims = @ \ {a}, !.ok = b])
      BY <2>1
    <3>3. PICK s : /\ s \in {[st[p] EXCEPT !.shims = @ \ {a}], [st[p] EXCEPT !.shims = @ \ {a}, !.ok = b]}
                   /\ Become(p, s)
      BY <3>2
    <3>4. /\ s.pc = "write" /\ s.id = st[p].id /\ s.gen = st[p].gen
          /\ s.shims = st[p].shims \ {a} /\ s.files = st[p].files
      BY <1>1, <3>3 DEF Process
    <3> QED BY <3>1, <3>3, <3>4
  <2>3. CASE /\ bin' = [bin EXCEPT ![a] = st[p].gen.shims[a]] /\ UNCHANGED mishaps
             /\ Become(p, [st[p] EXCEPT !.shims = @ \ {a}])
    <3>1. PICK s : s = [st[p] EXCEPT !.shims = @ \ {a}]
      OBVIOUS
    <3>2. /\ s.pc = "write" /\ s.id = st[p].id /\ s.gen = st[p].gen /\ s.ok = st[p].ok
          /\ s.shims = st[p].shims \ {a} /\ s.files = st[p].files
      BY <1>1, <3>1 DEF Process
    <3> QED BY <2>3, <3>1, <3>2
  <2> QED BY <2>1, <2>2, <2>3
<1>2. PICK s :
         /\ Become(p, s)
         /\ s.pc = "write" /\ s.id = st[p].id /\ s.gen = st[p].gen
         /\ s.shims = st[p].shims \ {a} /\ s.files = st[p].files
         /\ mishaps' = 0 => /\ bin' = [bin EXCEPT ![a] = st[p].gen.shims[a]]
                            /\ s.ok = st[p].ok /\ mishaps = 0
  BY <1>0
<1>3. a \in Aliases
  BY <1>1 DEF Process
<1>4. CurrentGen' = CurrentGen
  BY <1>1 DEF CurrentGen, Loadable
<1>5. ASSUME mishaps' = 0 PROVE Moving(s)'
  <2>1. bin' = [bin EXCEPT ![a] = st[p].gen.shims[a]] /\ mishaps = 0 /\ s.ok = st[p].ok
    BY <1>2, <1>5
  <2>2. Moving(st[p])
    BY <1>1, <2>1, Behind DEF Projecting, Writing
  <2>3. bin'[a] = st[p].gen.shims[a] /\ \A x \in Aliases \ {a} : bin'[x] = bin[x]
    BY <1>3, <2>1 DEF TInv, DiskOK
  <2>4. ASSUME NEW x \in Aliases PROVE ShimMoves(s, x)'
    <3>1. CASE x = a
      BY <1>2, <2>3, <3>1 DEF ShimMoves, Removing
    <3>2. CASE x # a
      BY <1>1, <1>2, <1>4, <2>2, <2>3, <3>2 DEF Moving, ShimMoves
    <3> QED BY <3>1, <3>2
  <2>5. ASSUME NEW t \in Targets PROVE FileMoves(s, t)'
    BY <1>1, <1>2, <1>4, <2>2 DEF Moving, FileMoves, Handles, Under
  <2>6. Loadable(s.id)' /\ s.gen = gens'[s.id]
    BY <1>1, <1>2, <2>2 DEF Moving, Loadable
  <2> QED BY <1>1, <1>2, <1>4, <2>1, <2>2, <2>4, <2>5, <2>6 DEF Moving, Removing, Writing
<1>6. s.pc \in Projecting
  BY <1>2 DEF Projecting, Writing
<1> QED BY <1>2, <1>5, <1>6, Onward

LEMMA BackupFileStep ==
    ASSUME TInv, SInv, VInv, NEW p \in Procs, \A q \in Procs \ {p} : ~ Active(q), BackupFile(p)
    PROVE  VInv'
<1>1. PICK t \in st[p].files :
         /\ Become(p, [st[p] EXCEPT !.pc = "deploy", !.files = @ \ {t}, !.at = t])
         /\ \/ /\ file[t] # None /\ bak[t] = None
               /\ \/ bak' = [bak EXCEPT ![t] = file[t]] /\ UNCHANGED mishaps
                  \/ Mishap("copy")
            \/ /\ file[t] = None \/ bak[t] # None
               /\ UNCHANGED <<bak, mishaps>>
  BY DEF BackupFile
<1>2. PICK s : s = [st[p] EXCEPT !.pc = "deploy", !.files = @ \ {t}, !.at = t]
  OBVIOUS
<1>3. /\ st[p].pc = "write" /\ st[p] \in Process /\ t \in Targets
      /\ UNCHANGED <<gens, current, bin, file>>
  BY <1>1 DEF BackupFile, At, TInv, MemoryOK, Process
<1>4. /\ s.pc = "deploy" /\ s.id = st[p].id /\ s.gen = st[p].gen /\ s.shims = st[p].shims
      /\ s.files = st[p].files \ {t} /\ s.at = t /\ s.ok = st[p].ok
  BY <1>2, <1>3 DEF Process
<1>5. CurrentGen' = CurrentGen
  BY <1>3 DEF CurrentGen, Loadable
<1>6. ASSUME mishaps' = 0 PROVE Moving(s)'
  <2>1. /\ mishaps = 0
        /\ \/ file[t] # None /\ bak[t] = None /\ bak' = [bak EXCEPT ![t] = file[t]]
           \/ (file[t] = None \/ bak[t] # None) /\ bak' = bak
    BY <1>1, <1>6, NoMishap
  <2>2. Moving(st[p])
    BY <1>3, <2>1, Behind DEF Projecting, Writing
  <2>3. /\ bak'[t] = (IF file[t] # None /\ bak[t] = None THEN file[t] ELSE bak[t])
        /\ \A x \in Targets \ {t} : bak'[x] = bak[x]
    BY <1>3, <2>1 DEF TInv, DiskOK
  <2>4. Under(t, CurrentGen) /\ t \in Deployed(s.gen)
    BY <1>1, <1>3, <1>4, <2>2 DEF Moving, FileMoves, Handles, Writing
  <2>5. UserFile[t] # None => bak'[t] = UserFile[t]
    BY <2>3, <2>4 DEF Under
  <2>6. ASSUME NEW x \in Targets PROVE FileMoves(s, x)'
    <3>1. CASE x = t
      BY <1>4, <2>4, <2>5, <3>1 DEF FileMoves, Handles
    <3>2. CASE x # t
      <4>1. FileMoves(st[p], x) /\ ~ Handles(st[p], x) /\ ~ Handles(s, x)
        BY <1>3, <1>4, <2>2, <3>2 DEF Moving, Handles
      <4>2. s.pc \notin Removing /\ st[p].pc \notin Removing
        BY <1>3, <1>4 DEF Removing
      <4> QED BY <1>3, <1>4, <1>5, <2>3, <3>2, <4>1, <4>2 DEF FileMoves, Handles, Under
    <3> QED BY <3>1, <3>2
  <2>7. ASSUME NEW a \in Aliases PROVE ShimMoves(s, a)'
    BY <1>3, <1>4, <1>5, <2>2 DEF Moving, ShimMoves, Removing
  <2>8. Loadable(s.id)' /\ s.gen = gens'[s.id]
    BY <1>3, <1>4, <2>2 DEF Moving, Loadable
  <2> QED BY <1>3, <1>4, <1>5, <2>2, <2>6, <2>7, <2>8 DEF Moving, Removing, Writing
<1>7. s.pc \in Projecting
  BY <1>4 DEF Projecting, Writing
<1> QED BY <1>1, <1>2, <1>6, <1>7, Onward

LEMMA DeployFileStep ==
    ASSUME TInv, SInv, VInv, NEW p \in Procs, \A q \in Procs \ {p} : ~ Active(q), DeployFile(p)
    PROVE  VInv'
<1> DEFINE t == st[p].at
<1>1. /\ st[p].pc = "deploy" /\ st[p] \in Process /\ t \in Targets
      /\ UNCHANGED <<gens, current, bin, bak>>
  BY DEF DeployFile, At, TInv, MemoryOK, Sound
<1>2. PICK s : /\ s \in {[st[p] EXCEPT !.pc = "write"], [st[p] EXCEPT !.pc = "write", !.ok = FALSE]}
               /\ Become(p, s)
               /\ mishaps' = 0 => /\ s = [st[p] EXCEPT !.pc = "write"] /\ mishaps = 0
                                  /\ file' = [file EXCEPT ![t] = st[p].gen.files[t]]
  <2>1. CASE \E k : Mishap(k)
    BY <2>1, NoMishap DEF DeployFile
  <2>2. CASE ~ \E k : Mishap(k)
    BY <2>2 DEF DeployFile
  <2> QED BY <2>1, <2>2
<1>3. /\ s.pc = "write" /\ s.id = st[p].id /\ s.gen = st[p].gen /\ s.shims = st[p].shims
      /\ s.files = st[p].files
  BY <1>1, <1>2 DEF Process
<1>4. CurrentGen' = CurrentGen
  BY <1>1 DEF CurrentGen, Loadable
<1>5. ASSUME mishaps' = 0 PROVE Moving(s)'
  <2>1. file' = [file EXCEPT ![t] = st[p].gen.files[t]] /\ mishaps = 0 /\ s.ok = st[p].ok
    BY <1>1, <1>2, <1>5 DEF Process
  <2>2. Moving(st[p])
    BY <1>1, <2>1, Behind DEF Projecting, Writing
  <2>3. file'[t] = s.gen.files[t] /\ \A x \in Targets \ {t} : file'[x] = file[x]
    BY <1>1, <1>3, <2>1 DEF TInv, DiskOK
  <2>4. /\ t \notin s.files /\ t \in Deployed(s.gen)
        /\ UserFile[t] # None => bak[t] = UserFile[t]
    BY <1>1, <1>3, <2>2 DEF Moving, FileMoves, Handles
  <2>5. ASSUME NEW x \in Targets PROVE FileMoves(s, x)'
    <3>1. CASE x = t
      BY <1>1, <1>3, <2>3, <2>4, <3>1 DEF FileMoves, Handles, Under, Removing
    <3>2. CASE x # t
      <4>1. FileMoves(st[p], x) /\ ~ Handles(st[p], x) /\ ~ Handles(s, x)
        BY <1>1, <1>3, <2>2, <3>2 DEF Moving, Handles
      <4>2. s.pc \notin Removing /\ st[p].pc \notin Removing
        BY <1>1, <1>3 DEF Removing
      <4> QED BY <1>1, <1>3, <1>4, <2>3, <3>2, <4>1, <4>2 DEF FileMoves, Handles, Under
    <3> QED BY <3>1, <3>2
  <2>6. ASSUME NEW a \in Aliases PROVE ShimMoves(s, a)'
    BY <1>1, <1>3, <1>4, <2>2 DEF Moving, ShimMoves, Removing
  <2>7. Loadable(s.id)' /\ s.gen = gens'[s.id]
    BY <1>1, <1>3, <2>2 DEF Moving, Loadable
  <2> QED BY <1>1, <1>3, <1>4, <2>1, <2>2, <2>5, <2>6, <2>7 DEF Moving, Removing, Writing
<1>6. s.pc \in Projecting
  BY <1>3 DEF Projecting, Writing
<1> QED BY <1>2, <1>5, <1>6, Onward

LEMMA WriteDoneStep ==
    ASSUME TInv, SInv, VInv, NEW p \in Procs, \A q \in Procs \ {p} : ~ Active(q), WriteDone(p)
    PROVE  VInv'
<1>1. /\ st[p].pc = "write" /\ st[p] \in Process /\ st[p].shims = {} /\ st[p].files = {}
      /\ UNCHANGED <<gens, current, bin, file, bak, mishaps>>
  BY DEF WriteDone, At, TInv, MemoryOK, disk
<1>2. CurrentGen' = CurrentGen
  BY <1>1 DEF CurrentGen, Loadable
<1>3. CASE mishaps = 0
  <2>1. Moving(st[p])
    BY <1>1, <1>3, Behind DEF Projecting, Writing
  <2>2. st[p].ok = TRUE
    BY <1>1, <2>1 DEF Moving, Writing
  <2>3. PICK s : s = [st[p] EXCEPT !.pc = "setcurrent"]
    OBVIOUS
  <2>4. Become(p, s)
    BY <2>2, <2>3 DEF WriteDone
  <2>5. /\ s.pc = "setcurrent" /\ s.id = st[p].id /\ s.gen = st[p].gen /\ s.shims = st[p].shims
        /\ s.files = st[p].files /\ s.ok = st[p].ok
    BY <1>1, <2>3 DEF Process
  <2>6. \A a \in Aliases : ShimMoves(s, a)'
    BY <1>1, <1>2, <2>1, <2>5 DEF Moving, ShimMoves, Removing
  <2>7. \A t \in Targets : FileMoves(s, t)'
    BY <1>1, <1>2, <2>1, <2>5 DEF Moving, FileMoves, Handles, Under, Removing
  <2>8. Loadable(s.id)' /\ s.gen = gens'[s.id]
    BY <1>1, <2>1, <2>5 DEF Moving, Loadable
  <2>9. Moving(s)'
    BY <1>1, <1>2, <2>1, <2>5, <2>6, <2>7, <2>8 DEF Moving, Removing, Writing
  <2>10. s.pc \in Projecting
    BY <2>5 DEF Projecting, Writing
  <2> QED BY <2>4, <2>9, <2>10, Onward
<1>4. CASE mishaps # 0
  BY <1>1, <1>4 DEF VInv
<1> QED BY <1>3, <1>4

(* The current generation is the one projected.                             *)
LEMMA SetCurrentStep ==
    ASSUME TInv, SInv, VInv, NEW p \in Procs, \A q \in Procs \ {p} : ~ Active(q), SetCurrent(p)
    PROVE  VInv'
<1>1. /\ st[p].pc = "setcurrent" /\ st[p] \in Process /\ UNCHANGED <<gens, bin, file, bak>>
  BY DEF SetCurrent, At, TInv, MemoryOK
<1>2. CASE mishaps' = 0
  <2>1. mishaps = 0 /\ ~ \E k : Mishap(k)
    BY <1>2, NoMishap DEF SetCurrent
  <2>2. Moving(st[p])
    BY <1>1, <2>1, Behind DEF Projecting, Writing
  <2>3. Loadable(st[p].id) /\ st[p].gen = gens[st[p].id] /\ st[p].shims = {} /\ st[p].files = {}
    BY <1>1, <2>2 DEF Moving
  <2>4. current' = st[p].id
    BY <2>1, <2>3 DEF SetCurrent
  <2>5. PICK s : s \in {Exited("ok"), [st[p] EXCEPT !.pc = "lock"]} /\ Become(p, s)
    BY <2>1, <2>3 DEF SetCurrent, Exit
  <2>6. s.pc \notin Projecting
    BY <1>1, <2>5 DEF Exited, Process, Projecting, Removing, Writing
  <2>7. CurrentGen' = st[p].gen
    BY <1>1, <2>3, <2>4 DEF CurrentGen, Loadable
  <2>8. \A a \in Aliases : bin[a] = st[p].gen.shims[a]
    BY <1>1, <2>2, <2>3 DEF Moving, ShimMoves, Removing
  <2>9. \A t \in Targets : Under(t, st[p].gen)
    BY <1>1, <2>2, <2>3 DEF Moving, FileMoves, Handles, Removing
  <2>10. InPlace(CurrentGen)'
    BY <1>1, <2>7, <2>8, <2>9 DEF InPlace, Under
  <2> QED BY <2>5, <2>6, <2>10, Onward
<1>3. CASE mishaps' # 0
  BY <1>3 DEF VInv
<1> QED BY <1>2, <1>3

LEMMA PlaceInit == Init => VInv
<1> SUFFICES ASSUME Init PROVE VInv
  OBVIOUS
<1>1. /\ \A p \in Procs : st[p].pc = "idle"
      /\ \A a \in Aliases : bin[a] = None
      /\ \A t \in Targets : file[t] = UserFile[t] /\ bak[t] = None
  BY ProfileAssumption DEF Init, Exited, ProfileAssumption
<1>2. CurrentGen = EmptyGeneration
  BY DEF Init, CurrentGen, Loadable, Ids
<1>3. InPlace(CurrentGen)
  BY <1>1, <1>2 DEF InPlace, Under, EmptyGeneration, Deployed
<1> QED BY <1>1, <1>3 DEF VInv, Projecting, Removing, Writing

LEMMA PlaceStep == TInv /\ SInv /\ VInv /\ [SerialNext]_vars => VInv'
<1> SUFFICES ASSUME TInv, SInv, VInv, [SerialNext]_vars PROVE VInv'
  OBVIOUS
<1>1. CASE UNCHANGED vars
  BY <1>1 DEF vars, disk, VInv, Moving, ShimMoves, FileMoves, Handles, InPlace, Under, CurrentGen,
              Loadable
<1>2. ASSUME NEW p \in Procs, (Quiet /\ Command(p)) \/ Step(p) \/ Crash(p) PROVE VInv'
  <2>1. \A q \in Procs \ {p} : ~ Active(q)
    BY <1>2, StepsAreActive DEF SInv, OneActive, Quiet
  <2>2. CASE Crash(p)
    BY <2>2, NoMishap DEF Crash, VInv
  <2> QED BY <1>2, <2>1, <2>2, OutsideStep, ManifestStep, LoadStep, RemoveShimStep, RemoveFileStep,
          RestoreFileStep, RemoveDoneStep, WriteShimStep, BackupFileStep, DeployFileStep,
          WriteDoneStep, SetCurrentStep DEF Step, Commit, Activate
<1> QED BY <1>1, <1>2 DEF SerialNext

(* Profile::activate, libs/kuli-bp/src/profile.cpp: with no activation cut  *)
(* short, ~/.local/bin is exactly the shims of the current generation, its  *)
(* files are deployed, and the user's own are in place or in their backup.  *)
THEOREM CurrentAlwaysShown == SerialSpec => []ProfileShowsCurrent
<1>1. TInv /\ VInv => ProfileShowsCurrent
  <2> SUFFICES ASSUME TInv, VInv, Quiet, mishaps = 0
               PROVE  /\ bin = CurrentGen.shims /\ Deploys(CurrentGen)
                      /\ \A t \in Targets : UserFile[t] # None =>
                            (IF t \in Deployed(CurrentGen) THEN bak[t] ELSE file[t]) = UserFile[t]
    BY DEF ProfileShowsCurrent
  <2>1. InPlace(CurrentGen)
    BY DEF VInv, Quiet, Active, At, Projecting, Removing, Writing
  <2>2. bin = CurrentGen.shims
    BY <2>1, CurrentType DEF InPlace, TInv, DiskOK, Generation
  <2> QED BY <2>1, <2>2 DEF InPlace, Under, Deploys, Deployed
<1> QED BY <1>1, SerialInvariant, PlaceInit, PlaceStep, PTL DEF SerialSpec

-----------------------------------------------------------------------------
(* One process at a time, and errors seen when a stream is written: while a *)
(* projection has not failed, what left its lists is in place.              *)
Wrote(s) == s.pc \in Writing /\ s.ok = TRUE =>
    /\ \A a \in Shimmed(s.gen) \ s.shims : bin[a] = s.gen.shims[a]
    /\ \A t \in Deployed(s.gen) \ s.files :
         file[t] = s.gen.files[t] \/ (s.pc = "deploy" /\ s.at = t)

Finished(s) == s.pc = "setcurrent" => s.ok = TRUE /\ s.shims = {} /\ s.files = {}

WInv == \A p \in Procs : Wrote(st[p]) /\ Finished(st[p])

(* Where a process goes.                                                    *)
LEMMA WroteNext ==
    ASSUME TInv, NEW p \in Procs, \A q \in Procs \ {p} : ~ Active(q), NEW s, Become(p, s),
           Wrote(s)', Finished(s)
    PROVE  WInv'
<1>1. st'[p] = s /\ \A q \in Procs \ {p} : st'[q].pc = "idle"
  BY DEF Become, TInv, MemoryOK, Active, At
<1>2. ASSUME NEW q \in Procs PROVE Wrote(st[q])' /\ Finished(st[q])'
  <2>1. CASE q = p
    BY <1>1, <2>1 DEF Wrote, Finished
  <2>2. CASE q # p
    BY <1>1, <2>2 DEF Wrote, Finished, Writing
  <2> QED BY <2>1, <2>2
<1> QED BY <1>2 DEF WInv

(* No process writes after the step.                                        *)
LEMMA NotWriting ==
    ASSUME TInv, NEW p \in Procs, \A q \in Procs \ {p} : ~ Active(q), NEW s, Become(p, s),
           s.pc \notin Writing
    PROVE  WInv'
  BY WroteNext DEF Wrote, Finished, Writing

LEMMA RemovingWrites ==
    ASSUME TInv, NEW p \in Procs, \A q \in Procs \ {p} : ~ Active(q),
           \/ CommitManifest(p) \/ Load(p) \/ RemoveShim(p) \/ RemoveFile(p) \/ RestoreFile(p)
           \/ SetCurrent(p) \/ Crash(p)
    PROVE  WInv'
<1>1. st[p] \in Process /\ \A r : Exited(r).pc = "idle"
  BY DEF TInv, MemoryOK, Exited
<1>2. CASE CommitManifest(p)
  <2>1. [st[p] EXCEPT !.pc = "load"].pc \notin Writing
    BY <1>1 DEF Process, Writing
  <2> QED BY <1>2, <2>1, NotWriting DEF CommitManifest
<1>3. CASE Load(p)
  <2>1. \A g, x, y : [st[p] EXCEPT !.pc = "remove", !.gen = g, !.shims = x,
                                   !.files = y].pc \notin Writing
    BY <1>1 DEF Process, Writing
  <2>2. CASE Loadable(st[p].id)
    BY <1>3, <2>1, <2>2, NotWriting DEF Load
  <2>3. CASE ~ Loadable(st[p].id)
    BY <1>1, <1>3, <2>3, NotWriting DEF Load, Exit, Writing
  <2> QED BY <2>2, <2>3
<1>4. CASE RemoveShim(p)
  <2>1. PICK a : Become(p, [st[p] EXCEPT !.shims = @ \ {a}])
    BY <1>4 DEF RemoveShim
  <2>2. [st[p] EXCEPT !.shims = @ \ {a}].pc \notin Writing
    BY <1>1, <1>4 DEF RemoveShim, At, Process, Writing
  <2> QED BY <2>1, <2>2, NotWriting
<1>5. CASE RemoveFile(p)
  <2>1. PICK t : Become(p, [st[p] EXCEPT !.files = @ \ {t}, !.at = t,
                                         !.pc = IF bak[t] = None THEN "remove" ELSE "restore"])
    BY <1>5 DEF RemoveFile
  <2>2. [st[p] EXCEPT !.files = @ \ {t}, !.at = t,
                      !.pc = IF bak[t] = None THEN "remove" ELSE "restore"].pc \notin Writing
    BY <1>1 DEF Process, Writing
  <2> QED BY <2>1, <2>2, NotWriting
<1>6. CASE RestoreFile(p)
  <2>1. [st[p] EXCEPT !.pc = "remove"].pc \notin Writing
    BY <1>1 DEF Process, Writing
  <2> QED BY <1>6, <2>1, NotWriting DEF RestoreFile
<1>7. CASE SetCurrent(p)
  <2>1. [st[p] EXCEPT !.pc = "lock"].pc \notin Writing
    BY <1>1 DEF Process, Writing
  <2>2. \A r : Exited(r).pc \notin Writing
    BY <1>1 DEF Writing
  <2>3. (\E r : Become(p, Exited(r))) \/ Become(p, [st[p] EXCEPT !.pc = "lock"])
    BY <1>7 DEF SetCurrent, Exit
  <2> QED BY <2>1, <2>2, <2>3, NotWriting
<1>8. CASE Crash(p)
  BY <1>1, <1>8, NotWriting DEF Crash, Exit, Writing
<1> QED BY <1>2, <1>3, <1>4, <1>5, <1>6, <1>7, <1>8

LEMMA OutsideWrites ==
    ASSUME TInv, NEW p \in Procs, \A q \in Procs \ {p} : ~ Active(q),
           \/ Command(p) \/ Realize(p) \/ RealizeFails(p) \/ RealizeDone(p) \/ CommitId(p)
           \/ CommitParent(p) \/ RollbackStep(p) \/ RollbackFound(p) \/ WriteLock(p)
    PROVE  WInv'
<1>1. PICK s : Become(p, s)
  BY StepsAreOwn DEF Step, Commit
<1>2. st'[p] = s
  BY <1>1 DEF Become, TInv, MemoryOK
<1>3. s.pc \notin Writing
  BY <1>2, OutsideMemory DEF Away, Writing
<1> QED BY <1>1, <1>3, NotWriting

LEMMA RemoveDoneWrites ==
    ASSUME TInv, NEW p \in Procs, \A q \in Procs \ {p} : ~ Active(q), RemoveDone(p)
    PROVE  WInv'
<1>1. PICK s : s = [st[p] EXCEPT !.pc = "write", !.ok = TRUE, !.shims = Shimmed(st[p].gen),
                                 !.files = Deployed(st[p].gen)]
  OBVIOUS
<1>2. Become(p, s)
  BY <1>1 DEF RemoveDone
<1>3. s.pc = "write" /\ s.gen = st[p].gen /\ s.shims = Shimmed(s.gen) /\ s.files = Deployed(s.gen)
  BY <1>1 DEF TInv, MemoryOK, Process
<1> QED BY <1>2, <1>3, WroteNext DEF Wrote, Finished

LEMMA WriteShimWrites ==
    ASSUME TInv, WInv, "flush" \notin Faults, NEW p \in Procs, \A q \in Procs \ {p} : ~ Active(q),
           WriteShim(p)
    PROVE  WInv'
<1>1. st[p].pc = "write" /\ st[p] \in Process /\ file' = file
  BY DEF WriteShim, At, TInv, MemoryOK
<1>2. PICK a \in st[p].shims :
         \/ /\ bin' = [bin EXCEPT ![a] = st[p].gen.shims[a]]
            /\ Become(p, [st[p] EXCEPT !.shims = @ \ {a}])
         \/ Become(p, [st[p] EXCEPT !.shims = @ \ {a}, !.ok = FALSE])
  BY DEF WriteShim, Mishap
<1>3. a \in Aliases
  BY <1>1 DEF Process
<1>4. CASE Become(p, [st[p] EXCEPT !.shims = @ \ {a}, !.ok = FALSE])
  <2>1. PICK s : s = [st[p] EXCEPT !.shims = @ \ {a}, !.ok = FALSE]
    OBVIOUS
  <2>2. s.pc = "write" /\ s.ok = FALSE
    BY <1>1, <2>1 DEF Process
  <2> QED BY <1>4, <2>1, <2>2, WroteNext DEF Wrote, Finished
<1>5. CASE /\ bin' = [bin EXCEPT ![a] = st[p].gen.shims[a]]
           /\ Become(p, [st[p] EXCEPT !.shims = @ \ {a}])
  <2>1. PICK s : s = [st[p] EXCEPT !.shims = @ \ {a}]
    OBVIOUS
  <2>2. /\ s.pc = "write" /\ s.gen = st[p].gen /\ s.shims = st[p].shims \ {a}
        /\ s.files = st[p].files /\ s.ok = st[p].ok
    BY <1>1, <2>1 DEF Process
  <2>3. bin'[a] = s.gen.shims[a] /\ \A x \in Aliases \ {a} : bin'[x] = bin[x]
    BY <1>3, <1>5, <2>2 DEF TInv, DiskOK
  <2>4. Wrote(st[p])
    BY DEF WInv
  <2>5. ASSUME s.ok = TRUE, NEW x \in Shimmed(s.gen) \ s.shims PROVE bin'[x] = s.gen.shims[x]
    <3>1. x \in Aliases
      BY DEF Shimmed
    <3>2. CASE x = a
      BY <2>3, <3>2
    <3>3. CASE x # a
      BY <1>1, <2>2, <2>3, <2>4, <2>5, <3>1, <3>3 DEF Wrote, Writing
    <3> QED BY <3>2, <3>3
  <2>6. Wrote(s)'
    BY <1>1, <2>2, <2>4, <2>5 DEF Wrote, Writing
  <2> QED BY <1>5, <2>1, <2>2, <2>6, WroteNext DEF Finished
<1> QED BY <1>2, <1>4, <1>5

LEMMA BackupFileWrites ==
    ASSUME TInv, WInv, NEW p \in Procs, \A q \in Procs \ {p} : ~ Active(q), BackupFile(p)
    PROVE  WInv'
<1>1. st[p].pc = "write" /\ st[p] \in Process /\ bin' = bin /\ file' = file /\ Wrote(st[p])
  BY DEF BackupFile, At, TInv, MemoryOK, WInv
<1>2. PICK t : Become(p, [st[p] EXCEPT !.pc = "deploy", !.files = @ \ {t}, !.at = t])
  BY DEF BackupFile
<1>3. PICK s : s = [st[p] EXCEPT !.pc = "deploy", !.files = @ \ {t}, !.at = t]
  OBVIOUS
<1>4. /\ s.pc = "deploy" /\ s.gen = st[p].gen /\ s.shims = st[p].shims /\ s.at = t
      /\ s.files = st[p].files \ {t} /\ s.ok = st[p].ok
  BY <1>1, <1>3 DEF Process
<1>5. Wrote(s)'
  BY <1>1, <1>4 DEF Wrote, Writing
<1> QED BY <1>2, <1>3, <1>4, <1>5, WroteNext DEF Finished

LEMMA DeployFileWrites ==
    ASSUME TInv, WInv, "flush" \notin Faults, NEW p \in Procs, \A q \in Procs \ {p} : ~ Active(q),
           DeployFile(p)
    PROVE  WInv'
<1> DEFINE t == st[p].at
<1>1. st[p].pc = "deploy" /\ st[p] \in Process /\ t \in Targets /\ bin' = bin /\ Wrote(st[p])
  BY DEF DeployFile, At, TInv, MemoryOK, Sound, WInv
<1>2. \/ /\ file' = [file EXCEPT ![t] = st[p].gen.files[t]]
         /\ Become(p, [st[p] EXCEPT !.pc = "write"])
      \/ Become(p, [st[p] EXCEPT !.pc = "write", !.ok = FALSE])
  BY DEF DeployFile, Mishap
<1>3. CASE Become(p, [st[p] EXCEPT !.pc = "write", !.ok = FALSE])
  <2>1. PICK s : s = [st[p] EXCEPT !.pc = "write", !.ok = FALSE]
    OBVIOUS
  <2>2. s.pc = "write" /\ s.ok = FALSE
    BY <1>1, <2>1 DEF Process
  <2> QED BY <1>3, <2>1, <2>2, WroteNext DEF Wrote, Finished
<1>4. CASE /\ file' = [file EXCEPT ![t] = st[p].gen.files[t]]
           /\ Become(p, [st[p] EXCEPT !.pc = "write"])
  <2>1. PICK s : s = [st[p] EXCEPT !.pc = "write"]
    OBVIOUS
  <2>2. /\ s.pc = "write" /\ s.gen = st[p].gen /\ s.shims = st[p].shims
        /\ s.files = st[p].files /\ s.ok = st[p].ok
    BY <1>1, <2>1 DEF Process
  <2>3. file'[t] = s.gen.files[t] /\ \A x \in Targets \ {t} : file'[x] = file[x]
    BY <1>1, <1>4, <2>2 DEF TInv, DiskOK
  <2>4. ASSUME s.ok = TRUE, NEW x \in Deployed(s.gen) \ s.files PROVE file'[x] = s.gen.files[x]
    <3>1. x \in Targets
      BY DEF Deployed
    <3>2. CASE x = t
      BY <2>3, <3>2
    <3>3. CASE x # t
      BY <1>1, <2>2, <2>3, <2>4, <3>1, <3>3 DEF Wrote, Writing
    <3> QED BY <3>2, <3>3
  <2>5. Wrote(s)'
    BY <1>1, <2>2, <2>4 DEF Wrote, Writing
  <2> QED BY <1>4, <2>1, <2>2, <2>5, WroteNext DEF Finished
<1> QED BY <1>2, <1>3, <1>4

LEMMA WriteDoneWrites ==
    ASSUME TInv, WInv, NEW p \in Procs, \A q \in Procs \ {p} : ~ Active(q), WriteDone(p)
    PROVE  WInv'
<1>1. /\ st[p].pc = "write" /\ st[p].shims = {} /\ st[p].files = {}
      /\ st[p] \in Process /\ bin' = bin /\ file' = file /\ Wrote(st[p])
  BY DEF WriteDone, At, TInv, MemoryOK, WInv, disk
<1>2. CASE st[p].ok = TRUE
  <2>1. PICK s : s = [st[p] EXCEPT !.pc = "setcurrent"]
    OBVIOUS
  <2>2. /\ s.pc = "setcurrent" /\ s.gen = st[p].gen /\ s.shims = {} /\ s.files = {}
        /\ s.ok = TRUE
    BY <1>1, <1>2, <2>1 DEF Process
  <2>3. Wrote(s)' /\ Finished(s)
    BY <1>1, <1>2, <2>2 DEF Wrote, Finished, Writing
  <2> QED BY <1>2, <2>1, <2>3, WroteNext DEF WriteDone
<1>3. CASE st[p].ok # TRUE
  <2>1. st[p].ok = FALSE
    BY <1>1, <1>3 DEF Process
  <2> QED BY <2>1, NotWriting DEF WriteDone, Exit, Exited, Writing
<1> QED BY <1>2, <1>3

LEMMA WriteStep ==
    ASSUME "flush" \notin Faults PROVE TInv /\ SInv /\ WInv /\ [SerialNext]_vars => WInv'
<1> SUFFICES ASSUME TInv, SInv, WInv, [SerialNext]_vars PROVE WInv'
  OBVIOUS
<1>1. CASE UNCHANGED vars
  BY <1>1 DEF vars, disk, WInv, Wrote, Finished
<1>2. ASSUME NEW p \in Procs, (Quiet /\ Command(p)) \/ Step(p) \/ Crash(p) PROVE WInv'
  <2>1. \A q \in Procs \ {p} : ~ Active(q)
    BY <1>2, StepsAreActive DEF SInv, OneActive, Quiet
  <2> QED BY <1>2, <2>1, OutsideWrites, RemovingWrites, RemoveDoneWrites, WriteShimWrites,
          BackupFileWrites, DeployFileWrites, WriteDoneWrites DEF Step, Commit, Activate
<1> QED BY <1>1, <1>2 DEF SerialNext

(* Profile::activate, libs/kuli-bp/src/profile.cpp: where a failed write is *)
(* seen (none comes late, at the flush), `current` moves only onto a        *)
(* generation whose shims and files are in place (M-2).                     *)
THEOREM ActivationAlwaysProjects ==
    ASSUME "flush" \notin Faults PROVE SerialSpec => ActivationProjects
<1>1. Init => WInv
  <2> SUFFICES ASSUME Init PROVE WInv
    OBVIOUS
  <2>1. \A p \in Procs : st[p].pc = "idle"
    BY DEF Init, Exited
  <2> QED BY <2>1 DEF WInv, Wrote, Finished, Writing
<1>2. TInv /\ SInv /\ WInv /\ [SerialNext]_vars => WInv'
  BY WriteStep
<1>3. WInv => ProjectStep
  <2> SUFFICES ASSUME WInv, NEW p \in Procs, At(p, "setcurrent")
               PROVE  Shows(st[p].gen) /\ Deploys(st[p].gen)
    BY DEF ProjectStep
  <2> QED BY DEF WInv, Wrote, Finished, At, Writing, Shows, Deploys, Shimmed, Deployed
<1> QED BY <1>1, <1>2, <1>3, SerialInvariant, PTL DEF SerialSpec, ActivationProjects

-----------------------------------------------------------------------------
(* The registry beside the profile: what its tasks remember.                *)
RegistryOK == /\ registry \in (SUBSET Scriptures) \cup {Torn}
              /\ task \in [Procs -> S!Task]
              /\ \A p \in Procs : S!Active(p) => task[p].name \in Scriptures

LEMMA EndedType == \A r \in {"none", "ok", "fail"} : S!Ended(r) \in S!Task
  BY DEF S!Ended, S!Task

(* Replacing what one task remembers.                                       *)
LEMMA TaskType ==
    ASSUME RegistryOK, NEW p \in Procs, NEW s \in S!Task, S!Become(p, s),
           s.pc # "idle" => s.name \in Scriptures, registry' \in (SUBSET Scriptures) \cup {Torn}
    PROVE  RegistryOK'
<1>1. task' \in [Procs -> S!Task] /\ task'[p] = s /\ \A q \in Procs \ {p} : task'[q] = task[q]
  BY DEF RegistryOK, S!Become
<1>2. \A q \in Procs : S!Active(q)' => task'[q].name \in Scriptures
  BY <1>1 DEF RegistryOK, S!Active, S!At
<1> QED BY <1>1, <1>2 DEF RegistryOK

(* A task that ends remembers something well typed.                         *)
LEMMA TaskEnds ==
    ASSUME RegistryOK, NEW p \in Procs, NEW r \in {"none", "ok", "fail"}, S!End(p, r),
           registry' \in (SUBSET Scriptures) \cup {Torn}
    PROVE  RegistryOK'
<1>1. S!Ended(r) \in S!Task /\ S!Ended(r).pc = "idle"
  BY EndedType DEF S!Ended
<1> QED BY <1>1, TaskType DEF S!End

(* What is registered are scriptures.                                       *)
LEMMA RegisteredType == ASSUME RegistryOK PROVE S!Registered \subseteq Scriptures
<1>1. registry = Torn \/ registry \in SUBSET Scriptures
  BY DEF RegistryOK
<1> QED BY <1>1 DEF S!Registered

(* A command on scriptures keeps the types when it starts ...               *)
LEMMA CommandTyped ==
    ASSUME RegistryOK, NEW p \in Procs, S!Command(p)
    PROVE  RegistryOK' /\ UNCHANGED <<registry, bin>> /\ (mishaps' = mishaps \/ S!Mishap("realize"))
<1>1. PICK n \in Scriptures : S!Install(p, n) \/ S!Uninstall(p, n)
  BY DEF S!Command
<1>2. UNCHANGED <<registry, bin>> /\ registry \in (SUBSET Scriptures) \cup {Torn}
  BY <1>1 DEF S!Install, S!Uninstall, RegistryOK
<1>3. BasenamesOf[n] \subseteq Aliases
  BY KuliAssumption DEF KuliAssumption
<1>4. CASE S!Install(p, n)
  <2>1. CASE S!Mishap("realize") /\ S!End(p, "fail")
    BY <1>2, <2>1, TaskEnds
  <2>2. CASE /\ S!Become(p, [S!Ended("none") EXCEPT !.pc = "shim", !.name = n, !.todo = BasenamesOf[n]])
             /\ UNCHANGED mishaps
    <3>1. PICK s : s = [S!Ended("none") EXCEPT !.pc = "shim", !.name = n, !.todo = BasenamesOf[n]]
      OBVIOUS
    <3>2. s \in S!Task /\ s.name = n
      BY <1>3, <3>1 DEF S!Ended, S!Task
    <3> QED BY <1>2, <2>2, <3>1, <3>2, TaskType
  <2> QED BY <1>4, <2>1, <2>2 DEF S!Install
<1>5. CASE S!Uninstall(p, n)
  <2>1. CASE n \notin S!Registered
    BY <1>2, <1>5, <2>1, TaskEnds DEF S!Uninstall
  <2>2. CASE n \in S!Registered
    <3>1. PICK s : s = [S!Ended("none") EXCEPT !.pc = "unshim", !.name = n,
                                              !.reg = S!Registered \ {n}, !.todo = BasenamesOf[n]]
      OBVIOUS
    <3>2. s \in S!Task /\ s.name = n
      BY <1>3, <3>1, RegisteredType DEF S!Ended, S!Task
    <3>3. S!Become(p, s)
      BY <1>5, <2>2, <3>1 DEF S!Uninstall
    <3> QED BY <1>2, <1>5, <3>2, <3>3, TaskType DEF S!Uninstall
  <2> QED BY <2>1, <2>2
<1> QED BY <1>1, <1>4, <1>5

(* ... and with every step.                                                 *)
LEMMA ScriptureStepTyped ==
    ASSUME TInv, RegistryOK, NEW p \in Procs, S!Step(p) \/ S!Crash(p)
    PROVE  /\ RegistryOK' /\ S!Active(p)
           /\ bin' \in [Aliases -> Derivs \cup {KuliExe, None, Torn}]
           /\ mishaps' = mishaps \/ \E k : S!Mishap(k)
<1>0. /\ task[p] \in S!Task /\ (S!Active(p) => task[p].name \in Scriptures)
      /\ bin \in [Aliases -> Derivs \cup {KuliExe, None, Torn}]
      /\ registry \in (SUBSET Scriptures) \cup {Torn}
  BY DEF RegistryOK, TInv, DiskOK
<1>1. CASE S!WriteShim(p)
  <2>1. PICK a \in task[p].todo :
           \/ /\ bin' = [bin EXCEPT ![a] = KuliExe]
              /\ S!Become(p, [task[p] EXCEPT !.todo = @ \ {a}])
              /\ UNCHANGED mishaps
           \/ /\ S!Mishap("flush")
              /\ bin' = [bin EXCEPT ![a] = Torn]
              /\ S!Become(p, [task[p] EXCEPT !.todo = @ \ {a}])
           \/ /\ S!Mishap("disk")
              /\ \E left \in {bin[a], Torn} : bin' = [bin EXCEPT ![a] = left]
              /\ S!End(p, "fail")
    BY <1>1 DEF S!WriteShim
  <2>2. S!Active(p) /\ a \in Aliases /\ registry' = registry
    BY <1>0, <1>1 DEF S!WriteShim, S!Active, S!At, S!Task
  <2>3. [task[p] EXCEPT !.todo = @ \ {a}] \in S!Task /\ [task[p] EXCEPT !.todo = @ \ {a}].name = task[p].name
    BY <1>0 DEF S!Task
  <2>4. bin' \in [Aliases -> Derivs \cup {KuliExe, None, Torn}]
    BY <1>0, <2>1, <2>2
  <2>5. RegistryOK'
    BY <1>0, <2>1, <2>2, <2>3, TaskType, TaskEnds
  <2> QED BY <2>1, <2>2, <2>4, <2>5
<1>2. CASE S!Enter(p)
  <2>1. PICK s : s = [task[p] EXCEPT !.pc = "save", !.reg = S!Registered \cup {task[p].name}]
    OBVIOUS
  <2>2. S!Active(p)
    BY <1>2 DEF S!Enter, S!Active, S!At
  <2>3. s \in S!Task /\ s.name = task[p].name
    BY <1>0, <2>1, <2>2, RegisteredType DEF S!Task
  <2>4. S!Become(p, s) /\ UNCHANGED <<registry, bin, mishaps>>
    BY <1>2, <2>1 DEF S!Enter
  <2> QED BY <1>0, <2>2, <2>3, <2>4, TaskType
<1>3. CASE S!RemoveShim(p)
  <2>1. PICK a \in task[p].todo :
           /\ \/ bin' = [bin EXCEPT ![a] = None] /\ UNCHANGED mishaps
              \/ S!Mishap("disk") /\ UNCHANGED bin
           /\ S!Become(p, [task[p] EXCEPT !.todo = @ \ {a}])
    BY <1>3 DEF S!RemoveShim
  <2>2. S!Active(p) /\ a \in Aliases /\ registry' = registry
    BY <1>0, <1>3 DEF S!RemoveShim, S!Active, S!At, S!Task
  <2>3. [task[p] EXCEPT !.todo = @ \ {a}] \in S!Task /\ [task[p] EXCEPT !.todo = @ \ {a}].name = task[p].name
    BY <1>0 DEF S!Task
  <2>4. RegistryOK'
    BY <1>0, <2>1, <2>2, <2>3, TaskType
  <2> QED BY <1>0, <2>1, <2>2, <2>4
<1>4. CASE S!Save(p)
  <2>1. S!Active(p) /\ bin' = bin
    BY <1>4 DEF S!Save, S!Saving, S!Active, S!At
  <2>2. /\ \/ S!End(p, "ok") \/ S!End(p, "fail")
        /\ registry' \in {registry, Torn, task[p].reg}
        /\ mishaps' = mishaps \/ \E k : S!Mishap(k)
    BY <1>4 DEF S!Save
  <2>3. registry' \in (SUBSET Scriptures) \cup {Torn}
    <3>1. task[p].reg \in SUBSET Scriptures
      BY <1>0 DEF S!Task
    <3> QED BY <1>0, <2>2, <3>1, Zenon
  <2> QED BY <1>0, <2>1, <2>2, <2>3, TaskEnds
<1>5. CASE S!Crash(p)
  <2>1. registry' \in {registry, Torn} /\ S!End(p, "none") /\ bin' = bin /\ S!Mishap("crash")
    BY <1>5 DEF S!Crash
  <2>2. registry' \in (SUBSET Scriptures) \cup {Torn}
    BY <1>0, <2>1, Zenon
  <2> QED BY <1>0, <1>5, <2>1, <2>2, TaskEnds DEF S!Crash
<1> QED BY <1>1, <1>2, <1>3, <1>4, <1>5 DEF S!Step

-----------------------------------------------------------------------------
(* One command at a time, of the profile or of the registry.                *)
Alone == /\ Quiet \/ S!Quiet
         /\ \A p, q \in Procs : S!Active(p) /\ S!Active(q) => p = q

(* What a task is about to save: the registry on disk, but for its entry.   *)
Holds(p) == /\ S!At(p, "save")   => task[p].reg = S!Registered \cup {task[p].name}
            /\ S!At(p, "unshim") => task[p].reg = S!Registered \ {task[p].name}

KInv == TInv /\ SInv /\ RegistryOK /\ Alone /\ (\A p \in Procs : Holds(p))

(* What the profile's commands do, seen from the registry.                  *)
LEMMA ProfileActs ==
    ASSUME KInv, NEW p \in Procs, ProfileAct(p)
    PROVE  /\ UNCHANGED <<registry, task>>
           /\ (Quiet /\ Command(p)) \/ Step(p) \/ Crash(p)
           /\ S!Quiet /\ \A q \in Procs \ {p} : ~ Active(q)
<1>1. (AllQuiet /\ Command(p)) \/ Step(p) \/ Crash(p)
  BY DEF ProfileAct
<1>2. CASE AllQuiet /\ Command(p)
  BY <1>2 DEF AllQuiet, ProfileAct, Quiet
<1>3. CASE Step(p) \/ Crash(p)
  <2>1. Active(p)
    BY <1>3, StepsAreActive
  <2> QED BY <1>3, <2>1 DEF ProfileAct, KInv, Alone, SInv, OneActive, Quiet
<1> QED BY <1>1, <1>2, <1>3

(* What the registry's commands do, seen from the profile.                  *)
LEMMA ScriptureActs ==
    ASSUME KInv, NEW p \in Procs, ScriptureAct(p)
    PROVE  /\ UNCHANGED <<gens, current, file, bak, realized, lock, st>>
           /\ S!Command(p) \/ S!Step(p) \/ S!Crash(p)
           /\ Quiet /\ \A q \in Procs \ {p} : ~ S!Active(q)
           /\ RegistryOK' /\ bin' \in [Aliases -> Derivs \cup {KuliExe, None, Torn}]
           /\ mishaps' = mishaps \/ \E k : S!Mishap(k)
<1>1. (AllQuiet /\ S!Command(p)) \/ S!Step(p) \/ S!Crash(p)
  BY DEF ScriptureAct
<1>2. CASE AllQuiet /\ S!Command(p)
  <2>1. bin \in [Aliases -> Derivs \cup {KuliExe, None, Torn}]
    BY DEF KInv, TInv, DiskOK
  <2> QED BY <1>2, <2>1, CommandTyped DEF AllQuiet, ScriptureAct, S!Quiet, KInv
<1>3. CASE S!Step(p) \/ S!Crash(p)
  <2>1. S!Active(p)
    BY <1>3, ScriptureStepTyped DEF KInv
  <2>2. Quiet /\ \A q \in Procs \ {p} : ~ S!Active(q)
    BY <2>1 DEF KInv, Alone, S!Quiet
  <2> QED BY <1>3, <2>2, ScriptureStepTyped DEF ScriptureAct, KInv
<1> QED BY <1>1, <1>2, <1>3

(* A task changes its own memory only.                                      *)
LEMMA TasksAreOwn ==
    ASSUME RegistryOK, NEW p \in Procs, S!Command(p) \/ S!Step(p) \/ S!Crash(p)
    PROVE  \A q \in Procs \ {p} : task'[q] = task[q]
<1>1. \E s : S!Become(p, s)
  <2>1. CASE S!Command(p)
    BY <2>1 DEF S!Command, S!Install, S!Uninstall, S!End
  <2>2. CASE S!WriteShim(p) \/ S!Enter(p)
    BY <2>2 DEF S!WriteShim, S!Enter, S!End
  <2>3. CASE S!RemoveShim(p) \/ S!Save(p)
    BY <2>3 DEF S!RemoveShim, S!Save, S!End
  <2>4. CASE S!Crash(p)
    BY <2>4 DEF S!Crash, S!End
  <2> QED BY <2>1, <2>2, <2>3, <2>4 DEF S!Step
<1> QED BY <1>1 DEF RegistryOK, S!Become

(* No other command runs meanwhile, so what a task is about to save stays   *)
(* right.                                                                   *)
LEMMA HoldsNext ==
    ASSUME RegistryOK, NEW p \in Procs, Holds(p), S!Command(p) \/ S!Step(p) \/ S!Crash(p)
    PROVE  Holds(p)'
<1>0. /\ task[p] \in S!Task
      /\ \A s : S!Become(p, s) => task'[p] = s
      /\ \A r : S!End(p, r) => task'[p].pc = "idle"
  BY DEF RegistryOK, S!Become, S!End, S!Ended
<1>1. CASE task'[p].pc \notin {"save", "unshim"}
  BY <1>1 DEF Holds, S!At
<1>2. CASE task'[p].pc \in {"save", "unshim"}
  <2>1. ASSUME NEW n \in Scriptures, S!Install(p, n) PROVE FALSE
    <3>1. task'[p].pc = "idle" \/ task'[p].pc = "shim"
      BY <1>0, <2>1 DEF S!Install, S!Ended
    <3> QED BY <1>2, <3>1
  <2>2. ASSUME NEW n \in Scriptures, S!Uninstall(p, n) PROVE Holds(p)'
    <3>1. task'[p] = [S!Ended("none") EXCEPT !.pc = "unshim", !.name = n,
                                        !.reg = S!Registered \ {n}, !.todo = BasenamesOf[n]]
      BY <1>0, <1>2, <2>2 DEF S!Uninstall
    <3>2. task'[p].pc = "unshim" /\ task'[p].name = n /\ task'[p].reg = S!Registered \ {n}
      BY <3>1 DEF S!Ended
    <3>3. registry' = registry
      BY <2>2 DEF S!Uninstall
    <3> QED BY <3>2, <3>3 DEF Holds, S!At, S!Registered
  <2>3. CASE S!WriteShim(p)
    <3>1. task[p].pc = "shim" /\ \A x : [task[p] EXCEPT !.todo = x].pc = "shim"
      BY <1>0, <2>3 DEF S!WriteShim, S!At, S!Task
    <3>2. task'[p].pc \in {"shim", "idle"}
      BY <1>0, <2>3, <3>1 DEF S!WriteShim
    <3> QED BY <1>2, <3>2
  <2>4. CASE S!Enter(p)
    <3>1. task'[p] = [task[p] EXCEPT !.pc = "save", !.reg = S!Registered \cup {task[p].name}]
      BY <1>0, <2>4 DEF S!Enter
    <3>2. /\ task'[p].pc = "save" /\ task'[p].name = task[p].name
          /\ task'[p].reg = S!Registered \cup {task[p].name}
      BY <1>0, <3>1 DEF S!Task
    <3>3. registry' = registry
      BY <2>4 DEF S!Enter
    <3> QED BY <3>2, <3>3 DEF Holds, S!At, S!Registered
  <2>5. CASE S!RemoveShim(p)
    <3>1. PICK a : task'[p] = [task[p] EXCEPT !.todo = @ \ {a}]
      BY <1>0, <2>5 DEF S!RemoveShim
    <3>2. task'[p].pc = task[p].pc /\ task'[p].name = task[p].name /\ task'[p].reg = task[p].reg
      BY <1>0, <3>1 DEF S!Task
    <3>3. registry' = registry
      BY <2>5 DEF S!RemoveShim
    <3> QED BY <3>2, <3>3 DEF Holds, S!At, S!Registered
  <2>6. CASE S!Save(p) \/ S!Crash(p)
    BY <1>0, <1>2, <2>6 DEF S!Save, S!Crash
  <2> QED BY <2>1, <2>2, <2>3, <2>4, <2>5, <2>6 DEF S!Command, S!Step
<1> QED BY <1>1, <1>2

(* The invariant of the two kinds of command together: at the start ...     *)
LEMMA KuliStarts == KuliInit => KInv
<1> SUFFICES ASSUME KuliInit PROVE KInv
  OBVIOUS
<1>1. TInv /\ SInv
  BY TypeInit, SerialInit DEF KuliInit
<1>2. registry = {} /\ \A p \in Procs : task[p].pc = "idle"
  BY DEF KuliInit, S!Init, S!Ended
<1>3. task \in [Procs -> S!Task]
  BY EndedType DEF KuliInit, S!Init
<1> QED BY <1>1, <1>2, <1>3 DEF KInv, RegistryOK, Alone, Holds, S!Active, S!At, S!Quiet

(* ... and with every step.                                                 *)
LEMMA KuliSteps == KInv /\ [KuliNext]_kuliVars => KInv'
<1> SUFFICES ASSUME KInv, [KuliNext]_kuliVars PROVE KInv'
  OBVIOUS
<1>1. CASE UNCHANGED kuliVars
  <2>1. UNCHANGED vars /\ UNCHANGED <<registry, task>>
    BY <1>1 DEF kuliVars
  <2>2. TInv' /\ SInv'
    BY <2>1, TypeStep, SerialStep DEF KInv
  <2>3. RegistryOK' /\ Alone' /\ \A p \in Procs : Holds(p)'
    BY <2>1 DEF KInv, RegistryOK, Alone, Holds, Quiet, Active, At, S!Active, S!At, S!Quiet,
                S!Registered, vars
  <2> QED BY <2>2, <2>3 DEF KInv
<1>2. ASSUME NEW p \in Procs, ProfileAct(p) PROVE KInv'
  <2>1. /\ UNCHANGED <<registry, task>> /\ S!Quiet
        /\ (Quiet /\ Command(p)) \/ Step(p) \/ Crash(p)
    BY <1>2, ProfileActs
  <2>2. TInv' /\ SInv'
    BY <2>1, TypeStep, SerialStep, SerialIsNext DEF KInv, SerialNext
  <2>3. RegistryOK' /\ Alone' /\ \A q \in Procs : Holds(q)'
    BY <2>1 DEF KInv, RegistryOK, Alone, Holds, S!Active, S!At, S!Quiet, S!Registered
  <2> QED BY <2>2, <2>3 DEF KInv
<1>3. ASSUME NEW p \in Procs, ScriptureAct(p) PROVE KInv'
  <2>1. /\ UNCHANGED <<gens, current, file, bak, realized, lock, st>>
        /\ S!Command(p) \/ S!Step(p) \/ S!Crash(p)
        /\ Quiet /\ \A q \in Procs \ {p} : ~ S!Active(q)
        /\ RegistryOK' /\ bin' \in [Aliases -> Derivs \cup {KuliExe, None, Torn}]
        /\ mishaps' = mishaps \/ \E k : S!Mishap(k)
    BY <1>3, ScriptureActs
  <2>2. mishaps' \in 0 .. MaxMishaps
    BY <2>1, ProfileAssumption DEF KInv, TInv, ProfileAssumption, S!Mishap
  <2>3. TInv'
    BY <2>1, <2>2 DEF KInv, TInv, DiskOK, MemoryOK, Sound
  <2>4. SInv'
    BY <2>1 DEF KInv, SInv, OneActive, Active, At, Fresh, History, CurrentLoadable, Older, Loadable
  <2>5. \A q \in Procs \ {p} : task'[q] = task[q]
    BY <2>1, TasksAreOwn DEF KInv
  <2>6. Quiet' /\ \A q \in Procs \ {p} : ~ S!Active(q)'
    BY <2>1, <2>5 DEF Quiet, Active, At, S!Active, S!At
  <2>7. \A q \in Procs : Holds(q)'
    <3>1. Holds(p)'
      BY <2>1, HoldsNext DEF KInv
    <3>2. \A q \in Procs \ {p} : Holds(q)'
      BY <2>6 DEF Holds, S!Active, S!At
    <3> QED BY <3>1, <3>2
  <2> QED BY <2>1, <2>3, <2>4, <2>6, <2>7 DEF KInv, Alone
<1> QED BY <1>1, <1>2, <1>3 DEF KuliNext

(* What a registry loses.                                                   *)
LEMMA AdditiveNext ==
    ASSUME KInv, [KuliNext]_kuliVars, registry' # Torn, NEW n \in S!Registered, n \notin (S!Registered)'
    PROVE  \E p \in Procs : S!At(p, "unshim") /\ task[p].name = n
<1>0. registry' # registry
  BY DEF S!Registered
<1>1. PICK p \in Procs : ScriptureAct(p)
  BY <1>0 DEF KuliNext, ProfileAct, kuliVars
<1>2. S!Command(p) \/ S!Step(p) \/ S!Crash(p)
  BY <1>1 DEF ScriptureAct
<1>3. S!Save(p)
  BY <1>0, <1>2 DEF S!Command, S!Install, S!Uninstall, S!Step, S!WriteShim, S!Enter, S!RemoveShim,
                    S!Crash
<1>4. registry' = task[p].reg /\ n \notin task[p].reg
  BY <1>0, <1>3 DEF S!Save, S!Registered
<1>5. Holds(p)
  BY DEF KInv
<1> QED BY <1>3, <1>4, <1>5 DEF S!Save, S!Saving, Holds

-----------------------------------------------------------------------------
(* Without a mishap so far: which aliases may re-enter kuli while the       *)
(* process or task s is at work.                                            *)
Reenters(a) == bin[a] = KuliExe

Switching(s) ==
    /\ Loadable(s.id) /\ s.gen = gens[s.id]
    /\ s.pc \in Removing =>
         \A a \in Aliases : Reenters(a) => InstalledFor(a) \/ a \in s.shims \cup Shimmed(s.gen)
    /\ s.pc \in Writing =>
         /\ s.ok = TRUE
         /\ \A a \in Aliases : Reenters(a) =>
              InstalledFor(a) \/ a \in s.shims \/ s.gen.shims[a] = KuliExe
    /\ s.pc = "setcurrent" => s.shims = {}

Entering(s) ==
    /\ s.pc = "shim" => s.todo \subseteq BasenamesOf[s.name]
    /\ s.pc \in {"shim", "save"} =>
         \A a \in Aliases : Reenters(a) => Resolves(a) \/ a \in BasenamesOf[s.name]
    /\ s.pc = "unshim" =>
         \A a \in Aliases : Reenters(a) => Resolves(a) /\ a \notin BasenamesOf[s.name] \ s.todo

NoneDangles == \A a \in Aliases : Reenters(a) => Resolves(a)

BInv == mishaps = 0 =>
    /\ registry # Torn
    /\ \A p \in Procs : /\ st[p].pc \in Projecting => Switching(st[p])
                        /\ S!Active(p) => Entering(task[p])
    /\ (\A p \in Procs : st[p].pc \notin Projecting) /\ S!Quiet => NoneDangles

(* A mishap is counted, so nothing is claimed after it.                     *)
LEMMA NoMishapS ==
    ASSUME TInv, NEW k, S!Mishap(k) PROVE mishaps' # 0
  BY ProfileAssumption DEF TInv, S!Mishap, ProfileAssumption

(* Where a profile command goes, and what it finds.                         *)
LEMMA SwitchOnward ==
    ASSUME TInv, NEW p \in Procs, \A q \in Procs \ {p} : ~ Active(q), S!Quiet, NEW s, Become(p, s),
           UNCHANGED <<registry, task>>, BInv,
           mishaps' = 0 => mishaps = 0,
           mishaps' = 0 /\ s.pc \in Projecting => Switching(s)',
           mishaps' = 0 /\ s.pc \notin Projecting => NoneDangles'
    PROVE  BInv'
<1>1. st'[p] = s /\ \A q \in Procs \ {p} : st'[q].pc = "idle"
  BY DEF Become, TInv, MemoryOK, Active, At
<1>2. \A q \in Procs : ~ S!Active(q)'
  BY DEF S!Quiet, S!Active, S!At
<1>3. ASSUME mishaps' = 0, NEW q \in Procs, st'[q].pc \in Projecting PROVE Switching(st[q])'
  <2>1. q = p
    BY <1>1, <1>3 DEF Projecting, Removing, Writing
  <2> QED BY <1>1, <1>3, <2>1 DEF Switching
<1>4. ASSUME mishaps' = 0, \A q \in Procs : st'[q].pc \notin Projecting PROVE NoneDangles'
  BY <1>1, <1>4
<1> QED BY <1>2, <1>3, <1>4 DEF BInv

(* What the profile command at work, or at rest, may rely on.               *)
LEMMA SwitchFinds ==
    ASSUME BInv, mishaps = 0, NEW p \in Procs, \A q \in Procs \ {p} : ~ Active(q), S!Quiet
    PROVE  /\ st[p].pc \in Projecting => Switching(st[p])
           /\ st[p].pc \notin Projecting => NoneDangles
  BY DEF BInv, Active, At, Projecting, Removing, Writing

(* Neither shims nor registry nor the current generation change.            *)
LEMMA SwitchElsewhere ==
    ASSUME TInv, BInv, NEW p \in Procs, \A q \in Procs \ {p} : ~ Active(q), S!Quiet,
           UNCHANGED <<registry, task, bin>>, CurrentGen' = CurrentGen, current' = current,
           Loadable(current)' = Loadable(current),
           st[p].pc \notin Projecting, NEW s, Become(p, s), s.pc \notin Projecting,
           mishaps' = 0 => mishaps = 0
    PROVE  BInv'
<1>1. \A a \in Aliases : Resolves(a)' = Resolves(a)
  <2> SUFFICES ASSUME NEW a \in Aliases PROVE Resolves(a)' = Resolves(a)
    OBVIOUS
  <2>1. InstalledFor(a)' = InstalledFor(a)
    BY DEF InstalledFor, S!Registered
  <2>2. GenerationHas(a)' = GenerationHas(a)
    BY DEF GenerationHas, CurrentGen
  <2> QED BY <2>1, <2>2 DEF Resolves
<1>2. mishaps' = 0 => NoneDangles'
  BY <1>1, SwitchFinds DEF NoneDangles, Reenters
<1> QED BY <1>2, SwitchOnward

(* The steps before and after the switch of generations.                    *)
LEMMA SwitchOutside ==
    ASSUME TInv, BInv, NEW p \in Procs, \A q \in Procs \ {p} : ~ Active(q), S!Quiet,
           UNCHANGED <<registry, task>>,
           \/ Command(p) \/ Realize(p) \/ RealizeFails(p) \/ RealizeDone(p) \/ CommitId(p)
           \/ CommitParent(p) \/ RollbackStep(p) \/ RollbackFound(p) \/ WriteLock(p)
    PROVE  BInv'
<1>1. /\ st[p].pc \in Away /\ st'[p].pc \in Away /\ UNCHANGED <<bin, file, bak, gens, current>>
      /\ mishaps' = 0 => mishaps = 0
  BY OutsideMemory
<1>2. PICK s : Become(p, s)
  BY StepsAreOwn DEF Step, Commit
<1>3. st'[p] = s
  BY <1>2 DEF Become, TInv, MemoryOK
<1>4. CurrentGen' = CurrentGen /\ Loadable(current)' = Loadable(current)
  BY <1>1 DEF CurrentGen, Loadable
<1>5. st[p].pc \notin Projecting /\ s.pc \notin Projecting
  BY <1>1, <1>3 DEF Away, Projecting, Removing, Writing
<1> QED BY <1>1, <1>2, <1>4, <1>5, SwitchElsewhere

(* The manifest of a new generation is written: the current one is another. *)
LEMMA SwitchManifest ==
    ASSUME TInv, SInv, BInv, NEW p \in Procs, \A q \in Procs \ {p} : ~ Active(q), S!Quiet,
           UNCHANGED <<registry, task>>, CommitManifest(p)
    PROVE  BInv'
<1>1. PICK s : s = [st[p] EXCEPT !.pc = "load"]
  OBVIOUS
<1>2. Become(p, s) /\ s.pc = "load" /\ st[p].pc = "manifest"
  BY <1>1 DEF CommitManifest, At, TInv, MemoryOK, Process
<1>3. /\ gens[st[p].id] = None /\ st[p].id \in Ids /\ current' = current
      /\ gens' \in {gens, [gens EXCEPT ![st[p].id] = Torn], [gens EXCEPT ![st[p].id] = Manifest(p)]}
  BY ManifestIsNew DEF SInv
<1>4. CurrentGen' = CurrentGen /\ Loadable(current)' = Loadable(current)
  <2>1. CASE Loadable(current)
    <3>1. current \in Ids /\ current # st[p].id
      BY <1>3, <2>1 DEF Loadable
    <3>2. gens'[current] = gens[current]
      BY <1>3, <3>1 DEF TInv, DiskOK
    <3> QED BY <1>3, <2>1, <3>2 DEF CurrentGen, Loadable
  <2>2. CASE ~ Loadable(current)
    <3>1. current = 0 /\ 0 \notin Ids
      BY <2>2 DEF SInv, History, CurrentLoadable, Ids
    <3> QED BY <1>3, <2>2, <3>1 DEF CurrentGen, Loadable
  <2> QED BY <2>1, <2>2
<1>5. bin' = bin /\ (mishaps' = 0 => mishaps = 0)
  BY NoMishap DEF CommitManifest
<1>6. st[p].pc \notin Projecting /\ s.pc \notin Projecting
  BY <1>2 DEF Projecting, Removing, Writing
<1> QED BY <1>2, <1>3, <1>4, <1>5, <1>6, SwitchElsewhere

-----------------------------------------------------------------------------
(* The switch begins: the generation it goes to is read.                    *)
LEMMA SwitchLoads ==
    ASSUME TInv, BInv, NEW p \in Procs, \A q \in Procs \ {p} : ~ Active(q), S!Quiet,
           UNCHANGED <<registry, task>>, Load(p)
    PROVE  BInv'
<1>1. /\ st[p].pc = "load" /\ UNCHANGED <<bin, gens, current, mishaps>>
      /\ st[p] \in Process /\ st[p].pc \notin Projecting
  BY DEF Load, At, disk, TInv, MemoryOK, Projecting, Removing, Writing
<1>2. CurrentGen' = CurrentGen /\ Loadable(current)' = Loadable(current)
  BY <1>1 DEF CurrentGen, Loadable
<1>3. CASE ~ Loadable(st[p].id)
  <2>1. PICK s : s = Exited("fail")
    OBVIOUS
  <2>2. Become(p, s) /\ s.pc \notin Projecting
    BY <1>3, <2>1 DEF Load, Exit, Exited, Projecting, Removing, Writing
  <2> QED BY <1>1, <1>2, <2>2, SwitchElsewhere
<1>4. CASE Loadable(st[p].id)
  <2> DEFINE g == gens[st[p].id]
  <2>1. PICK s : s = [st[p] EXCEPT !.pc = "remove", !.gen = g,
                                   !.shims = Shimmed(CurrentGen) \ Shimmed(g),
                                   !.files = Deployed(CurrentGen) \ Deployed(g)]
    OBVIOUS
  <2>2. Become(p, s)
    BY <1>4, <2>1 DEF Load, CurrentGen
  <2>3. /\ s.pc = "remove" /\ s.id = st[p].id /\ s.gen = g
        /\ s.shims = Shimmed(CurrentGen) \ Shimmed(g)
    BY <1>1, <2>1 DEF Process
  <2>4. KuliExe # None
    BY ProfileAssumption DEF ProfileAssumption
  <2>5. ASSUME mishaps' = 0 PROVE Switching(s)'
    <3>1. NoneDangles
      BY <1>1, <2>5, SwitchFinds
    <3>2. ASSUME NEW a \in Aliases, Reenters(a)'
          PROVE  InstalledFor(a)' \/ a \in s.shims \cup Shimmed(s.gen)
      <4>1. Resolves(a)
        BY <1>1, <3>1, <3>2 DEF NoneDangles, Reenters
      <4>2. CASE InstalledFor(a)
        BY <4>2 DEF InstalledFor, S!Registered
      <4>3. CASE GenerationHas(a)
        BY <2>3, <2>4, <4>3 DEF GenerationHas, CurrentGen, Shimmed
      <4> QED BY <4>1, <4>2, <4>3 DEF Resolves
    <3>3. Loadable(s.id)' /\ s.gen = gens'[s.id]
      BY <1>1, <1>4, <2>3 DEF Loadable
    <3> QED BY <2>3, <3>2, <3>3 DEF Switching, Writing
  <2>6. s.pc \in Projecting
    BY <2>3 DEF Projecting, Removing
  <2> QED BY <1>1, <2>2, <2>5, <2>6, SwitchOnward
<1> QED BY <1>3, <1>4

(* A step on the files.                                                     *)
LEMMA SwitchFiles ==
    ASSUME TInv, BInv, NEW p \in Procs, \A q \in Procs \ {p} : ~ Active(q), S!Quiet,
           UNCHANGED <<registry, task, bin, gens, current>>, mishaps' = 0 => mishaps = 0,
           NEW s, Become(p, s), s.id = st[p].id, s.gen = st[p].gen, s.shims = st[p].shims,
           \/ s.pc \in Removing /\ st[p].pc \in Removing
           \/ /\ s.pc \in Writing \ {"setcurrent"} /\ st[p].pc \in Writing
              /\ mishaps' = 0 => s.ok = st[p].ok
    PROVE  BInv'
<1>1. s.pc \in Projecting /\ st[p].pc \in Projecting
  BY DEF Projecting
<1>2. ASSUME mishaps' = 0 PROVE Switching(s)'
  <2>1. Switching(st[p])
    BY <1>1, <1>2, SwitchFinds
  <2>2. \A a \in Aliases : InstalledFor(a)' = InstalledFor(a)
    BY DEF InstalledFor, S!Registered
  <2>3. Loadable(s.id)' /\ s.gen = gens'[s.id]
    BY <2>1 DEF Switching, Loadable
  <2>4. CASE s.pc \in Removing /\ st[p].pc \in Removing
    BY <2>1, <2>2, <2>3, <2>4 DEF Switching, Reenters, Removing, Writing
  <2>5. CASE s.pc \in Writing \ {"setcurrent"} /\ st[p].pc \in Writing /\ s.ok = st[p].ok
    BY <2>1, <2>2, <2>3, <2>5 DEF Switching, Reenters, Removing, Writing
  <2> QED BY <1>2, <2>4, <2>5
<1> QED BY <1>1, <1>2, SwitchOnward

(* The files of the generation before are taken back.                       *)
LEMMA SwitchUnprojects ==
    ASSUME TInv, BInv, NEW p \in Procs, \A q \in Procs \ {p} : ~ Active(q), S!Quiet,
           UNCHANGED <<registry, task>>, RemoveFile(p) \/ RestoreFile(p)
    PROVE  BInv'
<1>0. st[p] \in Process
  BY DEF TInv, MemoryOK
<1>1. CASE RemoveFile(p)
  <2>1. PICK t : Become(p, [st[p] EXCEPT !.files = @ \ {t}, !.at = t,
                                         !.pc = IF bak[t] = None THEN "remove" ELSE "restore"])
    BY <1>1 DEF RemoveFile
  <2>2. PICK s : s = [st[p] EXCEPT !.files = @ \ {t}, !.at = t,
                                   !.pc = IF bak[t] = None THEN "remove" ELSE "restore"]
    OBVIOUS
  <2>3. s.pc \in Removing /\ s.id = st[p].id /\ s.gen = st[p].gen /\ s.shims = st[p].shims
    BY <1>0, <2>2 DEF Process, Removing
  <2>4. /\ UNCHANGED <<bin, gens, current>> /\ st[p].pc \in Removing
        /\ mishaps' = 0 => mishaps = 0
    BY <1>1, NoMishap DEF RemoveFile, At, Removing
  <2> QED BY <2>1, <2>2, <2>3, <2>4, SwitchFiles
<1>2. CASE RestoreFile(p)
  <2>1. PICK s : s = [st[p] EXCEPT !.pc = "remove"]
    OBVIOUS
  <2>2. s.pc \in Removing /\ s.id = st[p].id /\ s.gen = st[p].gen /\ s.shims = st[p].shims
    BY <1>0, <2>1 DEF Process, Removing
  <2>3. /\ UNCHANGED <<bin, gens, current>> /\ st[p].pc \in Removing /\ Become(p, s)
        /\ mishaps' = 0 => mishaps = 0
    BY <1>2, <2>1, NoMishap DEF RestoreFile, At, Removing
  <2> QED BY <2>2, <2>3, SwitchFiles
<1> QED BY <1>1, <1>2

(* The files of the new one are deployed.                                   *)
LEMMA SwitchDeploys ==
    ASSUME TInv, BInv, NEW p \in Procs, \A q \in Procs \ {p} : ~ Active(q), S!Quiet,
           UNCHANGED <<registry, task>>, BackupFile(p) \/ DeployFile(p)
    PROVE  BInv'
<1>0. st[p] \in Process
  BY DEF TInv, MemoryOK
<1>1. CASE BackupFile(p)
  <2>1. PICK t : Become(p, [st[p] EXCEPT !.pc = "deploy", !.files = @ \ {t}, !.at = t])
    BY <1>1 DEF BackupFile
  <2>2. PICK s : s = [st[p] EXCEPT !.pc = "deploy", !.files = @ \ {t}, !.at = t]
    OBVIOUS
  <2>3. /\ s.pc \in Writing \ {"setcurrent"} /\ s.id = st[p].id /\ s.gen = st[p].gen
        /\ s.shims = st[p].shims /\ s.ok = st[p].ok
    BY <1>0, <2>2 DEF Process, Writing
  <2>4. /\ UNCHANGED <<bin, gens, current>> /\ st[p].pc \in Writing
        /\ mishaps' = 0 => mishaps = 0
    BY <1>1, NoMishap DEF BackupFile, At, Writing
  <2> QED BY <2>1, <2>2, <2>3, <2>4, SwitchFiles
<1>2. CASE DeployFile(p)
  <2>1. PICK s : /\ s \in {[st[p] EXCEPT !.pc = "write"], [st[p] EXCEPT !.pc = "write", !.ok = FALSE]}
                 /\ Become(p, s)
                 /\ mishaps' = 0 => s = [st[p] EXCEPT !.pc = "write"] /\ mishaps = 0
    <3>1. CASE \E k : Mishap(k)
      BY <1>2, <3>1, NoMishap DEF DeployFile
    <3>2. CASE ~ \E k : Mishap(k)
      BY <1>2, <3>2 DEF DeployFile
    <3> QED BY <3>1, <3>2
  <2>2. /\ s.pc \in Writing \ {"setcurrent"} /\ s.id = st[p].id /\ s.gen = st[p].gen
        /\ s.shims = st[p].shims
    BY <1>0, <2>1 DEF Process, Writing
  <2>3. mishaps' = 0 => s.ok = st[p].ok
    BY <1>0, <2>1 DEF Process
  <2>4. UNCHANGED <<bin, gens, current>> /\ st[p].pc \in Writing
    BY <1>2 DEF DeployFile, At, Writing
  <2> QED BY <2>1, <2>2, <2>3, <2>4, SwitchFiles
<1> QED BY <1>1, <1>2

(* A shim of the generation before is removed.                              *)
LEMMA SwitchRemoves ==
    ASSUME TInv, BInv, NEW p \in Procs, \A q \in Procs \ {p} : ~ Active(q), S!Quiet,
           UNCHANGED <<registry, task>>, RemoveShim(p)
    PROVE  BInv'
<1>1. PICK a \in st[p].shims :
         /\ \/ bin' = [bin EXCEPT ![a] = None] /\ UNCHANGED mishaps
            \/ Mishap("disk") /\ UNCHANGED bin
         /\ Become(p, [st[p] EXCEPT !.shims = @ \ {a}])
  BY DEF RemoveShim
<1>2. PICK s : s = [st[p] EXCEPT !.shims = @ \ {a}]
  OBVIOUS
<1>3. /\ st[p].pc = "remove" /\ st[p] \in Process /\ a \in Aliases
      /\ UNCHANGED <<gens, current>>
  BY <1>1 DEF RemoveShim, At, TInv, MemoryOK, Process
<1>4. s.pc = "remove" /\ s.id = st[p].id /\ s.gen = st[p].gen /\ s.shims = st[p].shims \ {a}
  BY <1>2, <1>3 DEF Process
<1>5. mishaps' = 0 => bin' = [bin EXCEPT ![a] = None] /\ mishaps = 0
  BY <1>1, NoMishap
<1>6. ASSUME mishaps' = 0 PROVE Switching(s)'
  <2>1. Switching(st[p])
    BY <1>3, <1>5, <1>6, SwitchFinds DEF Projecting, Removing
  <2>2. bin'[a] # KuliExe /\ \A x \in Aliases \ {a} : bin'[x] = bin[x]
    BY <1>3, <1>5, <1>6, ProfileAssumption DEF TInv, DiskOK, ProfileAssumption
  <2>3. \A x \in Aliases : InstalledFor(x)' = InstalledFor(x)
    BY DEF InstalledFor, S!Registered
  <2>4. Loadable(s.id)' /\ s.gen = gens'[s.id]
    BY <1>3, <1>4, <2>1 DEF Switching, Loadable
  <2>5. \A x \in Aliases : Reenters(x)' => InstalledFor(x)' \/ x \in s.shims \cup Shimmed(s.gen)
    BY <1>3, <1>4, <2>1, <2>2, <2>3 DEF Switching, Reenters, Removing
  <2> QED BY <1>4, <2>4, <2>5 DEF Switching, Writing
<1>7. s.pc \in Projecting
  BY <1>4 DEF Projecting, Removing
<1> QED BY <1>1, <1>2, <1>5, <1>6, <1>7, SwitchOnward

(* They are all removed: those of the new one are next.                     *)
LEMMA SwitchTurns ==
    ASSUME TInv, BInv, NEW p \in Procs, \A q \in Procs \ {p} : ~ Active(q), S!Quiet,
           UNCHANGED <<registry, task>>, RemoveDone(p)
    PROVE  BInv'
<1>1. PICK s : s = [st[p] EXCEPT !.pc = "write", !.ok = TRUE, !.shims = Shimmed(st[p].gen),
                                 !.files = Deployed(st[p].gen)]
  OBVIOUS
<1>2. /\ st[p].pc = "remove" /\ st[p] \in Process /\ st[p].shims = {}
      /\ UNCHANGED <<gens, current, bin, mishaps>> /\ Become(p, s)
  BY <1>1 DEF RemoveDone, At, TInv, MemoryOK, disk
<1>3. s.pc = "write" /\ s.id = st[p].id /\ s.gen = st[p].gen /\ s.shims = Shimmed(s.gen)
  BY <1>1, <1>2 DEF Process
<1>4. s.ok = TRUE
  BY <1>1, <1>2 DEF Process
<1>5. ASSUME mishaps' = 0 PROVE Switching(s)'
  <2>1. Switching(st[p])
    BY <1>2, <1>5, SwitchFinds DEF Projecting, Removing
  <2>2. \A a \in Aliases : InstalledFor(a)' = InstalledFor(a)
    BY DEF InstalledFor, S!Registered
  <2>3. Loadable(s.id)' /\ s.gen = gens'[s.id]
    BY <1>2, <1>3, <2>1 DEF Switching, Loadable
  <2>4. \A a \in Aliases : Reenters(a)' =>
           InstalledFor(a)' \/ a \in s.shims \/ s.gen.shims[a] = KuliExe
    BY <1>2, <1>3, <2>1, <2>2 DEF Switching, Reenters, Removing
  <2> QED BY <1>3, <1>4, <2>3, <2>4 DEF Switching, Removing
<1>6. s.pc \in Projecting
  BY <1>3 DEF Projecting, Writing
<1> QED BY <1>2, <1>5, <1>6, SwitchOnward

-----------------------------------------------------------------------------
(* A shim of the new generation is written: current.json still names the    *)
(* one before, and the loop still has to end.                               *)
LEMMA SwitchWrites ==
    ASSUME TInv, BInv, NEW p \in Procs, \A q \in Procs \ {p} : ~ Active(q), S!Quiet,
           UNCHANGED <<registry, task>>, WriteShim(p)
    PROVE  BInv'
<1>1. PICK a \in st[p].shims :
         \/ /\ bin' = [bin EXCEPT ![a] = st[p].gen.shims[a]]
            /\ Become(p, [st[p] EXCEPT !.shims = @ \ {a}])
            /\ UNCHANGED mishaps
         \/ /\ Mishap("disk")
            /\ Become(p, [st[p] EXCEPT !.shims = @ \ {a}, !.ok = FALSE])
         \/ /\ Mishap("flush")
            /\ Become(p, [st[p] EXCEPT !.shims = @ \ {a}])
  BY DEF WriteShim
<1>2. /\ st[p].pc = "write" /\ st[p] \in Process /\ a \in Aliases
      /\ UNCHANGED <<gens, current>>
  BY <1>1 DEF WriteShim, At, TInv, MemoryOK, Process
<1>3. PICK s : s = [st[p] EXCEPT !.shims = @ \ {a}]
  OBVIOUS
<1>4. PICK r : /\ r \in {s, [st[p] EXCEPT !.shims = @ \ {a}, !.ok = FALSE]}
               /\ Become(p, r)
               /\ mishaps' = 0 => /\ mishaps = 0 /\ r = s
                                  /\ bin' = [bin EXCEPT ![a] = st[p].gen.shims[a]]
  <2>1. CASE \E k : Mishap(k)
    BY <1>1, <1>3, <2>1, NoMishap
  <2>2. CASE ~ \E k : Mishap(k)
    BY <1>1, <1>3, <2>2
  <2> QED BY <2>1, <2>2
<1>5. r.pc = "write"
  BY <1>2, <1>3, <1>4 DEF Process
<1>6. s.id = st[p].id /\ s.gen = st[p].gen /\ s.shims = st[p].shims \ {a} /\ s.ok = st[p].ok
  BY <1>2, <1>3 DEF Process
<1>7. ASSUME mishaps' = 0 PROVE Switching(r)'
  <2>1. Switching(st[p])
    BY <1>2, <1>4, <1>7, SwitchFinds DEF Projecting, Writing
  <2>2. bin'[a] = s.gen.shims[a] /\ \A x \in Aliases \ {a} : bin'[x] = bin[x]
    BY <1>2, <1>4, <1>6, <1>7 DEF TInv, DiskOK
  <2>3. \A x \in Aliases : InstalledFor(x)' = InstalledFor(x)
    BY DEF InstalledFor, S!Registered
  <2>4. Loadable(s.id)' /\ s.gen = gens'[s.id]
    BY <1>2, <1>6, <2>1 DEF Switching, Loadable
  <2>5. \A x \in Aliases : Reenters(x)' =>
           InstalledFor(x)' \/ x \in s.shims \/ s.gen.shims[x] = KuliExe
    BY <1>2, <1>6, <2>1, <2>2, <2>3 DEF Switching, Reenters, Writing
  <2>6. s.ok = TRUE
    BY <1>2, <1>6, <2>1 DEF Switching, Writing
  <2> QED BY <1>4, <1>5, <1>7, <2>4, <2>5, <2>6 DEF Switching, Removing
<1>8. r.pc \in Projecting
  BY <1>5 DEF Projecting, Writing
<1> QED BY <1>4, <1>7, <1>8, SwitchOnward

(* They are all written.                                                    *)
LEMMA SwitchWritten ==
    ASSUME TInv, BInv, NEW p \in Procs, \A q \in Procs \ {p} : ~ Active(q), S!Quiet,
           UNCHANGED <<registry, task>>, WriteDone(p)
    PROVE  BInv'
<1>1. /\ st[p].pc = "write" /\ st[p] \in Process /\ st[p].shims = {}
      /\ UNCHANGED <<gens, current, bin, mishaps>>
  BY DEF WriteDone, At, TInv, MemoryOK, disk
<1>2. mishaps = 0 => Switching(st[p])
  BY <1>1, SwitchFinds DEF Projecting, Writing
<1>3. CASE st[p].ok
  <2>1. PICK s : s = [st[p] EXCEPT !.pc = "setcurrent"]
    OBVIOUS
  <2>2. /\ s.pc = "setcurrent" /\ s.id = st[p].id /\ s.gen = st[p].gen /\ s.shims = {}
        /\ s.ok = st[p].ok /\ Become(p, s)
    BY <1>1, <1>3, <2>1 DEF Process, WriteDone
  <2>3. \A a \in Aliases : InstalledFor(a)' = InstalledFor(a)
    BY DEF InstalledFor, S!Registered
  <2>4. ASSUME mishaps' = 0 PROVE Switching(s)'
    <3>1. Loadable(s.id)' /\ s.gen = gens'[s.id]
      BY <1>1, <1>2, <2>2, <2>4 DEF Switching, Loadable
    <3> QED BY <1>1, <1>2, <2>2, <2>3, <2>4, <3>1 DEF Switching, Removing, Writing, Reenters
  <2>5. s.pc \in Projecting
    BY <2>2 DEF Projecting, Writing
  <2> QED BY <1>1, <2>2, <2>4, <2>5, SwitchOnward
<1>4. CASE ~ st[p].ok
  <2>1. mishaps' # 0
    BY <1>1, <1>2, <1>4 DEF Switching, Writing
  <2> QED BY <2>1 DEF BInv
<1> QED BY <1>3, <1>4

(* current.json names the new generation, which has every shim.             *)
LEMMA SwitchMoves ==
    ASSUME TInv, BInv, NEW p \in Procs, \A q \in Procs \ {p} : ~ Active(q), S!Quiet,
           UNCHANGED <<registry, task>>, SetCurrent(p)
    PROVE  BInv'
<1>1. CASE mishaps' # 0
  BY <1>1 DEF BInv
<1>2. CASE mishaps' = 0
  <2>1. mishaps = 0 /\ ~ \E k : Mishap(k)
    BY <1>2, NoMishap DEF SetCurrent
  <2>2. st[p].pc = "setcurrent" /\ st[p] \in Process /\ bin' = bin /\ gens' = gens
    BY DEF SetCurrent, At, TInv, MemoryOK
  <2>3. Switching(st[p])
    BY <2>1, <2>2, SwitchFinds DEF Projecting, Writing
  <2>4. Loadable(st[p].id) /\ st[p].gen = gens[st[p].id] /\ st[p].shims = {}
    BY <2>2, <2>3 DEF Switching
  <2>5. current' = st[p].id
    BY <2>1, <2>4 DEF SetCurrent
  <2>6. PICK s : Become(p, s) /\ s.pc \in {"idle", "lock"}
    <3>1. CASE st[p].bp = None
      BY <2>1, <2>4, <3>1 DEF SetCurrent, Exit, Exited
    <3>2. CASE st[p].bp # None
      <4>1. [st[p] EXCEPT !.pc = "lock"].pc = "lock"
        BY <2>2 DEF Process
      <4> QED BY <2>1, <2>4, <3>2, <4>1 DEF SetCurrent
    <3> QED BY <3>1, <3>2
  <2>7. NoneDangles'
    <3> SUFFICES ASSUME NEW a \in Aliases, Reenters(a)' PROVE Resolves(a)'
      BY DEF NoneDangles
    <3>1. InstalledFor(a) \/ st[p].gen.shims[a] = KuliExe
      BY <2>2, <2>3, <2>4 DEF Switching, Writing, Reenters
    <3>2. CASE InstalledFor(a)
      BY <3>2 DEF Resolves, InstalledFor, S!Registered
    <3>3. CASE st[p].gen.shims[a] = KuliExe
      BY <2>2, <2>4, <2>5, <3>3 DEF Resolves, GenerationHas, Loadable
    <3> QED BY <3>1, <3>2, <3>3
  <2>8. s.pc \notin Projecting
    BY <2>6 DEF Projecting, Removing, Writing
  <2> QED BY <2>1, <2>6, <2>7, <2>8, SwitchOnward
<1> QED BY <1>1, <1>2

(* No step of a profile command breaks it.                                  *)
LEMMA SwitchStep ==
    ASSUME KInv, BInv, NEW p \in Procs, ProfileAct(p) PROVE BInv'
<1>1. /\ UNCHANGED <<registry, task>>
      /\ (Quiet /\ Command(p)) \/ Step(p) \/ Crash(p)
      /\ S!Quiet /\ \A q \in Procs \ {p} : ~ Active(q)
      /\ TInv /\ SInv
  BY ProfileActs DEF KInv
<1>2. CASE Crash(p)
  <2>1. mishaps' # 0
    BY <1>1, <1>2, NoMishap DEF Crash
  <2> QED BY <2>1 DEF BInv
<1>3. CASE CommitManifest(p)
  BY <1>1, <1>3, SwitchManifest
<1>4. CASE Activate(p)
  BY <1>1, <1>4, SwitchLoads, SwitchRemoves, SwitchUnprojects, SwitchTurns, SwitchWrites,
     SwitchDeploys, SwitchWritten, SwitchMoves DEF Activate
<1>5. CASE \/ Command(p) \/ Realize(p) \/ RealizeFails(p) \/ RealizeDone(p) \/ CommitId(p)
           \/ CommitParent(p) \/ RollbackStep(p) \/ RollbackFound(p) \/ WriteLock(p)
  BY <1>1, <1>5, SwitchOutside
<1> QED BY <1>1, <1>2, <1>3, <1>4, <1>5 DEF Step, Commit

-----------------------------------------------------------------------------
(* Where a task of the registry goes, and what it finds.                    *)
LEMMA EnterOnward ==
    ASSUME RegistryOK, NEW p \in Procs, \A q \in Procs \ {p} : ~ S!Active(q), Quiet,
           NEW s, S!Become(p, s), st' = st, \A q \in Procs \ {p} : task'[q] = task[q],
           mishaps' = 0 => registry' # Torn,
           mishaps' = 0 /\ s.pc # "idle" => Entering(s)',
           mishaps' = 0 /\ s.pc = "idle" => NoneDangles'
    PROVE  BInv'
<1>1. task'[p] = s
  BY DEF S!Become, RegistryOK
<1>2. \A q \in Procs : st'[q].pc \notin Projecting
  BY DEF Quiet, Active, At, Projecting, Removing, Writing
<1>3. ASSUME mishaps' = 0, NEW q \in Procs, S!Active(q)' PROVE Entering(task[q])'
  <2>1. q = p
    BY <1>3 DEF S!Active, S!At
  <2>2. s.pc # "idle"
    BY <1>1, <1>3, <2>1 DEF S!Active, S!At
  <2> QED BY <1>1, <1>3, <2>1, <2>2 DEF Entering
<1>4. ASSUME mishaps' = 0, S!Quiet' PROVE NoneDangles'
  BY <1>1, <1>4 DEF S!Quiet, S!Active, S!At
<1> QED BY <1>2, <1>3, <1>4 DEF BInv

(* What the scripture command at work, or at rest, may rely on.             *)
LEMMA EnterFinds ==
    ASSUME BInv, mishaps = 0, NEW p \in Procs, \A q \in Procs \ {p} : ~ S!Active(q), Quiet
    PROVE  /\ registry # Torn
           /\ S!Active(p)   => Entering(task[p])
           /\ ~ S!Active(p) => NoneDangles
<1>1. \A q \in Procs : st[q].pc \notin Projecting
  BY DEF Quiet, Active, At, Projecting, Removing, Writing
<1> QED BY <1>1 DEF BInv, S!Quiet

(* What resolves an alias: unchanged but for the registry.                  *)
LEMMA ResolvesStays ==
    ASSUME UNCHANGED <<gens, current>>, NEW a, InstalledFor(a)' = InstalledFor(a)
    PROVE  Resolves(a)' = Resolves(a)
  BY DEF Resolves, GenerationHas, Loadable

(* With the same registry nothing changes for an alias.                     *)
LEMMA ResolvesKept ==
    ASSUME UNCHANGED <<gens, current, registry>>, NEW a
    PROVE  Resolves(a)' = Resolves(a)
<1>1. InstalledFor(a)' = InstalledFor(a)
  BY DEF InstalledFor, S!Registered
<1> QED BY <1>1, ResolvesStays

(* A scripture is installed, or taken away, from a state of rest.           *)
LEMMA EnterCommand ==
    ASSUME KInv, BInv, NEW p \in Procs, \A q \in Procs : ~ S!Active(q), Quiet,
           UNCHANGED <<gens, current, st>>, S!Command(p)
    PROVE  BInv'
<1>0. /\ RegistryOK /\ UNCHANGED <<registry, bin>>
      /\ \A q \in Procs \ {p} : task'[q] = task[q]
  BY CommandTyped, TasksAreOwn DEF KInv
<1>1. ASSUME mishaps = 0 PROVE NoneDangles /\ registry # Torn
  BY <1>1, EnterFinds
<1>2. \A a \in Aliases : Resolves(a)' = Resolves(a)
  BY <1>0, ResolvesKept
<1>3. PICK n \in Scriptures : S!Install(p, n) \/ S!Uninstall(p, n)
  BY DEF S!Command
<1>4. CASE \E k : S!Mishap(k)
  BY <1>4, NoMishapS DEF BInv, KInv
<1>5. CASE ~ \E k : S!Mishap(k)
  <2>1. CASE S!Install(p, n)
    <3>1. PICK s : s = [S!Ended("none") EXCEPT !.pc = "shim", !.name = n, !.todo = BasenamesOf[n]]
      OBVIOUS
    <3>2. S!Become(p, s) /\ mishaps' = mishaps
      BY <1>5, <2>1, <3>1 DEF S!Install
    <3>3. s.pc = "shim" /\ s.name = n
      BY <3>1 DEF S!Ended
    <3>4. mishaps' = 0 => Entering(s)'
      <4>1. s.todo = BasenamesOf[s.name]
        BY <3>1, <3>3 DEF S!Ended
      <4> QED BY <1>0, <1>1, <1>2, <3>2, <3>3, <4>1 DEF Entering, NoneDangles, Reenters
    <3> QED BY <1>0, <1>1, <3>2, <3>3, <3>4, EnterOnward
  <2>2. CASE S!Uninstall(p, n)
    <3>1. CASE n \in S!Registered
      <4>1. PICK s : s = [S!Ended("none") EXCEPT !.pc = "unshim", !.name = n,
                                                !.reg = S!Registered \ {n}, !.todo = BasenamesOf[n]]
        OBVIOUS
      <4>2. S!Become(p, s) /\ mishaps' = mishaps
        BY <2>2, <3>1, <4>1 DEF S!Uninstall
      <4>3. s.pc = "unshim" /\ s.name = n /\ s.todo = BasenamesOf[n]
        BY <4>1 DEF S!Ended
      <4>4. mishaps' = 0 => Entering(s)'
        BY <1>0, <1>1, <1>2, <4>2, <4>3 DEF Entering, NoneDangles, Reenters
      <4> QED BY <1>0, <1>1, <4>2, <4>3, <4>4, EnterOnward
    <3>2. CASE n \notin S!Registered
      <4>1. PICK s : s = S!Ended("fail")
        OBVIOUS
      <4>2. S!Become(p, s) /\ mishaps' = mishaps /\ s.pc = "idle"
        BY <2>2, <3>2, <4>1 DEF S!Uninstall, S!End, S!Ended
      <4>3. mishaps' = 0 => NoneDangles'
        BY <1>0, <1>1, <1>2, <4>2 DEF NoneDangles, Reenters
      <4> QED BY <1>0, <1>1, <4>2, <4>3, EnterOnward
    <3> QED BY <3>1, <3>2
  <2> QED BY <1>3, <2>1, <2>2
<1> QED BY <1>4, <1>5

(* Its shims are written, or removed, one by one.                           *)
LEMMA EnterShims ==
    ASSUME KInv, BInv, NEW p \in Procs, \A q \in Procs \ {p} : ~ S!Active(q), Quiet,
           UNCHANGED <<gens, current, st>>, S!WriteShim(p) \/ S!RemoveShim(p),
           \A k : ~ S!Mishap(k)
    PROVE  BInv'
<1>0. /\ RegistryOK /\ UNCHANGED registry /\ S!Active(p) /\ task[p] \in S!Task
      /\ \A q \in Procs \ {p} : task'[q] = task[q]
  BY ScriptureStepTyped, TasksAreOwn DEF KInv, S!Step, S!WriteShim, S!RemoveShim, RegistryOK
<1>1. PICK a \in task[p].todo :
         /\ \/ S!At(p, "shim") /\ bin' = [bin EXCEPT ![a] = KuliExe]
            \/ S!At(p, "unshim") /\ bin' = [bin EXCEPT ![a] = None]
         /\ S!Become(p, [task[p] EXCEPT !.todo = @ \ {a}])
         /\ UNCHANGED mishaps
  BY DEF S!WriteShim, S!RemoveShim
<1>2. PICK s : s = [task[p] EXCEPT !.todo = @ \ {a}]
  OBVIOUS
<1>3. s.pc = task[p].pc /\ s.name = task[p].name /\ s.todo = task[p].todo \ {a}
  BY <1>0, <1>2 DEF S!Task
<1>4. a \in Aliases /\ \A x \in Aliases \ {a} : bin'[x] = bin[x]
  BY <1>0, <1>1 DEF S!Task, KInv, TInv, DiskOK
<1>5. \A x \in Aliases : Resolves(x)' = Resolves(x)
  BY <1>0, ResolvesKept
<1>6. ASSUME mishaps' = 0 PROVE registry # Torn /\ Entering(task[p])
  BY <1>0, <1>1, <1>6, EnterFinds
<1>7. ASSUME mishaps' = 0 PROVE Entering(s)'
  <2>1. CASE S!At(p, "shim") /\ bin' = [bin EXCEPT ![a] = KuliExe]
    <3>1. task[p].pc = "shim"
      BY <2>1 DEF S!At
    <3>2. a \in BasenamesOf[task[p].name]
      BY <1>1, <1>6, <1>7, <3>1 DEF Entering
    <3> QED BY <1>3, <1>4, <1>5, <1>6, <1>7, <3>1, <3>2 DEF Entering, Reenters
  <2>2. CASE S!At(p, "unshim") /\ bin' = [bin EXCEPT ![a] = None]
    <3>1. task[p].pc = "unshim"
      BY <2>2 DEF S!At
    <3>2. bin'[a] # KuliExe
      BY <1>4, <2>2, ProfileAssumption DEF ProfileAssumption, KInv, TInv, DiskOK
    <3> QED BY <1>3, <1>4, <1>5, <1>6, <1>7, <3>1, <3>2 DEF Entering, Reenters
  <2> QED BY <1>1, <2>1, <2>2
<1>8. s.pc # "idle"
  BY <1>0, <1>3 DEF S!Active, S!At
<1> QED BY <1>0, <1>1, <1>2, <1>6, <1>7, <1>8, EnterOnward

(* Its entry is made: the shims are there.                                  *)
LEMMA EnterEnters ==
    ASSUME KInv, BInv, NEW p \in Procs, \A q \in Procs \ {p} : ~ S!Active(q), Quiet,
           UNCHANGED <<gens, current, st>>, S!Enter(p)
    PROVE  BInv'
<1>0. /\ RegistryOK /\ S!Active(p) /\ task[p] \in S!Task
      /\ \A q \in Procs \ {p} : task'[q] = task[q]
  BY ScriptureStepTyped, TasksAreOwn DEF KInv, S!Step, RegistryOK
<1>1. PICK s : s = [task[p] EXCEPT !.pc = "save", !.reg = S!Registered \cup {task[p].name}]
  OBVIOUS
<1>2. S!Become(p, s) /\ task[p].pc = "shim" /\ UNCHANGED <<registry, bin, mishaps>>
  BY <1>1 DEF S!Enter, S!At
<1>3. s.pc = "save" /\ s.name = task[p].name
  BY <1>0, <1>1 DEF S!Task
<1>4. \A x \in Aliases : Resolves(x)' = Resolves(x)
  BY <1>2, ResolvesKept
<1>5. ASSUME mishaps' = 0 PROVE registry # Torn /\ Entering(task[p])
  BY <1>0, <1>2, <1>5, EnterFinds
<1>6. mishaps' = 0 => Entering(s)'
  BY <1>2, <1>3, <1>4, <1>5 DEF Entering, Reenters
<1> QED BY <1>0, <1>2, <1>3, <1>5, <1>6, EnterOnward

(* The registry is saved: what resolved the shims is there, or the shims    *)
(* are gone.                                                                *)
LEMMA EnterSaves ==
    ASSUME KInv, BInv, NEW p \in Procs, \A q \in Procs \ {p} : ~ S!Active(q), Quiet,
           UNCHANGED <<gens, current, st>>, S!Save(p), \A k : ~ S!Mishap(k)
    PROVE  BInv'
<1>0. /\ RegistryOK /\ S!Active(p) /\ task[p] \in S!Task /\ Holds(p)
      /\ \A q \in Procs \ {p} : task'[q] = task[q]
  BY ScriptureStepTyped, TasksAreOwn DEF KInv, S!Step, RegistryOK
<1>1. registry' = task[p].reg /\ S!End(p, "ok") /\ UNCHANGED <<bin, mishaps>>
  BY DEF S!Save
<1>2. PICK s : s = S!Ended("ok")
  OBVIOUS
<1>3. s.pc = "idle" /\ S!Become(p, s)
  BY <1>1, <1>2 DEF S!End, S!Ended
<1>4. registry' # Torn
  BY <1>0, <1>1, KuliAssumption DEF S!Task, KuliAssumption
<1>5. ASSUME mishaps' = 0, NEW a \in Aliases, Reenters(a)' PROVE Resolves(a)'
  <2>1. Entering(task[p]) /\ Reenters(a)
    BY <1>0, <1>1, <1>5, EnterFinds DEF Reenters
  <2>2. GenerationHas(a) => Resolves(a)'
    BY DEF Resolves, GenerationHas, Loadable
  <2>3. S!Registered' = task[p].reg
    BY <1>1, <1>4 DEF S!Registered
  <2>4. CASE S!At(p, "save")
    <3>1. InstalledFor(a) => InstalledFor(a)'
      BY <1>0, <2>3, <2>4 DEF InstalledFor, Holds
    <3>2. a \in BasenamesOf[task[p].name] => InstalledFor(a)'
      BY <1>0, <2>3, <2>4 DEF InstalledFor, Holds
    <3>3. Resolves(a) \/ a \in BasenamesOf[task[p].name]
      BY <2>1, <2>4 DEF Entering, S!At
    <3> QED BY <2>2, <3>1, <3>2, <3>3 DEF Resolves
  <2>5. CASE S!At(p, "unshim") /\ task[p].todo = {}
    <3>1. Resolves(a) /\ a \notin BasenamesOf[task[p].name]
      BY <2>1, <2>5 DEF Entering, S!At
    <3>2. InstalledFor(a) => InstalledFor(a)'
      BY <1>0, <2>3, <2>5, <3>1 DEF InstalledFor, Holds
    <3> QED BY <2>2, <3>1, <3>2 DEF Resolves
  <2> QED BY <2>4, <2>5 DEF S!Save, S!Saving
<1>6. mishaps' = 0 => NoneDangles'
  BY <1>5 DEF NoneDangles
<1> QED BY <1>0, <1>3, <1>4, <1>6, EnterOnward

(* No step of a scripture command breaks it.                                *)
LEMMA EnterStep ==
    ASSUME KInv, BInv, NEW p \in Procs, ScriptureAct(p) PROVE BInv'
<1>1. /\ UNCHANGED <<gens, current, st>>
      /\ S!Command(p) \/ S!Step(p) \/ S!Crash(p)
      /\ Quiet /\ \A q \in Procs \ {p} : ~ S!Active(q)
  BY ScriptureActs
<1>2. CASE \E k : S!Mishap(k)
  BY <1>2, NoMishapS DEF BInv, KInv
<1>3. CASE \A k : ~ S!Mishap(k)
  <2>1. CASE S!Step(p)
    BY <1>1, <1>3, <2>1, EnterShims, EnterEnters, EnterSaves DEF S!Step
  <2>2. CASE S!Crash(p)
    BY <1>3, <2>2 DEF S!Crash
  <2>3. CASE S!Command(p) /\ ~ S!Step(p) /\ ~ S!Crash(p)
    <3>1. AllQuiet
      BY <2>3 DEF ScriptureAct
    <3> QED BY <1>1, <2>3, <3>1, EnterCommand DEF AllQuiet, S!Quiet
  <2> QED BY <1>1, <2>1, <2>2, <2>3
<1> QED BY <1>2, <1>3

(* No alias dangles at the start ...                                        *)
LEMMA BasenamesInit == KuliInit => BInv
<1> SUFFICES ASSUME KuliInit PROVE BInv
  OBVIOUS
<1>1. \A p \in Procs : st[p].pc = "idle" /\ task[p].pc = "idle"
  BY DEF KuliInit, Init, S!Init, Exited, S!Ended
<1>2. NoneDangles
  BY ProfileAssumption DEF ProfileAssumption, KuliInit, Init, NoneDangles, Reenters
<1>3. registry # Torn
  BY KuliAssumption DEF KuliAssumption, KuliInit, S!Init
<1> QED BY <1>1, <1>2, <1>3 DEF BInv, S!Active, S!At, Projecting, Removing, Writing

(* ... nor after a step of either kind ...                                  *)
LEMMA BasenamesStep == KInv /\ BInv /\ [KuliNext]_kuliVars => BInv'
<1> SUFFICES ASSUME KInv, BInv, [KuliNext]_kuliVars PROVE BInv'
  OBVIOUS
<1>1. CASE UNCHANGED kuliVars
  BY <1>1 DEF kuliVars, vars, disk, BInv, Switching, Entering, NoneDangles, Reenters, Resolves,
     InstalledFor, GenerationHas, Loadable, S!Registered, S!Active, S!At, S!Quiet
<1>2. ASSUME NEW p \in Procs, ProfileAct(p) PROVE BInv'
  BY <1>2, SwitchStep
<1>3. ASSUME NEW p \in Procs, ScriptureAct(p) PROVE BInv'
  BY <1>3, EnterStep
<1> QED BY <1>1, <1>2, <1>3 DEF KuliNext

(* ... and at rest that is the property.                                    *)
LEMMA BasenamesHold == KInv /\ BInv => BasenamesResolve
<1> SUFFICES ASSUME KInv, BInv PROVE BasenamesResolve
  OBVIOUS
<1>1. TypeOK
  BY DEF KInv, TInv, DiskOK, MemoryOK, TypeOK
<1>2. S!TypeOK
  BY DEF KInv, RegistryOK, TInv, DiskOK, S!TypeOK
<1>3. ASSUME AllQuiet, mishaps = 0 PROVE NoneDangles
  <2>1. \A p \in Procs : st[p].pc \notin Projecting
    BY <1>3 DEF AllQuiet, Quiet, Active, At, Projecting, Removing, Writing
  <2> QED BY <1>3, <2>1 DEF BInv, AllQuiet
<1> QED BY <1>1, <1>2, <1>3 DEF BasenamesResolve, NoneDangles, Reenters

(* An alias whose shim runs kuli again resolves: for any number of commands *)
(* on profiles and scriptures, one at a time and without a mishap, no order *)
(* of them leaves a shim whose basename the dispatch of main.cpp does not   *)
(* know.                                                                    *)
THEOREM BasenamesAlwaysResolve == KuliSpec => []BasenamesResolve
<1>1. KuliInit => KInv /\ BInv
  BY KuliStarts, BasenamesInit
<1>2. KInv /\ BInv /\ [KuliNext]_kuliVars => (KInv /\ BInv)'
  BY KuliSteps, BasenamesStep
<1>3. KInv /\ BInv => BasenamesResolve
  BY BasenamesHold
<1> QED BY <1>1, <1>2, <1>3, PTL DEF KuliSpec

(* A scripture command takes no entry but its own from the registry,        *)
(* whatever fails: an entry of another is never lost between the read and   *)
(* the save.                                                                *)
THEOREM RegistryOnlyLosesItsEntry == KuliSpec => RegistryAdditive
<1>1. KInv /\ [KuliNext]_kuliVars => [EntryStep]_kuliVars
  BY AdditiveNext DEF EntryStep
<1> QED BY <1>1, KuliStarts, KuliSteps, PTL DEF KuliSpec, RegistryAdditive

-----------------------------------------------------------------------------
(* With scripture commands in between, the generations still are the log of *)
(* GenerationLog: they never touch a manifest nor current.json.             *)
THEOREM KuliRefinesLog == KuliSpec => ImplementsGenerationLog
<1>1. KuliInit => Log!Init
  BY ProfileAssumption DEF ProfileAssumption, KuliInit, Init, Log!Init, Log!Ids, Ids
<1>2. KInv /\ [KuliNext]_kuliVars => [Log!Next]_<<Hist, current>>
  <2> SUFFICES ASSUME KInv, [KuliNext]_kuliVars PROVE Log!Next \/ UNCHANGED <<Hist, current>>
    OBVIOUS
  <2>1. CASE UNCHANGED kuliVars
    BY <2>1 DEF kuliVars, vars, disk, Hist
  <2>2. ASSUME NEW p \in Procs, ProfileAct(p) PROVE Log!Next \/ UNCHANGED <<Hist, current>>
    BY <2>2, ProfileActs, LogStep DEF SerialNext, KInv
  <2>3. ASSUME NEW p \in Procs, ScriptureAct(p) PROVE UNCHANGED <<Hist, current>>
    BY <2>3, ScriptureActs DEF Hist
  <2> QED BY <2>1, <2>2, <2>3 DEF KuliNext
<1>3. KInv /\ [KuliNext]_kuliVars
      => [Log!Next]_<<[i \in Ids |-> IF gens[i] = Torn THEN None ELSE gens[i]], current>>
  BY <1>2 DEF Hist
<1> QED BY <1>1, <1>3, KuliStarts, KuliSteps, PTL DEF KuliSpec, ImplementsGenerationLog, Log!Spec
=============================================================================
