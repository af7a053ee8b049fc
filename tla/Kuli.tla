-------------------------------- MODULE Kuli --------------------------------
(***************************************************************************)
(* The profile and the scripture registry together.  They are separate      *)
(* records, each with its commands, of one directory: both write and remove *)
(* shims in ~/.local/bin, and resolve_basename, which a basename shim       *)
(* re-enters, reads both.                                                   *)
(***************************************************************************)
EXTENDS Profile

CONSTANTS Scriptures, BasenamesOf

ASSUME KuliAssumption == /\ BasenamesOf \in [Scriptures -> SUBSET Aliases]
                         /\ \A names \in SUBSET Scriptures : names # Torn

VARIABLES registry, task

S == INSTANCE Scripture WITH Shims <- Derivs

kuliVars == <<vars, registry, task>>

KuliInit == Init /\ S!Init

(* A process runs one command, of the profile or of the registry.  These    *)
(* are the behaviours of one command at a time.                             *)
AllQuiet == Quiet /\ S!Quiet

ProfileAct(p) == /\ (AllQuiet /\ Command(p)) \/ Step(p) \/ Crash(p)
                 /\ UNCHANGED <<registry, task>>
ScriptureAct(p) == /\ (AllQuiet /\ S!Command(p)) \/ S!Step(p) \/ S!Crash(p)
                   /\ UNCHANGED <<gens, current, file, bak, realized, lock, st>>

KuliNext == \E p \in Procs : ProfileAct(p) \/ ScriptureAct(p)

KuliSpec == KuliInit /\ [][KuliNext]_kuliVars

(* A running process keeps running; nobody is obliged to start or to crash. *)
RegistryStep(p) == S!Step(p) /\ UNCHANGED <<gens, current, file, bak, realized, lock, st>>
KuliFairSpec    == KuliSpec /\ \A p \in Procs : WF_kuliVars(RegistryStep(p))

-----------------------------------------------------------------------------
(* find_basename and resolve_basename: the registry is asked first, then    *)
(* the current generation.                                                  *)
InstalledFor(a)  == \E n \in S!Registered : a \in BasenamesOf[n]
GenerationHas(a) == Loadable(current) /\ gens[current].shims[a] = KuliExe
Resolves(a)      == InstalledFor(a) \/ GenerationHas(a)

-----------------------------------------------------------------------------
(* Properties.                                                              *)
(* A shim that re-enters kuli finds a scripture to run: between commands    *)
(* none is left dangling, by the commands of either side, unless one of     *)
(* them was cut short (and both sides' state stays well typed).             *)
BasenamesResolve ==
    /\ TypeOK /\ S!TypeOK
    /\ AllQuiet /\ mishaps = 0 => \A a \in Aliases : bin[a] = KuliExe => Resolves(a)

(* What the registry loses is the entry that an uninstall names.            *)
EntryStep ==
    registry' # Torn => \A n \in S!Registered \ (S!Registered)' :
        \E p \in Procs : S!At(p, "unshim") /\ task[p].name = n

(* Profile commands do not touch the registry, registry commands only the   *)
(* entry they name, unless the file is torn.                                *)
RegistryAdditive == [][EntryStep]_kuliVars

(* Once the mishaps are over, an install leaves its scripture registered    *)
(* and shimmed and an uninstall leaves neither entry nor shim (Scripture),  *)
(* whatever the profile has done to ~/.local/bin before.                    *)
RegistryTakesHold == S!InstallTakesHold /\ S!UninstallTakesHold

(* "Additive install record, independent of the bp profile generations":    *)
(* an installed scripture stays reachable whatever the profile does.        *)
InstalledReachable ==
    AllQuiet => \A n \in S!Registered : \A a \in BasenamesOf[n] : bin[a] = KuliExe
=============================================================================
