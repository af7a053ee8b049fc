----------------------------- MODULE Scripture ------------------------------
(***************************************************************************)
(* libs/kuli-bp/src/scripture.cpp: installing and uninstalling the built-in *)
(* scriptures.  A scripture provides basenames; each gets a shim in         *)
(* ~/.local/bin that re-enters kuli, and a registry file, apart from the    *)
(* profile generations, says which scripture answers.  The registry is read,*)
(* changed in memory and written back whole, with no lock.                  *)
(***************************************************************************)
EXTENDS Naturals

CONSTANTS Procs,        \* kuli processes
          Scriptures,   \* the built-in scriptures
          Aliases,      \* names in ~/.local/bin
          BasenamesOf,  \* the aliases each scripture provides
          Shims,        \* what the shims of other parts of kuli may run
          KuliExe,      \* what a basename shim runs
          Faults,       \* the mishaps that may happen: a set of kinds
          MaxMishaps,   \* bound on their number
          None,         \* no shim
          Torn          \* truncated, not (fully) written

VARIABLES registry,  \* the names in scriptures.json, or Torn
          bin,       \* what each shim in ~/.local/bin runs
          task,      \* each process: where it is and what it has read
          mishaps    \* crashes and failed writes so far

vars == <<registry, bin, task, mishaps>>

Task == [pc : {"idle", "shim", "unshim", "save"}, name : Scriptures \cup {None},
         reg : SUBSET Scriptures, todo : SUBSET Aliases, ret : {"none", "ok", "fail"}]

Ended(r) == [pc |-> "idle", name |-> None, reg |-> {}, todo |-> {}, ret |-> r]

TypeOK == /\ registry \in (SUBSET Scriptures) \cup {Torn}
          /\ bin \in [Aliases -> Shims \cup {KuliExe, None, Torn}]
          /\ task \in [Procs -> Task]
          /\ mishaps \in 0 .. MaxMishaps

Init == /\ registry = {}
        /\ bin = [a \in Aliases |-> None]
        /\ task = [p \in Procs |-> Ended("none")]
        /\ mishaps = 0

-----------------------------------------------------------------------------
At(p, l)     == task[p].pc = l
Become(p, s) == task' = [task EXCEPT ![p] = s]
End(p, r)    == Become(p, Ended(r))
Active(p)    == ~ At(p, "idle")

(* As in Profile: "realize", "disk", "flush" and "crash".                   *)
Mishap(kind) == kind \in Faults /\ mishaps < MaxMishaps /\ mishaps' = mishaps + 1

(* load_registry: what does not parse is an empty registry.                 *)
Registered == IF registry = Torn THEN {} ELSE registry

(* Install: the store first (Store models it; it may fail).                 *)
Install(p, n) ==
    /\ At(p, "idle")
    /\ \/ /\ Become(p, [Ended("none") EXCEPT !.pc = "shim", !.name = n, !.todo = BasenamesOf[n]])
          /\ UNCHANGED mishaps
       \/ Mishap("realize") /\ End(p, "fail")
    /\ UNCHANGED <<registry, bin>>

(* Then the shims; the first that cannot be written ends the install.       *)
WriteShim(p) ==
    /\ At(p, "shim")
    /\ \E a \in task[p].todo :
         \/ /\ bin' = [bin EXCEPT ![a] = KuliExe]
            /\ Become(p, [task[p] EXCEPT !.todo = @ \ {a}])
            /\ UNCHANGED mishaps
         \/ /\ Mishap("flush")
            /\ bin' = [bin EXCEPT ![a] = Torn]
            /\ Become(p, [task[p] EXCEPT !.todo = @ \ {a}])
         \/ /\ Mishap("disk")
            /\ \E left \in {bin[a], Torn} : bin' = [bin EXCEPT ![a] = left]
            /\ End(p, "fail")
    /\ UNCHANGED registry

(* Mutants: an unreadable registry is an error; the registry is not read    *)
(* again, it holds just this scripture.                                     *)
EnterIfReadable(p) ==
    /\ At(p, "shim")
    /\ task[p].todo = {}
    /\ IF registry = Torn THEN End(p, "fail")
       ELSE Become(p, [task[p] EXCEPT !.pc = "save", !.reg = registry \cup {task[p].name}])
    /\ UNCHANGED <<registry, bin, mishaps>>

Overwrite(p) ==
    /\ At(p, "shim")
    /\ task[p].todo = {}
    /\ Become(p, [task[p] EXCEPT !.pc = "save", !.reg = {task[p].name}])
    /\ UNCHANGED <<registry, bin, mishaps>>

(* Then the registry is loaded and the entry added in memory.               *)
Enter(p) ==
    /\ At(p, "shim")
    /\ task[p].todo = {}
    /\ Become(p, [task[p] EXCEPT !.pc = "save", !.reg = Registered \cup {task[p].name}])
    /\ UNCHANGED <<registry, bin, mishaps>>

(* Uninstall loads the registry first and removes the entry in memory ...   *)
Uninstall(p, n) ==
    /\ At(p, "idle")
    /\ IF n \in Registered
       THEN Become(p, [Ended("none") EXCEPT !.pc = "unshim", !.name = n,
                                           !.reg = Registered \ {n}, !.todo = BasenamesOf[n]])
       ELSE End(p, "fail")
    /\ UNCHANGED <<registry, bin, mishaps>>

(* Mutant: uninstall leaves the shims.                                      *)
KeepShims(p) ==
    /\ At(p, "unshim")
    /\ \E a \in task[p].todo : Become(p, [task[p] EXCEPT !.todo = @ \ {a}])
    /\ UNCHANGED <<registry, bin, mishaps>>

(* ... then removes the shims; whether that worked is not looked at.        *)
RemoveShim(p) ==
    /\ At(p, "unshim")
    /\ \E a \in task[p].todo :
         /\ \/ bin' = [bin EXCEPT ![a] = None] /\ UNCHANGED mishaps
            \/ Mishap("disk") /\ UNCHANGED bin
         /\ Become(p, [task[p] EXCEPT !.todo = @ \ {a}])
    /\ UNCHANGED registry

Saving(p) == At(p, "save") \/ (At(p, "unshim") /\ task[p].todo = {})

(* save_registry truncates the file and writes the whole of it.             *)
Save(p) ==
    /\ Saving(p)
    /\ \/ registry' = task[p].reg /\ End(p, "ok") /\ UNCHANGED mishaps
       \/ Mishap("disk") /\ registry' \in {registry, Torn} /\ End(p, "fail")
       \/ Mishap("flush") /\ registry' = Torn /\ End(p, "ok")
    /\ UNCHANGED bin

(* The process dies, maybe between truncating the registry and writing it.  *)
Crash(p) ==
    /\ Active(p)
    /\ Mishap("crash")
    /\ registry' \in IF Saving(p) THEN {registry, Torn} ELSE {registry}
    /\ End(p, "none")
    /\ UNCHANGED bin

-----------------------------------------------------------------------------
Command(p) == \E n \in Scriptures : Install(p, n) \/ Uninstall(p, n)
Step(p)    == WriteShim(p) \/ Enter(p) \/ RemoveShim(p) \/ Save(p)

Next == \E p \in Procs : Command(p) \/ Step(p) \/ Crash(p)

Spec == Init /\ [][Next]_vars

Quiet == \A q \in Procs : ~ Active(q)

-----------------------------------------------------------------------------
(* Properties.                                                              *)

(* Once the mishaps are over, an install leaves its scripture registered    *)
(* with its shims in place, and so it does after any failed or interrupted  *)
(* command.                                                                 *)
InstallTakesHold ==
    \A p \in Procs : \A n \in Scriptures :
        (At(p, "shim") /\ task[p].name = n /\ task[p].todo = BasenamesOf[n] /\ mishaps = MaxMishaps)
        ~> /\ task[p].ret = "ok" /\ n \in Registered
           /\ \A a \in BasenamesOf[n] : bin[a] = KuliExe

(* And an uninstall leaves neither entry nor shim.                          *)
UninstallTakesHold ==
    \A p \in Procs : \A n \in Scriptures :
        (At(p, "unshim") /\ task[p].name = n /\ task[p].todo = BasenamesOf[n] /\ mishaps = MaxMishaps)
        ~> /\ task[p].ret = "ok" /\ n \notin Registered
           /\ \A a \in BasenamesOf[n] : bin[a] = None
=============================================================================
