------------------------------ MODULE Pipeline ------------------------------
(***************************************************************************)
(* A meshell line, `kuli mesh "@a:cmd | cmd"`: libs/kuli-bp/src/meshell.cpp *)
(* makes a stage of every segment, execute_pipeline (engine.cpp) runs one   *)
(* after the other, here or through a transport, and hands the captured     *)
(* output of each to the next as its input (run_process, process.cpp).      *)
(* A command is known by what it does with its input, data by who wrote it. *)
(***************************************************************************)
EXTENDS Naturals, Sequences, SequencesExt

CONSTANTS Aliases,    \* host aliases
          MaxStages,  \* bound on the stages of a line
          Terminals,  \* what kuli's own standard input may be at the start
          Faults,     \* the mishaps that may happen: a set of kinds
          MaxMishaps, \* bound on their number
          Local,      \* no alias: this host
          Typed,      \* what the user types
          None        \* no data, no host

ASSUME PipelineAssumption ==
    /\ MaxStages \in Nat /\ MaxMishaps \in Nat
    /\ Terminals \subseteq {"silent", "typed", "closed"}

(* "emit" writes something of its own, "copy" what it reads; "filter" reads *)
(* and finds nothing; "missing" is not on the PATH.                         *)
Cmds  == {"emit", "copy", "filter", "missing"}
Stage == [at : Aliases \cup {Local}, cmd : Cmds]
Data  == (1 .. MaxStages) \cup {Typed, None}
Hosts == {"subprocess", "ssh", "bare", None}   \* "bare": ssh without a target
Ran   == [stage : 1 .. MaxStages, input : Data, output : Data]

VARIABLES stages,   \* the stages of the line
          i,        \* the stage whose turn it is
          data,     \* text flowing between stages
          code,     \* the exit code so far
          told,     \* the stages somebody wrote a diagnostic for
          hosts,    \* hosts.json
          terminal, \* kuli's standard input
          ran,      \* auxiliary: the commands that ran, and the output that came back
          mishaps   \* failures so far

vars == <<stages, i, data, code, told, hosts, terminal, ran, mishaps>>

TypeOK ==
    /\ stages \in Seq(Stage) /\ Len(stages) \in 1 .. MaxStages
    /\ i \in 1 .. Len(stages) + 1
    /\ data \in Data /\ code \in {0, 1, 2, 127, 255}
    /\ told \subseteq 1 .. MaxStages
    /\ hosts \in [Aliases -> Hosts]
    /\ terminal \in {"silent", "typed", "closed"}
    /\ ran \in Seq(Ran) /\ mishaps \in 0 .. MaxMishaps

Init ==
    /\ stages \in UNION {[1 .. n -> Stage] : n \in 1 .. MaxStages}
    /\ i = 1 /\ data = None /\ code = 0 /\ told = {} /\ ran = <<>> /\ mishaps = 0
    /\ hosts \in [Aliases -> Hosts]
    /\ terminal \in Terminals

-----------------------------------------------------------------------------
Running   == i <= Len(stages)
IsRemote  == stages[i].at # Local
Host      == hosts[stages[i].at]
Reachable == IF IsRemote THEN Host \in {"subprocess", "ssh"} ELSE TRUE
Reads     == stages[i].cmd \in {"copy", "filter"}

Exit          == IF stages[i].cmd = "filter" THEN 1 ELSE 0
Output(input) == CASE stages[i].cmd = "emit"   -> i
                   [] stages[i].cmd = "copy"   -> input
                   [] OTHER                    -> None

(* "link" (ssh loses its connection), "spawn" (no process can be made),     *)
(* "disk" (the temporary file with the input is not written) and "edit"     *)
(* (another kuli changes hosts.json).                                       *)
Mishap(kind) == kind \in Faults /\ mishaps < MaxMishaps /\ mishaps' = mishaps + 1

(* The end of a stage: what it wrote is the input of the next one.          *)
Finish(exit, written, why) ==
    /\ code' = exit /\ data' = written /\ told' = told \cup why /\ i' = i + 1

Record(input, arrived) == ran' = Append(ran, [stage |-> i, input |-> input, output |-> arrived])

(* run_process gives the child a file with its input, if there is any, and  *)
(* else the standard input of kuli.  On the far side that one is used up:   *)
(* run-ir has read its document from it.                                    *)
FromTerminal == ~ IsRemote /\ data = None /\ Reads
Input        == IF FromTerminal /\ terminal = "typed" THEN Typed ELSE data
Waiting      == Running /\ FromTerminal /\ terminal = "silent"

Drain == terminal' = IF FromTerminal THEN "closed" ELSE terminal

-----------------------------------------------------------------------------
(* Mutant: a refused stage does not count.                                  *)
RefuseKeepingCode ==
    /\ Running /\ ~ Reachable
    /\ Finish(code, None, {i})
    /\ UNCHANGED <<stages, hosts, terminal, ran, mishaps>>

(* Mutant: a refused stage waits for its host.                              *)
RefuseWaiting ==
    /\ Running /\ ~ Reachable
    /\ told' = told \cup {i}
    /\ UNCHANGED <<stages, i, data, code, hosts, terminal, ran, mishaps>>

(* route_remote: an unknown alias, or a host without a target.              *)
Refuse ==
    /\ Running /\ ~ Reachable
    /\ Finish(2, None, {i})
    /\ UNCHANGED <<stages, hosts, terminal, ran, mishaps>>

(* A command that is not on the PATH: on Windows it is not launched, else   *)
(* the forked child ends with the same code and says nothing.               *)
Unlaunched ==
    /\ Running /\ Reachable /\ stages[i].cmd = "missing"
    /\ \E why \in {{}, {i}} : Finish(127, None, why)
    /\ UNCHANGED <<stages, hosts, terminal, ran, mishaps>>

NoProcess ==
    /\ Running /\ Reachable /\ Mishap("spawn")
    /\ Finish(127, None, {i})
    /\ UNCHANGED <<stages, hosts, terminal, ran>>

(* The command runs.                                                        *)
Run ==
    /\ Running /\ Reachable /\ ~ Waiting /\ stages[i].cmd # "missing"
    /\ Finish(Exit, Output(Input), {})
    /\ Record(Input, Output(Input))
    /\ Drain
    /\ UNCHANGED <<stages, hosts, mishaps>>

(* The input did not get into its file: a command here reads nothing, the   *)
(* far kuli a document that is no JSON.                                     *)
InputLost ==
    /\ Running /\ Reachable /\ Mishap("disk")
    /\ \/ /\ IsRemote /\ Finish(1, None, {i}) /\ UNCHANGED ran
       \/ /\ ~ IsRemote /\ data # None /\ stages[i].cmd # "missing"
          /\ Finish(Exit, Output(None), {}) /\ Record(None, Output(None))
    /\ UNCHANGED <<stages, hosts, terminal>>

(* Mutant: a lost stage leaves the input to the next one.                   *)
LinkLostPassing ==
    /\ Running /\ IsRemote /\ Host = "ssh" /\ Mishap("link")
    /\ Finish(255, data, {i})
    /\ \/ UNCHANGED ran
       \/ stages[i].cmd # "missing" /\ Record(data, None)
    /\ UNCHANGED <<stages, hosts, terminal>>

(* Mutant: a lost stage is tried again.                                     *)
LinkLostRetried ==
    /\ Running /\ IsRemote /\ Host = "ssh" /\ Mishap("link")
    /\ \/ UNCHANGED ran
       \/ stages[i].cmd # "missing" /\ Record(data, None)
    /\ UNCHANGED <<stages, i, data, code, told, hosts, terminal>>

(* ssh ends with 255; the command may have run all the same.                *)
LinkLost ==
    /\ Running /\ IsRemote /\ Host = "ssh" /\ Mishap("link")
    /\ Finish(255, None, {i})
    /\ \/ UNCHANGED ran
       \/ stages[i].cmd # "missing" /\ Record(data, None)
    /\ UNCHANGED <<stages, hosts, terminal>>

(* The world: the user types, another kuli edits the registry, which every  *)
(* stage reads anew.                                                        *)
UserTypes ==
    /\ terminal = "silent"
    /\ terminal' \in {"typed", "closed"}
    /\ UNCHANGED <<stages, i, data, code, told, hosts, ran, mishaps>>

HostEdited(a, h) ==
    /\ Running /\ Mishap("edit")
    /\ hosts' = [hosts EXCEPT ![a] = h]
    /\ UNCHANGED <<stages, i, data, code, told, terminal, ran>>

Step == Refuse \/ Unlaunched \/ NoProcess \/ Run \/ InputLost \/ LinkLost

Next == Step \/ UserTypes \/ \E a \in Aliases, h \in Hosts : HostEdited(a, h)

Spec == Init /\ [][Next]_vars

(* Commands end; nobody is bound to type.                                   *)
FairSpec == Spec /\ WF_vars(Step)

-----------------------------------------------------------------------------
(* Properties.                                                              *)
CameBack(s) == {ran[k].output : k \in {k \in DOMAIN ran : ran[k].stage = s}}

(* engine.cpp: "feeding each stage's stdout into the next stage's stdin".   *)
(* What a stage after the first reads is what came back from the stage      *)
(* before it; if that was nothing, maybe what the user types; and what came *)
(* back is lost in a mishap only.  Well-typed state is part of it.          *)
StageFed == TypeOK /\
    \A k \in DOMAIN ran : LET from == CameBack(ran[k].stage - 1) IN
       ran[k].stage > 1 =>
          \/ ran[k].input \in from
          \/ ran[k].input = Typed /\ from \subseteq {None}
          \/ ran[k].input = None /\ (from = {} \/ mishaps > 0)

(* The exit code is about the last stage alone: success means that its      *)
(* command ran, succeeded, and what it wrote is what kuli prints.           *)
Verdict ==
    (~ Running /\ code = 0) =>
       /\ ran # <<>> /\ Last(ran).stage = Len(stages) /\ Last(ran).output = data
       /\ stages[Len(stages)].cmd \in {"emit", "copy"}

(* Whatever a later stage makes of the exit code, a stage whose command did *)
(* not run is told of, or its command is not on the PATH; and a stage runs  *)
(* its command at most once, a lost connection or not.                      *)
NothingHidden ==
    /\ \A k, l \in DOMAIN ran : ran[k].stage = ran[l].stage => k = l
    /\ \A s \in 1 .. i - 1 : \/ s \in told \/ stages[s].cmd = "missing"
                           \/ \E k \in DOMAIN ran : ran[k].stage = s
=============================================================================
