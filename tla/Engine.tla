------------------------------- MODULE Engine -------------------------------
(***************************************************************************)
(* Engine::execute (libs/kuli-engine/src/engine.cpp) on a flat document: a  *)
(* line of commands (Pipeline) or a question (Query). Documents with        *)
(* derivations are in ApplyPlan.                                            *)
(***************************************************************************)
EXTENDS Pipeline, Query

(* The other one is not there: a line that has ended, no question.          *)
NoLine ==
    /\ stages = <<[at |-> Local, cmd |-> "missing"]>>
    /\ i = 2 /\ data = None /\ code = 127 /\ told = {1} /\ ran = <<>> /\ mishaps = 0
    /\ hosts = [a \in Aliases |-> None] /\ terminal = "closed"

NoQuestion ==
    /\ asked = None
    /\ phase = "refused" /\ root = 1 /\ entry = 1
    /\ k = 1 /\ p = 1 /\ t = 1 /\ star = 0 /\ mark = 0
    /\ found = {} /\ lines = {} /\ lost = FALSE

EngineInit == \/ Init /\ NoQuestion
              \/ QueryInit /\ NoLine

EngineNext == \/ Next /\ UNCHANGED qvars
              \/ QueryNext /\ UNCHANGED vars

EngineSpec == EngineInit /\ [][EngineNext]_<<vars, qvars>>

(* Commands end and files can be read; nobody is bound to type.             *)
FairEngineSpec == /\ EngineSpec
                  /\ WF_<<vars, qvars>>(Step /\ UNCHANGED qvars)
                  /\ WF_<<vars, qvars>>(QueryNext /\ UNCHANGED vars)

-----------------------------------------------------------------------------
Asking == phase \notin {"answered", "refused"}

(* A line ends, unless a command waits for the user to type; a question is  *)
(* answered, however often a glob is tried again from its last "*".         *)
EndsOrWaits == (Running \/ Asking) ~> (~ (Running \/ Asking) \/ Waiting)
=============================================================================
