----------------------------- MODULE Evaluation -----------------------------
(***************************************************************************)
(* libs/kuli-luau/src/luau_frontend.cpp: the evaluation of a blueprint to a *)
(* graph of derivations.  The main blueprint and the siblings it reaches    *)
(* through ctx.pkgs run in one VM; pkg_index evaluates a sibling the first  *)
(* time it is asked for and remembers what it returned.  Derivations are    *)
(* named by the hash of their inputs, their children's hashes included.     *)
(*                                                                          *)
(* A blueprint is a list of statements: use a sibling, build a derivation,  *)
(* fail, loop for ever, return.  A guarded statement is one under pcall,    *)
(* which the sandbox leaves to blueprints: its error is caught.             *)
(***************************************************************************)
EXTENDS Naturals, Sequences

CONSTANTS Names,     \* the blueprints of the source
          Main,      \* the one to evaluate
          Derivs,    \* derivation hashes
          DepsOf,    \* components, requires and base of each derivation
          Programs,  \* what the files of the source may contain
          None       \* not a derivation; no diagnostic

Scans == {"fine", "missing", "syntax", "forbidden", "unloadable"}
Stmt  == [op : {"use"}, arg : Names, guarded : BOOLEAN]
         \cup [op : {"build"}, arg : Derivs, guarded : BOOLEAN]
         \cup [op : {"fail", "spin"}, arg : {None}, guarded : BOOLEAN]
         \cup [op : {"return"}, arg : Derivs \cup {None}, guarded : {FALSE}]
Errors == {"cycle", "missing", "syntax", "forbidden", "unloadable", "unknown", "failed",
           "value", "time"}
Codes  == {"E0100", "E0101", "E0103", "E0104", "E0106", "E0107", "E0108", "E0301", "E0302"}
Blueprint == [scan : Scans, body : Seq(Stmt)]

ASSUME EvaluationAssumption ==
    /\ Main \in Names
    /\ DepsOf \in [Derivs -> SUBSET Derivs]
    /\ None \notin Derivs \cup Errors \cup Codes
    /\ \A p \in Programs : \A k \in Names :
          /\ p[k].scan \in Scans
          /\ \A i \in DOMAIN p[k].body : p[k].body[i] \in Stmt

VARIABLES prog,        \* the source evaluated
          stack,       \* the calls in progress, the main blueprint's first
          graph,       \* the derivations built
          cache,       \* the siblings whose value is remembered
          inProgress,  \* the siblings being evaluated
          raising,     \* the error being raised, or None
          pending,     \* the diagnostic kept for it, or None
          clock,       \* the time budget: running, expired, tripped
          verdict      \* "running", "ok", or the code of the diagnostic

vars == <<prog, stack, graph, cache, inProgress, raising, pending, clock, verdict>>

TypeOK ==
    /\ prog \in Programs
    /\ stack \in Seq([key : Names, at : Nat])
    /\ graph \subseteq Derivs
    /\ cache \subseteq Names
    /\ inProgress \subseteq Names
    /\ raising \in Errors \cup {None}
    /\ pending \in Codes \cup {None}
    /\ clock \in {"running", "expired", "tripped"}
    /\ verdict \in Codes \cup {"running", "ok"}

(* evaluate() scans and loads the main blueprint before it calls it.        *)
LoadError(scan) == CASE scan = "missing"    -> "E0100"
                     [] scan = "syntax"     -> "E0101"
                     [] scan = "forbidden"  -> "E0301"
                     [] scan = "unloadable" -> "E0103"
                     [] scan = "fine"       -> "running"

Frame(k) == [key |-> k, at |-> 1]

Init ==
    /\ prog \in Programs
    /\ stack = <<Frame(Main)>>
    /\ graph = {} /\ cache = {} /\ inProgress = {}
    /\ raising = None /\ pending = None
    /\ clock = "running"
    /\ verdict = LoadError(prog[Main].scan)

-----------------------------------------------------------------------------
depth == Len(stack)
top   == stack[depth]
Body  == prog[top.key].body

(* A body that ends without a return statement returns nothing.             *)
Current == IF top.at \in DOMAIN Body THEN Body[top.at]
           ELSE [op |-> "return", arg |-> None, guarded |-> FALSE]

Running(op) == verdict = "running" /\ raising = None /\ Current.op = op
Below       == SubSeq(stack, 1, depth - 1)
Advance(s)  == [s EXCEPT ![Len(s)].at = @ + 1]
Raise(e)    == raising' = e

(* pkg_index: the value is remembered, the key is being evaluated (an       *)
(* error), or the file is looked up, scanned and called.                    *)
UseCached ==
    /\ Running("use") /\ Current.arg \in cache
    /\ stack' = Advance(stack)
    /\ UNCHANGED <<prog, graph, cache, inProgress, raising, pending, clock, verdict>>

UseCycle ==
    /\ Running("use") /\ Current.arg \notin cache /\ Current.arg \in inProgress
    /\ Raise("cycle")
    /\ UNCHANGED <<prog, stack, graph, cache, inProgress, pending, clock, verdict>>

(* A sibling that cannot be read, parsed, admitted or loaded is an error;   *)
(* two of these replace the diagnostic kept so far.                         *)
UseRefused ==
    /\ Running("use") /\ Current.arg \notin cache \cup inProgress
    /\ LET scan == prog[Current.arg].scan IN
         /\ scan # "fine"
         /\ Raise(scan)
         /\ pending' = CASE scan = "syntax"    -> "E0101"
                         [] scan = "forbidden" -> "E0301"
                         [] OTHER              -> pending
    /\ UNCHANGED <<prog, stack, graph, cache, inProgress, clock, verdict>>

UseCall ==
    /\ Running("use") /\ Current.arg \notin cache \cup inProgress
    /\ prog[Current.arg].scan = "fine"
    /\ inProgress' = inProgress \cup {Current.arg}
    /\ stack' = Append(stack, Frame(Current.arg))
    /\ UNCHANGED <<prog, graph, cache, raising, pending, clock, verdict>>

(* Mutant: children are not looked up in the graph.                         *)
BuildUnchecked ==
    /\ Running("build")
    /\ graph' = graph \cup {Current.arg} /\ stack' = Advance(stack)
    /\ UNCHANGED <<prog, cache, inProgress, raising, pending, clock, verdict>>

(* ctx.lib.*: every child must have been produced in this evaluation.       *)
Build ==
    /\ Running("build")
    /\ IF DepsOf[Current.arg] \subseteq graph
       THEN /\ graph' = graph \cup {Current.arg}
            /\ stack' = Advance(stack)
            /\ UNCHANGED raising
       ELSE Raise("unknown") /\ UNCHANGED <<graph, stack>>
    /\ UNCHANGED <<prog, cache, inProgress, pending, clock, verdict>>

Fail ==
    /\ Running("fail")
    /\ Raise("failed")
    /\ UNCHANGED <<prog, stack, graph, cache, inProgress, pending, clock, verdict>>

(* Mutant: nothing is remembered.                                           *)
ReturnUncached ==
    /\ Running("return") /\ depth > 1
    /\ inProgress' = inProgress \ {top.key}
    /\ stack' = Advance(Below)
    /\ UNCHANGED <<prog, graph, cache, raising, pending, clock, verdict>>

(* A sibling returns; any table will do here, derivation or not.            *)
ReturnSibling ==
    /\ Running("return") /\ depth > 1
    /\ inProgress' = inProgress \ {top.key}
    /\ IF Current.arg = None
       THEN Raise("value") /\ stack' = Below /\ UNCHANGED cache
       ELSE /\ cache' = cache \cup {top.key}
            /\ stack' = Advance(Below)
            /\ UNCHANGED raising
    /\ UNCHANGED <<prog, graph, pending, clock, verdict>>

(* The main blueprint returns the root, which must be in the graph.         *)
ReturnMain ==
    /\ Running("return") /\ depth = 1
    /\ verdict' = IF Current.arg = None THEN "E0104"
                  ELSE IF Current.arg \notin graph THEN "E0108" ELSE "ok"
    /\ UNCHANGED <<prog, stack, graph, cache, inProgress, raising, pending, clock>>

-----------------------------------------------------------------------------
(* Errors.                                                                  *)
Raised == verdict = "running" /\ raising # None

(* pcall catches it and the blueprint goes on; `pending` stays.             *)
Catch ==
    /\ Raised /\ Current.guarded
    /\ raising' = None
    /\ stack' = Advance(stack)
    /\ UNCHANGED <<prog, graph, cache, inProgress, pending, clock, verdict>>

(* Mutant: the error path forgets the mark.                                 *)
UnwindMarked ==
    /\ Raised /\ ~ Current.guarded /\ depth > 1
    /\ stack' = Below
    /\ pending' = IF pending = None THEN "E0107" ELSE pending
    /\ UNCHANGED <<prog, graph, cache, inProgress, raising, clock, verdict>>

(* The call of a sibling ends with the error, which pkg_index raises again  *)
(* in the caller.                                                           *)
Unwind ==
    /\ Raised /\ ~ Current.guarded /\ depth > 1
    /\ inProgress' = inProgress \ {top.key}
    /\ stack' = Below
    /\ pending' = IF pending = None THEN "E0107" ELSE pending
    /\ UNCHANGED <<prog, graph, cache, raising, clock, verdict>>

(* Mutant: a pending diagnostic goes before a tripped clock.                *)
AbortPending ==
    /\ Raised /\ ~ Current.guarded /\ depth = 1
    /\ verdict' = IF pending # None THEN pending
                  ELSE IF clock = "tripped" THEN "E0302" ELSE "E0106"
    /\ UNCHANGED <<prog, stack, graph, cache, inProgress, raising, pending, clock>>

(* It reaches evaluate(), which picks the diagnostic.                       *)
Abort ==
    /\ Raised /\ ~ Current.guarded /\ depth = 1
    /\ verdict' = IF clock = "tripped" THEN "E0302"
                  ELSE IF pending # None THEN pending ELSE "E0106"
    /\ UNCHANGED <<prog, stack, graph, cache, inProgress, raising, pending, clock>>

(* H-1: the deadline passes; the VM notices at the next call or back-edge,  *)
(* raises an error and switches the interrupt off.                          *)
Expire ==
    /\ verdict = "running" /\ clock = "running"
    /\ clock' = "expired"
    /\ UNCHANGED <<prog, stack, graph, cache, inProgress, raising, pending, verdict>>

(* Mutant: the interrupt is not seen while a sibling runs.                  *)
InterruptMain ==
    /\ verdict = "running" /\ raising = None /\ clock = "expired" /\ depth = 1
    /\ clock' = "tripped"
    /\ Raise("time")
    /\ UNCHANGED <<prog, stack, graph, cache, inProgress, pending, verdict>>

Interrupt ==
    /\ verdict = "running" /\ raising = None /\ clock = "expired"
    /\ clock' = "tripped"
    /\ Raise("time")
    /\ UNCHANGED <<prog, stack, graph, cache, inProgress, pending, verdict>>

-----------------------------------------------------------------------------
Step == \/ UseCached \/ UseCycle \/ UseRefused \/ UseCall \/ Build \/ Fail
        \/ ReturnSibling \/ ReturnMain \/ Catch \/ Unwind \/ Abort \/ Interrupt

Next == Step \/ Expire

Spec == Init /\ [][Next]_vars

(* The VM keeps running and so does the clock.  A loop is no step: only the *)
(* interrupt gets past it.                                                  *)
FairSpec == Spec /\ WF_vars(Step) /\ WF_vars(Expire)

-----------------------------------------------------------------------------
(* Properties.                                                              *)

(* What is built is a graph the later stages can walk: children are nodes,  *)
(* and there is no cycle (every set of nodes has one with no child in it).  *)
(* Well-typed state is part of it.                                          *)
GraphSound ==
    /\ TypeOK
    /\ \A d \in graph : DepsOf[d] \subseteq graph
    /\ \A S \in SUBSET graph : S # {} => \E d \in S : DepsOf[d] \cap S = {}

(* The siblings marked as in progress are exactly those on the stack, each  *)
(* once, whatever errors were raised and caught: no cycle is missed, none   *)
(* is reported where there is none, and the recursion is bounded.           *)
Calls == 2 .. depth
InProgressIsStack ==
    /\ inProgress = {stack[i].key : i \in Calls}
    /\ \A i, j \in Calls : stack[i].key = stack[j].key => i = j

(* "pkgs.foo is loaded and evaluated once" (design.md): a sibling whose       *)
(* evaluation ended without an error is remembered, and one that is         *)
(* remembered is never called again.                                        *)
EvaluatedOnce ==
    [][\A k \in Names :
          /\ k \in cache => k \in cache' /\ (k \in inProgress' => k \in inProgress)
          /\ k \in inProgress \ inProgress' => k \in cache' \/ raising' # None]_vars

(* The diagnostic is that of the error that ended the evaluation, if no     *)
(* error was caught on the way (`pending` outlives the error it is about).  *)
Unguarded == \A k \in Names : \A i \in DOMAIN prog[k].body : ~ prog[k].body[i].guarded

VerdictExplains == Unguarded =>
    /\ verdict = "E0301" => raising \in {"forbidden", None}
    /\ verdict = "E0101" => raising \in {"syntax", None}
    /\ verdict = "E0302" => raising = "time"
    /\ verdict \in {"E0106", "E0107"} => raising \notin {"forbidden", "syntax", "time", None}

(* H-1: an evaluation ends, loops and cyclic references included, unless a  *)
(* blueprint catches the end of its time budget.                            *)
TimeCaught     == clock = "tripped" /\ raising = None
EvaluationEnds == <>(verdict # "running" \/ TimeCaught)

(* "Both bound a hostile or buggy blueprint so it can't hang" (the comment  *)
(* on the resource limits): every evaluation ends.                          *)
BudgetBounds == <>(verdict # "running")
=============================================================================
