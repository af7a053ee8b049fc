-------------------------- MODULE EvaluationProofs --------------------------
(* Theorems of Evaluation, for every source of blueprints.                  *)
EXTENDS Evaluation, TLAPS

Call == [key : Names, at : Nat]

(* The call on top of the stack and the statement it is about to execute.   *)
LEMMA CurrentStmt ==
    ASSUME TypeOK, stack # <<>>
    PROVE  /\ depth \in Nat \ {0} /\ top \in Call
           /\ Current.op = "use"    => Current.arg \in Names
           /\ Current.op = "build"  => Current.arg \in Derivs
           /\ Current.op = "return" => Current.arg \in Derivs \cup {None}
<1>1. depth \in Nat \ {0} /\ top \in Call
  <2>1. stack \in Seq(Call)
    BY DEF TypeOK, Call
  <2>2. Len(stack) \in Nat /\ Len(stack) # 0
    BY <2>1
  <2> QED BY <2>1, <2>2 DEF depth, top
<1>2. CASE top.at \in DOMAIN Body
  <2>1. Current = Body[top.at]
    BY <1>2 DEF Current
  <2>2. prog \in Programs /\ top.key \in Names
    BY <1>1 DEF TypeOK, Call
  <2>3. Body[top.at] \in Stmt
    BY <1>2, <2>2, EvaluationAssumption DEF EvaluationAssumption, Body
  <2> QED BY <1>1, <2>1, <2>3 DEF Stmt
<1>3. CASE top.at \notin DOMAIN Body
  BY <1>1, <1>3 DEF Current
<1> QED BY <1>2, <1>3

(* A statement done: the calls on the stack are the same.                   *)
LEMMA AdvanceKeeps ==
    ASSUME NEW s \in Seq(Call), s # <<>>
    PROVE  /\ Advance(s) \in Seq(Call)
           /\ Len(Advance(s)) = Len(s)
           /\ \A i \in 1 .. Len(s) : Advance(s)[i].key = s[i].key
<1> DEFINE n == Len(s)
           c == [s[n] EXCEPT !.at = @ + 1]
<1>1. n \in Nat /\ n >= 1 /\ \A i \in 1 .. n : s[i] \in Call
  OBVIOUS
<1>2. c \in Call /\ c.key = s[n].key
  BY <1>1 DEF Call
<1>3. Advance(s) = [s EXCEPT ![n] = c]
  BY DEF Advance
<1> HIDE DEF c
<1>4. [s EXCEPT ![n] = c] \in Seq(Call) /\ Len([s EXCEPT ![n] = c]) = n
  BY <1>1, <1>2
<1>5. \A i \in 1 .. n : [s EXCEPT ![n] = c][i].key = s[i].key
  BY <1>1, <1>2
<1> QED BY <1>3, <1>4, <1>5

(* The siblings being called, from a stack.                                 *)
Keys(s)     == {s[i].key : i \in 2 .. Len(s)}
Distinct(s) == \A i, j \in 2 .. Len(s) : s[i].key = s[j].key => i = j

(* A call pushed.                                                           *)
LEMMA PushKeys ==
    ASSUME NEW s \in Seq(Call), s # <<>>, NEW k \in Names \ Keys(s), Distinct(s)
    PROVE  LET t == Append(s, Frame(k)) IN
           t \in Seq(Call) /\ t # <<>> /\ Keys(t) = Keys(s) \cup {k} /\ Distinct(t)
<1> DEFINE t == Append(s, Frame(k))
           n == Len(s)
<1>1. Frame(k) \in Call /\ Frame(k).key = k
  BY DEF Frame, Call
<1>2. n \in Nat \ {0}
  OBVIOUS
<1>3. t \in Seq(Call) /\ Len(t) = n + 1 /\ t[n + 1] = Frame(k)
  BY <1>1, <1>2
<1>4. \A i \in 1 .. n : t[i] = s[i]
  BY <1>1, <1>2
<1>5. t # <<>>
  BY <1>2, <1>3
<1> HIDE DEF t
<1>6. Keys(t) = Keys(s) \cup {k}
  <2>1. 2 .. Len(t) = (2 .. n) \cup {n + 1}
    BY <1>2, <1>3
  <2> QED BY <2>1, <1>1, <1>2, <1>3, <1>4 DEF Keys
<1>7. Distinct(t)
  BY <1>1, <1>2, <1>3, <1>4 DEF Keys, Distinct
<1> QED BY <1>3, <1>5, <1>6, <1>7 DEF t

(* A call popped.                                                           *)
LEMMA PopKeys ==
    ASSUME NEW s \in Seq(Call), Len(s) > 1, Distinct(s)
    PROVE  LET t == SubSeq(s, 1, Len(s) - 1) IN
           t \in Seq(Call) /\ t # <<>> /\ Keys(t) = Keys(s) \ {s[Len(s)].key} /\ Distinct(t)
<1> DEFINE n == Len(s)
           t == SubSeq(s, 1, n - 1)
<1>1. n \in Nat /\ n > 1
  OBVIOUS
<1>2. t \in Seq(Call) /\ Len(t) = n - 1 /\ \A i \in 1 .. n - 1 : t[i] = s[i]
  BY <1>1
<1> HIDE DEF t
<1>3. t # <<>>
  <2>1. Len(t) # 0
    BY <1>1, <1>2
  <2> QED BY <2>1
<1>4. Keys(t) = Keys(s) \ {s[n].key}
  <2>1. 2 .. n = (2 .. n - 1) \cup {n} /\ n \notin 2 .. n - 1
    BY <1>1
  <2> QED BY <2>1, <1>1, <1>2, SMTT(20) DEF Keys, Distinct
<1>5. Distinct(t)
  BY <1>1, <1>2 DEF Distinct
<1> QED BY <1>2, <1>3, <1>4, <1>5 DEF t

(* A statement done.                                                        *)
LEMMA AdvanceKeys ==
    ASSUME NEW s \in Seq(Call), s # <<>>, Distinct(s)
    PROVE  LET t == Advance(s) IN
           t \in Seq(Call) /\ t # <<>> /\ Keys(t) = Keys(s) /\ Distinct(t)
<1> DEFINE t == Advance(s)
<1>1. t \in Seq(Call) /\ Len(t) = Len(s) /\ \A i \in 1 .. Len(s) : t[i].key = s[i].key
  BY AdvanceKeeps
<1>2. Len(s) \in Nat \ {0}
  OBVIOUS
<1> HIDE DEF t
<1>3. Keys(t) = Keys(s) /\ Distinct(t)
  BY <1>1, <1>2 DEF Keys, Distinct
<1> QED BY <1>1, <1>2, <1>3 DEF t

-----------------------------------------------------------------------------
(* The inductive invariant: types, the main blueprint's call at the bottom  *)
(* of the stack, and the marks of the cycle detection.                      *)
EInv == TypeOK /\ stack # <<>> /\ InProgressIsStack

(* The marks, said of the stack as a value.                                 *)
LEMMA MarksOfStack ==
    InProgressIsStack <=> inProgress = Keys(stack) /\ Distinct(stack)
  BY DEF InProgressIsStack, Calls, Keys, Distinct, depth

(* An evaluation starts in the invariant.                                   *)
LEMMA EInvInit == Init => EInv
<1> SUFFICES ASSUME Init PROVE EInv
  OBVIOUS
<1>1. Frame(Main) \in Call /\ Main \in Names
  BY EvaluationAssumption DEF EvaluationAssumption, Frame, Call
<1>2. stack \in Seq(Call) /\ Len(stack) = 1 /\ stack # <<>>
  BY <1>1 DEF Init
<1>3. verdict \in Codes \cup {"running", "ok"}
  <2>1. prog[Main].scan \in Scans
    BY <1>1, EvaluationAssumption DEF EvaluationAssumption, Init
  <2> QED BY <2>1 DEF Init, LoadError, Scans, Codes
<1>4. TypeOK
  BY <1>2, <1>3 DEF Init, TypeOK, Call
<1>5. inProgress = Keys(stack) /\ Distinct(stack)
  BY <1>2 DEF Init, Keys, Distinct
<1> QED BY <1>2, <1>4, <1>5, MarksOfStack DEF EInv

(* Steps that leave the calls and the marks alone.                          *)
LEMMA EInvSameCalls ==
    ASSUME EInv, UNCHANGED <<prog, inProgress>>,
           stack' = stack \/ stack' = Advance(stack),
           (TypeOK /\ stack # <<>>) => (graph' \subseteq Derivs /\ cache' \subseteq Names
              /\ raising' \in Errors \cup {None} /\ pending' \in Codes \cup {None}
              /\ clock' \in {"running", "expired", "tripped"}
              /\ verdict' \in Codes \cup {"running", "ok"})
    PROVE  EInv'
<1>1. stack \in Seq(Call) /\ stack # <<>> /\ Distinct(stack) /\ inProgress = Keys(stack)
  BY MarksOfStack DEF EInv, TypeOK, Call
<1>2. stack' \in Seq(Call) /\ stack' # <<>> /\ Distinct(stack') /\ Keys(stack') = Keys(stack)
  BY <1>1, AdvanceKeys
<1>3. TypeOK'
  BY <1>2 DEF EInv, TypeOK, Call
<1>4. InProgressIsStack'
  BY <1>1, <1>2 DEF InProgressIsStack, Calls, Keys, Distinct, depth
<1> QED BY <1>2, <1>3, <1>4 DEF EInv

(* Steps that end the call on top, with a value or with an error.           *)
LEMMA EInvPop ==
    ASSUME EInv, UNCHANGED <<prog, graph, clock, verdict>>, depth > 1,
           stack' = Below \/ stack' = Advance(Below), inProgress' = inProgress \ {top.key},
           cache' \subseteq Names, raising' \in Errors \cup {None}, pending' \in Codes \cup {None}
    PROVE  EInv'
<1>1. stack \in Seq(Call) /\ Distinct(stack) /\ inProgress = Keys(stack) /\ Len(stack) > 1
  BY MarksOfStack DEF EInv, TypeOK, Call, depth
<1>2. Below \in Seq(Call) /\ Below # <<>> /\ Distinct(Below) /\ Keys(Below) = Keys(stack) \ {top.key}
  BY <1>1, PopKeys DEF Below, top, depth
<1>3. stack' \in Seq(Call) /\ stack' # <<>> /\ Distinct(stack') /\ Keys(stack') = Keys(Below)
  BY <1>2, AdvanceKeys
<1>4. TypeOK'
  BY <1>3 DEF EInv, TypeOK, Call
<1>5. InProgressIsStack'
  BY <1>1, <1>2, <1>3 DEF InProgressIsStack, Calls, Keys, Distinct, depth
<1> QED BY <1>3, <1>4, <1>5 DEF EInv

(* Every step keeps the invariant.                                          *)
LEMMA EInvNext == EInv /\ [Next]_vars => EInv'
<1> SUFFICES ASSUME EInv, [Next]_vars PROVE EInv'
  OBVIOUS
<1> USE DEF EInv
<1>1. TypeOK /\ stack # <<>>
  OBVIOUS
<1>2. CASE UseCached
  BY <1>2, EInvSameCalls DEF UseCached, TypeOK
<1>3. CASE UseCycle
  BY <1>3, EInvSameCalls DEF UseCycle, Raise, Errors, TypeOK
<1>4. CASE UseRefused
  <2>1. prog[Current.arg].scan \in Scans \ {"fine"}
    BY <1>1, <1>4, CurrentStmt, EvaluationAssumption
       DEF EvaluationAssumption, UseRefused, Running, TypeOK
  <2>2. raising' \in Errors /\ pending' \in Codes \cup {None}
    BY <2>1, <1>4 DEF UseRefused, Raise, Errors, Codes, Scans, TypeOK
  <2> QED BY <2>2, <1>4, EInvSameCalls DEF UseRefused, TypeOK
<1>5. CASE UseCall
  <2>1. Current.arg \in Names \ Keys(stack)
    BY <1>1, <1>5, CurrentStmt, MarksOfStack DEF UseCall, Running
  <2>2. stack \in Seq(Call) /\ Distinct(stack) /\ inProgress = Keys(stack)
    BY MarksOfStack DEF TypeOK, Call
  <2>3. /\ stack' \in Seq(Call) /\ stack' # <<>> /\ Distinct(stack')
        /\ Keys(stack') = Keys(stack) \cup {Current.arg}
    BY <2>1, <2>2, <1>1, <1>5, PushKeys DEF UseCall
  <2>4. TypeOK'
    BY <2>1, <2>3, <1>5 DEF UseCall, TypeOK, Call
  <2>5. InProgressIsStack'
    BY <2>2, <2>3, <1>5 DEF UseCall, InProgressIsStack, Calls, Keys, Distinct, depth
  <2> QED BY <2>3, <2>4, <2>5
<1>6. CASE Build
  BY <1>1, <1>6, CurrentStmt, EInvSameCalls DEF Build, Running, Raise, Errors, TypeOK
<1>7. CASE Fail
  BY <1>7, EInvSameCalls DEF Fail, Raise, Errors, TypeOK
<1>8. CASE ReturnSibling
  <2>1. top.key \in Names
    BY <1>1, CurrentStmt DEF Call
  <2> QED BY <2>1, <1>8, EInvPop DEF ReturnSibling, Raise, Errors, TypeOK
<1>9. CASE ReturnMain
  BY <1>9, EInvSameCalls DEF ReturnMain, Codes, TypeOK
<1>10. CASE Catch
  BY <1>10, EInvSameCalls DEF Catch, TypeOK
<1>11. CASE Unwind
  BY <1>11, EInvPop DEF Unwind, Codes, TypeOK
<1>12. CASE Abort
  BY <1>12, EInvSameCalls DEF Abort, Codes, TypeOK
<1>13. CASE Interrupt
  BY <1>13, EInvSameCalls DEF Interrupt, Raise, Errors, TypeOK
<1>14. CASE Expire
  BY <1>14, EInvSameCalls DEF Expire, TypeOK
<1>15. CASE UNCHANGED vars
  BY <1>15, EInvSameCalls DEF vars, TypeOK
<1> QED
  BY <1>2, <1>3, <1>4, <1>5, <1>6, <1>7, <1>8, <1>9, <1>10, <1>11, <1>12, <1>13, <1>14, <1>15
     DEF Next, Step

(* The model's variables keep their types.                                  *)
THEOREM TypeCorrect == Spec => []TypeOK
<1>1. EInv => TypeOK
  BY DEF EInv
<1> QED BY <1>1, EInvInit, EInvNext, PTL DEF Spec

(* pkg_index, libs/kuli-luau/src/luau_frontend.cpp: the marks of the cycle  *)
(* detection are the calls on the stack, for every source of blueprints.    *)
THEOREM MarksAreCalls == Spec => []InProgressIsStack
<1>1. EInv => InProgressIsStack
  BY DEF EInv
<1> QED BY <1>1, EInvInit, EInvNext, PTL DEF Spec

-----------------------------------------------------------------------------
(* The graph.                                                               *)
LEMMA GraphStep == TypeOK' /\ stack # <<>> /\ GraphSound /\ [Next]_vars => GraphSound'
<1> SUFFICES ASSUME TypeOK', stack # <<>>, GraphSound, [Next]_vars PROVE GraphSound'
  OBVIOUS
<1>1. CASE graph' = graph
  BY <1>1 DEF GraphSound
<1>2. CASE graph' # graph
  <2>1. Build
    BY <1>2 DEF Next, Step, vars, UseCached, UseCycle, UseRefused, UseCall, Fail, ReturnSibling,
                ReturnMain, Catch, Unwind, Abort, Interrupt, Expire
  <2> DEFINE d == Current.arg
  <2>2. d \notin graph /\ DepsOf[d] \subseteq graph /\ graph' = graph \cup {d}
    BY <2>1, <1>2 DEF Build
  <2> HIDE DEF d
  <2>3. \A x \in graph' : DepsOf[x] \subseteq graph'
    BY <2>2 DEF GraphSound
  <2>4. ASSUME NEW S \in SUBSET graph', S # {}
        PROVE  \E x \in S : DepsOf[x] \cap S = {}
    <3>1. CASE S \subseteq {d}
      BY <3>1, <2>2, <2>4
    <3>2. CASE ~ (S \subseteq {d})
      <4>1. S \ {d} \in SUBSET graph /\ S \ {d} # {}
        BY <3>2, <2>2, <2>4
      <4>2. PICK x \in S \ {d} : DepsOf[x] \cap (S \ {d}) = {}
        BY <4>1 DEF GraphSound
      <4>3. DepsOf[x] \subseteq graph
        BY <4>1 DEF GraphSound
      <4> QED BY <4>2, <4>3, <2>2
    <3> QED BY <3>1, <3>2
  <2> QED BY <2>3, <2>4 DEF GraphSound
<1> QED BY <1>1, <1>2

(* ctx.lib.*: whatever the blueprints do, and whatever errors they catch,   *)
(* the graph is closed under children and has no cycle.                     *)
THEOREM GraphAlwaysSound == Spec => []GraphSound
<1>1. Init => GraphSound
  BY EInvInit DEF Init, GraphSound, EInv
<1>2. EInv /\ GraphSound /\ [Next]_vars => EInv' /\ GraphSound'
  BY EInvNext, GraphStep DEF EInv
<1> QED BY <1>1, <1>2, EInvInit, PTL DEF Spec

(* pkg_index: a sibling is remembered when its evaluation ends well, and    *)
(* never evaluated again.                                                   *)
THEOREM SiblingsOnce == Spec => EvaluatedOnce
<1> DEFINE Once == \A k \in Names :
              /\ k \in cache => k \in cache' /\ (k \in inProgress' => k \in inProgress)
              /\ k \in inProgress \ inProgress' => k \in cache' \/ raising' # None
<1>1. [Next]_vars => [Once]_vars
  <2> SUFFICES ASSUME [Next]_vars PROVE Once
    OBVIOUS
  <2>1. CASE ReturnSibling
    BY <2>1, EvaluationAssumption DEF EvaluationAssumption, Errors, ReturnSibling, Raise, Running
  <2>2. CASE Unwind
    BY <2>2 DEF Unwind, Raised
  <2>3. CASE UseCall
    BY <2>3 DEF UseCall
  <2>4. CASE UNCHANGED <<cache, inProgress>>
    BY <2>4
  <2> QED
    BY <2>1, <2>2, <2>3, <2>4
       DEF Next, Step, vars, UseCached, UseCycle, UseRefused, Build, Fail, ReturnMain, Catch, Abort,
           Interrupt, Expire
<1> QED BY <1>1, PTL DEF Spec, EvaluatedOnce

-----------------------------------------------------------------------------
(* Without a pcall: the diagnostic kept is that of the error being raised,  *)
(* and the clock has tripped only if that is the error.                     *)
Kept ==
    /\ clock = "tripped" <=> raising = "time"
    /\ raising = None => pending = None
    /\ raising = "forbidden" => pending = "E0301"
    /\ raising = "syntax" => pending = "E0101"
    /\ raising \notin {None, "forbidden", "syntax"} => pending \in {None, "E0107"}

KInv == Unguarded => Kept /\ VerdictExplains

LEMMA NothingCaught ==
    ASSUME TypeOK, stack # <<>>, Unguarded PROVE ~ Current.guarded
  BY CurrentStmt DEF Unguarded, Current, Body, Call

LEMMA KInvNext == EInv /\ KInv /\ [Next]_vars => KInv'
<1> SUFFICES ASSUME TypeOK, stack # <<>>, Unguarded, Kept, VerdictExplains, [Next]_vars
             PROVE  Kept' /\ VerdictExplains'
  <2>1. [Next]_vars => (Unguarded' => Unguarded)
    BY DEF Next, Step, vars, UseCached, UseCycle, UseRefused, UseCall, Build, Fail, ReturnSibling,
           ReturnMain, Catch, Unwind, Abort, Interrupt, Expire, Unguarded
  <2> QED BY <2>1 DEF KInv, EInv
<1> USE EvaluationAssumption DEF EvaluationAssumption, Errors, Codes
<1>1. CASE UseCached \/ UseCall \/ UNCHANGED vars
  BY <1>1 DEF UseCached, UseCall, vars, Kept, VerdictExplains, Unguarded
<1>2. CASE UseCycle \/ Fail
  BY <1>2 DEF UseCycle, Fail, Running, Raise, Kept, VerdictExplains, Unguarded
<1>3. CASE UseRefused
  <2>1. prog[Current.arg].scan \in Scans \ {"fine"}
    BY <1>3, CurrentStmt DEF UseRefused, Running, TypeOK
  <2>2. /\ raising = None /\ pending = None /\ verdict = "running"
        /\ clock' = clock /\ verdict' = verdict /\ raising' \in Scans \ {"fine"}
        /\ pending' = CASE raising' = "syntax"    -> "E0101"
                        [] raising' = "forbidden" -> "E0301"
                        [] OTHER                  -> None
    BY <1>3, <2>1 DEF UseRefused, Running, Raise, Kept
  <2> QED BY <2>2 DEF Scans, Kept, VerdictExplains
<1>4. CASE Build
  BY <1>4 DEF Build, Running, Raise, Kept, VerdictExplains, Unguarded
<1>5. CASE ReturnSibling
  BY <1>5 DEF ReturnSibling, Running, Raise, Kept, VerdictExplains, Unguarded
<1>6. CASE ReturnMain
  BY <1>6 DEF ReturnMain, Running, Kept, VerdictExplains
<1>7. ~ Catch
  BY NothingCaught DEF Catch
<1>8. CASE Unwind
  BY <1>8 DEF Unwind, Raised, Kept, VerdictExplains
<1>9. CASE Abort
  BY <1>9 DEF Abort, Raised, Kept, VerdictExplains
<1>10. CASE Expire
  BY <1>10 DEF Expire, Kept, VerdictExplains
<1>11. CASE Interrupt
  BY <1>11 DEF Interrupt, Raise, Kept, VerdictExplains
<1> QED
  BY <1>1, <1>2, <1>3, <1>4, <1>5, <1>6, <1>7, <1>8, <1>9, <1>10, <1>11 DEF Next, Step

(* evaluate(): without a pcall, the diagnostic is that of the error that    *)
(* ended the evaluation, for every source of blueprints.                    *)
THEOREM VerdictAlwaysExplains == Spec => []VerdictExplains
<1>1. Init => KInv
  BY EvaluationAssumption
     DEF EvaluationAssumption, Init, KInv, Kept, VerdictExplains, LoadError, Errors, Scans
<1>2. KInv => VerdictExplains
  BY DEF KInv, VerdictExplains
<1> QED BY <1>1, <1>2, EInvInit, EInvNext, KInvNext, PTL DEF Spec
=============================================================================
