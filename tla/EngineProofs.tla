----------------------------- MODULE EngineProofs -----------------------------
(***************************************************************************)
(* Of lines of any length, with any number of mishaps: what a stage is fed, *)
(* what the exit code says, and that no stage is lost or run twice. Of a    *)
(* query: glob_match decides Fits for every glob and name, and the walk of  *)
(* collect_paths keeps exactly what is sought.                              *)
(***************************************************************************)
EXTENDS Engine, TLAPS

(* The commands that ran are of stages before the one whose turn it is.     *)
Before == \A c \in DOMAIN ran : ran[c].stage < i

(* What flows is what came back from the stage before, if anything did.     *)
Flows == i > 1 => /\ CameBack(i - 1) \subseteq {data}
                  /\ data # None => CameBack(i - 1) = {data}

(* A code of zero is that of the stage before.                              *)
Succeeded == (i > 1 /\ code = 0) =>
                /\ ran # <<>> /\ ran[Len(ran)].stage = i - 1 /\ ran[Len(ran)].output = data
                /\ stages[i - 1].cmd \in {"emit", "copy"}

Fed == \A c \in DOMAIN ran : LET from == CameBack(ran[c].stage - 1) IN
          ran[c].stage > 1 =>
             \/ ran[c].input \in from
             \/ ran[c].input = Typed /\ from \subseteq {None}
             \/ ran[c].input = None /\ (from = {} \/ mishaps > 0)

PInv == TypeOK /\ Before /\ Flows /\ Succeeded /\ Fed /\ NothingHidden

(* What came back, of a sequence of commands.                               *)
Back(r, s) == {r[c].output : c \in {c \in DOMAIN r : r[c].stage = s}}

LEMMA BackAppend ==
    ASSUME NEW r \in Seq(Ran), NEW x \in Ran, NEW s
    PROVE  Back(Append(r, x), s) = IF x.stage = s THEN Back(r, s) \cup {x.output} ELSE Back(r, s)
<1> DEFINE rr == Append(r, x)
<1>1. /\ Len(r) \in Nat /\ DOMAIN r = 1 .. Len(r) /\ DOMAIN rr = 1 .. Len(r) + 1
      /\ rr[Len(r) + 1] = x /\ \A c \in DOMAIN r : rr[c] = r[c]
  OBVIOUS
<1> HIDE DEF rr
<1>2. \A o : o \in Back(rr, s) <=> \E c \in DOMAIN rr : rr[c].stage = s /\ rr[c].output = o
  BY DEF Back
<1>3. \A o : o \in Back(r, s) <=> \E c \in DOMAIN r : r[c].stage = s /\ r[c].output = o
  BY DEF Back
<1>4. \A c : c \in DOMAIN rr <=> c \in DOMAIN r \/ c = Len(r) + 1
  BY <1>1
<1>5. \A o : o \in Back(rr, s) <=> o \in Back(r, s) \/ (x.stage = s /\ x.output = o)
  BY <1>1, <1>2, <1>3, <1>4
<1> QED BY <1>5 DEF rr

LEMMA CameBackIsBack == \A s : CameBack(s) = Back(ran, s) /\ CameBack(s)' = Back(ran', s)
  BY DEF CameBack, Back

-----------------------------------------------------------------------------
(* A line starts in the invariant.                                          *)
LEMMA PStart == Init => PInv
<1> SUFFICES ASSUME Init PROVE PInv
  OBVIOUS
<1>1. stages \in Seq(Stage) /\ Len(stages) \in 1 .. MaxStages
  <2>1. PICK n \in 1 .. MaxStages : stages \in [1 .. n -> Stage]
    BY DEF Init
  <2>2. MaxStages \in Nat
    BY PipelineAssumption DEF PipelineAssumption
  <2> QED BY <2>1, <2>2
<1>2. TypeOK
  BY <1>1, PipelineAssumption DEF PipelineAssumption, Init, TypeOK, Data
<1>3. Before /\ Flows /\ Succeeded /\ Fed /\ NothingHidden
  BY DEF Init, Before, Flows, Succeeded, Fed, NothingHidden
<1> QED BY <1>2, <1>3 DEF PInv

LEMMA Sizes ==
    ASSUME TypeOK
    PROVE  /\ MaxStages \in Nat /\ MaxMishaps \in Nat /\ mishaps \in Nat /\ i \in Nat /\ i >= 1
           /\ Len(stages) \in Nat /\ DOMAIN stages = 1 .. Len(stages)
           /\ Running => i \in 1 .. Len(stages) /\ i \in 1 .. MaxStages /\ stages[i] \in Stage
           /\ Len(ran) \in Nat /\ DOMAIN ran = 1 .. Len(ran)
           /\ \A c \in DOMAIN ran : ran[c] \in Ran /\ ran[c].stage \in Nat
<1>1. MaxStages \in Nat /\ MaxMishaps \in Nat
  BY PipelineAssumption DEF PipelineAssumption
<1>2. \A c \in DOMAIN ran : ran[c] \in Ran
  BY DEF TypeOK
<1>3. \A c \in DOMAIN ran : ran[c].stage \in Nat
  BY <1>1, <1>2 DEF Ran
<1> QED BY <1>1, <1>2, <1>3 DEF TypeOK, Running

LEMMA Outputs ==
    ASSUME TypeOK, Running, NEW input \in Data
    PROVE  Output(input) \in Data /\ Input \in Data /\ None \in Data
<1>1. i \in 1 .. MaxStages
  BY Sizes
<1> QED BY <1>1 DEF Output, Input, Data, TypeOK

(* A stage ends and no command of it has run, or none that anybody knows.   *)
LEMMA EndsUnrun ==
    ASSUME PInv, Running, NEW exit \in {1, 2, 127, 255}, NEW why \in SUBSET {i},
           Finish(exit, None, why), i \in why \/ stages[i].cmd = "missing",
           UNCHANGED <<stages, hosts, ran>>, terminal' \in {"silent", "typed", "closed"},
           mishaps' \in mishaps .. MaxMishaps
    PROVE  PInv'
<1> USE DEF PInv
<1>1. /\ code' = exit /\ data' = None /\ told' = told \cup why /\ i' = i + 1
      /\ ran' = ran /\ stages' = stages /\ hosts' = hosts
  BY DEF Finish
<1>2. /\ i \in Nat /\ i >= 1 /\ i \in 1 .. Len(stages) /\ i \in 1 .. MaxStages
      /\ Len(stages) \in Nat /\ MaxMishaps \in Nat /\ mishaps \in Nat
  BY Sizes
<1>3. TypeOK'
  BY <1>1, <1>2 DEF TypeOK, Data
<1>4. Before' /\ Succeeded'
  BY <1>1, <1>2, Sizes DEF Before, Succeeded
<1>5. CameBack(i) = {}
  BY <1>2, Sizes DEF CameBack, Before
<1>6. \A s : CameBack(s)' = Back(ran, s) /\ CameBack(s) = Back(ran, s)
  BY <1>1, CameBackIsBack
<1>7. Flows' /\ Fed'
  <2>1. Flows'
    <3>1. i' - 1 = i /\ Back(ran, i) = {}
      BY <1>1, <1>2, <1>5, <1>6
    <3> QED BY <1>1, <1>6, <3>1 DEF Flows
  <2>2. ASSUME NEW c \in DOMAIN ran, ran[c].stage > 1
        PROVE  LET from == Back(ran, ran[c].stage - 1) IN
                 \/ ran[c].input \in from
                 \/ ran[c].input = Typed /\ from \subseteq {None}
                 \/ ran[c].input = None /\ (from = {} \/ mishaps > 0)
    BY <1>6, <2>2 DEF Fed
  <2>3. mishaps > 0 => mishaps' > 0
    BY <1>2
  <2>4. Fed'
    BY <1>1, <1>6, <2>2, <2>3 DEF Fed
  <2> QED BY <2>1, <2>4
<1>8. NothingHidden'
  <2>1. \A s \in 1 .. i' - 1 : s \in 1 .. i - 1 \/ s = i
    BY <1>1, <1>2
  <2> QED BY <1>1, <2>1 DEF NothingHidden
<1> QED BY <1>3, <1>4, <1>7, <1>8

(* A stage ends and its command ran.                                        *)
LEMMA EndsRun ==
    ASSUME PInv, Running, NEW exit \in {0, 1, 255}, NEW why \in SUBSET {i},
           NEW input \in Data, NEW out \in Data,
           Finish(exit, out, why), Record(input, out),
           exit = 0 => stages[i].cmd \in {"emit", "copy"},
           \/ input = data
           \/ input = Typed /\ data = None
           \/ input = None /\ mishaps' > 0,
           UNCHANGED <<stages, hosts>>, terminal' \in {"silent", "typed", "closed"},
           mishaps' \in mishaps .. MaxMishaps
    PROVE  PInv'
<1> USE DEF PInv
<1> DEFINE x == [stage |-> i, input |-> input, output |-> out]
<1>1. /\ code' = exit /\ data' = out /\ told' = told \cup why /\ i' = i + 1
      /\ ran' = Append(ran, x) /\ stages' = stages /\ hosts' = hosts
  BY DEF Finish, Record
<1>2. /\ i \in Nat /\ i >= 1 /\ i \in 1 .. Len(stages) /\ i \in 1 .. MaxStages
      /\ Len(stages) \in Nat /\ MaxMishaps \in Nat /\ mishaps \in Nat
      /\ Len(ran) \in Nat /\ DOMAIN ran = 1 .. Len(ran) /\ ran \in Seq(Ran)
  BY Sizes DEF TypeOK
<1>3. x \in Ran /\ x.stage = i /\ x.output = out /\ x.input = input
  BY <1>2 DEF Ran
<1> HIDE DEF x
<1>4. /\ DOMAIN ran' = 1 .. Len(ran) + 1 /\ Len(ran') = Len(ran) + 1
      /\ ran'[Len(ran) + 1] = x /\ \A c \in DOMAIN ran : ran'[c] = ran[c]
      /\ ran' \in Seq(Ran) /\ ran' # <<>>
  BY <1>1, <1>2, <1>3
<1>5. \A c \in DOMAIN ran' : c \in DOMAIN ran \/ c = Len(ran) + 1
  BY <1>2, <1>4
<1>6. TypeOK'
  BY <1>1, <1>2, <1>4 DEF TypeOK
<1>7. Before'
  BY <1>1, <1>2, <1>3, <1>4, <1>5, Sizes DEF Before
<1>8. Succeeded'
  BY <1>1, <1>2, <1>3, <1>4 DEF Succeeded
<1>9. \A s : CameBack(s)' = IF s = i THEN CameBack(i) \cup {out} ELSE CameBack(s)
  BY <1>1, <1>2, <1>3, BackAppend, CameBackIsBack
<1>10. CameBack(i) = {}
  BY <1>2, Sizes DEF CameBack, Before
<1>11. Flows'
  BY <1>1, <1>2, <1>9, <1>10, CameBackIsBack DEF Flows
<1>12. Fed'
  <2> SUFFICES ASSUME NEW c \in DOMAIN ran', ran'[c].stage > 1
               PROVE  LET from == Back(ran', ran'[c].stage - 1) IN
                        \/ ran'[c].input \in from
                        \/ ran'[c].input = Typed /\ from \subseteq {None}
                        \/ ran'[c].input = None /\ (from = {} \/ mishaps' > 0)
    BY CameBackIsBack DEF Fed
  <2>1. CASE c \in DOMAIN ran
    <3>1. ran'[c] = ran[c] /\ ran[c].stage \in Nat /\ ran[c].stage < i
      BY <1>4, <2>1, Sizes DEF Before
    <3>2. Back(ran', ran[c].stage - 1) = CameBack(ran[c].stage - 1)
      BY <1>2, <1>9, <3>1, CameBackIsBack
    <3>3. LET from == CameBack(ran[c].stage - 1) IN
            \/ ran[c].input \in from
            \/ ran[c].input = Typed /\ from \subseteq {None}
            \/ ran[c].input = None /\ (from = {} \/ mishaps > 0)
      BY <2>1, <3>1 DEF Fed
    <3> QED BY <1>2, <3>1, <3>2, <3>3
  <2>2. CASE c = Len(ran) + 1
    <3>1. ran'[c].stage = i /\ ran'[c].input = input /\ i > 1
      BY <1>3, <1>4, <2>2
    <3>2. Back(ran', i - 1) = CameBack(i - 1)
      BY <1>2, <1>9, CameBackIsBack
    <3>3. CameBack(i - 1) \subseteq {data} /\ (data # None => CameBack(i - 1) = {data})
      BY <3>1 DEF Flows
    <3> QED BY <3>1, <3>2, <3>3
  <2> QED BY <1>5, <2>1, <2>2
<1>13. NothingHidden'
  <2>1. \A c, l \in DOMAIN ran' : ran'[c].stage = ran'[l].stage => c = l
    BY <1>2, <1>3, <1>4, <1>5, Sizes DEF NothingHidden, Before
  <2>2. \A s \in 1 .. i' - 1 : s \in 1 .. i - 1 \/ s = i
    BY <1>1, <1>2
  <2>3. Len(ran) + 1 \in DOMAIN ran' /\ \A c \in DOMAIN ran : c \in DOMAIN ran'
    BY <1>2, <1>4
  <2> QED BY <1>1, <1>3, <1>4, <2>1, <2>2, <2>3 DEF NothingHidden
<1> QED BY <1>6, <1>7, <1>8, <1>11, <1>12, <1>13
-----------------------------------------------------------------------------
(* Each action ends a stage in one of the two ways, or leaves the line.     *)
LEMMA PStep == PInv /\ [Next]_vars => PInv'
<1> SUFFICES ASSUME PInv, [Next]_vars PROVE PInv'
  OBVIOUS
<1> USE DEF PInv
<1>1. /\ mishaps \in Nat /\ MaxMishaps \in Nat /\ mishaps \in 0 .. MaxMishaps
      /\ terminal \in {"silent", "typed", "closed"} /\ data \in Data /\ None \in Data
      /\ data = None \/ data \in Data
  BY Sizes DEF TypeOK, Data
<1>2. ASSUME NEW kind, Mishap(kind)
      PROVE  mishaps' \in mishaps .. MaxMishaps /\ mishaps' > 0
  BY <1>1, <1>2 DEF Mishap
<1>3. CASE Refuse
  <2>1. i \in {i} /\ {i} \in SUBSET {i}
    OBVIOUS
  <2> QED BY <1>1, <1>3, <2>1, EndsUnrun DEF Refuse
<1>4. CASE Unlaunched
  <2>1. PICK why \in {{}, {i}} : Finish(127, None, why)
    BY <1>4 DEF Unlaunched
  <2> QED BY <1>1, <1>4, <2>1, EndsUnrun DEF Unlaunched
<1>5. CASE NoProcess
  <2>1. mishaps' \in mishaps .. MaxMishaps /\ {i} \in SUBSET {i} /\ i \in {i}
    BY <1>2, <1>5 DEF NoProcess
  <2> QED BY <1>1, <1>5, <2>1, EndsUnrun DEF NoProcess
<1>6. CASE Run
  <2>1. Input \in Data /\ Output(Input) \in Data /\ stages[i].cmd \in Cmds \ {"missing"}
    BY <1>1, <1>6, Outputs, Sizes DEF Run, Stage
  <2>2. Exit \in {0, 1} /\ (Exit = 0 => stages[i].cmd \in {"emit", "copy"})
    BY <2>1 DEF Exit, Cmds
  <2>3. Input = data \/ (Input = Typed /\ data = None)
    BY DEF Input, FromTerminal
  <2>4. terminal' \in {"silent", "typed", "closed"}
    BY <1>1, <1>6 DEF Run, Drain
  <2>5. mishaps' \in mishaps .. MaxMishaps /\ {} \in SUBSET {i}
    BY <1>1, <1>6 DEF Run
  <2> QED BY <1>6, <2>1, <2>2, <2>3, <2>4, <2>5, EndsRun DEF Run
<1>7. CASE InputLost
  <2>1. mishaps' \in mishaps .. MaxMishaps /\ mishaps' > 0 /\ {i} \in SUBSET {i} /\ {} \in SUBSET {i}
    BY <1>2, <1>7 DEF InputLost
  <2>2. CASE Finish(1, None, {i}) /\ UNCHANGED ran
    BY <1>1, <1>7, <2>1, <2>2, EndsUnrun DEF InputLost
  <2>3. CASE Finish(Exit, Output(None), {}) /\ Record(None, Output(None)) /\ stages[i].cmd # "missing"
    <3>1. Output(None) \in Data /\ stages[i].cmd \in Cmds \ {"missing"}
      BY <1>1, <1>7, <2>3, Outputs, Sizes DEF InputLost, Stage
    <3>2. Exit \in {0, 1} /\ (Exit = 0 => stages[i].cmd \in {"emit", "copy"})
      BY <3>1 DEF Exit, Cmds
    <3> QED BY <1>1, <1>7, <2>1, <2>3, <3>1, <3>2, EndsRun DEF InputLost
  <2> QED BY <1>7, <2>2, <2>3 DEF InputLost
<1>8. CASE LinkLost
  <2>1. mishaps' \in mishaps .. MaxMishaps /\ {i} \in SUBSET {i} /\ i \in {i}
    BY <1>2, <1>8 DEF LinkLost
  <2>2. CASE UNCHANGED ran
    BY <1>1, <1>8, <2>1, <2>2, EndsUnrun DEF LinkLost
  <2>3. CASE Record(data, None)
    BY <1>1, <1>8, <2>1, <2>3, EndsRun DEF LinkLost
  <2> QED BY <1>8, <2>2, <2>3 DEF LinkLost
<1>9. CASE UserTypes \/ UNCHANGED vars
  <2>1. UNCHANGED <<stages, i, data, code, told, hosts, ran, mishaps>>
    BY <1>9 DEF UserTypes, vars
  <2>2. terminal' \in {"silent", "typed", "closed"}
    BY <1>1, <1>9 DEF UserTypes, vars
  <2>3. \A s : CameBack(s)' = CameBack(s)
    BY <2>1 DEF CameBack
  <2>4. TypeOK'
    BY <2>1, <2>2 DEF TypeOK
  <2>5. Before' /\ Succeeded' /\ NothingHidden'
    BY <2>1 DEF Before, Succeeded, NothingHidden
  <2>6. Flows' /\ Fed'
    BY <2>1, <2>3 DEF Flows, Fed
  <2> QED BY <2>4, <2>5, <2>6
<1>10. ASSUME NEW a \in Aliases, NEW h \in Hosts, HostEdited(a, h) PROVE PInv'
  <2>1. mishaps' \in 0 .. MaxMishaps /\ (mishaps > 0 => mishaps' > 0)
    BY <1>1, <1>2, <1>10 DEF HostEdited
  <2>2. TypeOK'
    BY <1>10, <2>1 DEF HostEdited, TypeOK
  <2>3. \A s : CameBack(s)' = CameBack(s)
    BY <1>10 DEF HostEdited, CameBack
  <2>4. Before' /\ Succeeded' /\ NothingHidden' /\ Flows'
    BY <1>10, <2>3 DEF HostEdited, Before, Flows, Succeeded, NothingHidden
  <2>5. Fed'
    BY <1>10, <2>1, <2>3 DEF HostEdited, Fed
  <2> QED BY <2>2, <2>4, <2>5
<1> QED BY <1>3, <1>4, <1>5, <1>6, <1>7, <1>8, <1>9, <1>10 DEF Next, Step

-----------------------------------------------------------------------------
(* execute_pipeline: what a stage reads is what came back from the one      *)
(* before it, whatever became of the stages in between and of the hosts.    *)
THEOREM StagesFed == Spec => []StageFed
<1>1. PInv => StageFed
  BY DEF PInv, StageFed, Fed
<1> QED BY <1>1, PStart, PStep, PTL DEF Spec

(* Success is never that of an earlier stage, and never without output.     *)
THEOREM VerdictTrue == Spec => []Verdict
<1>1. PInv => Verdict
  <2> SUFFICES ASSUME PInv, ~ Running, code = 0 PROVE Verdict
    BY DEF Verdict
  <2>1. i = Len(stages) + 1 /\ i > 1 /\ i - 1 = Len(stages)
    BY Sizes DEF PInv, TypeOK, Running
  <2> QED BY <2>1 DEF PInv, Succeeded, Verdict, Last
<1> QED BY <1>1, PStart, PStep, PTL DEF Spec

(* No stage is skipped silently and none runs twice.                        *)
THEOREM NothingEverHidden == Spec => []NothingHidden
<1>1. PInv => NothingHidden
  BY DEF PInv
<1> QED BY <1>1, PStart, PStep, PTL DEF Spec

-----------------------------------------------------------------------------
(* Where the loop of glob_match is: `a` and `b` are the next characters of  *)
(* glob and name, `st` is the last "*" (or 0) and `m` the first character   *)
(* after what it takes. What is behind can be placed, and every split of    *)
(* the whole gives that "*" at least as much.                               *)
Placed(g, s, a, b, st, m) ==
    \E h \in [0 .. a - 1 -> 0 .. b - 1] :
        /\ h[0] = 0 /\ h[a - 1] = b - 1 /\ h[st] = m - 1
        /\ \A x, y \in 0 .. a - 1 : x <= y => h[x] <= h[y]
        /\ \A x \in 1 .. a - 1 : g[x] # "*" => h[x] = h[x - 1] + 1 /\ g[x] \in {"?", s[h[x]]}

Least(g, s, a, st, m) ==
    \A f \in Splits(g, s) : f[st] >= m - 1 /\ f[a - 1] = f[st] + (a - 1 - st)

Loop(g, s, a, b, st, m) ==
    /\ a \in 1 .. Len(g) + 1 /\ b \in 1 .. Len(s) + 1
    /\ st \in 0 .. a - 1 /\ m \in 1 .. b
    /\ b - m = a - 1 - st
    /\ IF st = 0 THEN m = 1 ELSE g[st] = "*"
    /\ Placed(g, s, a, b, st, m)
    /\ Least(g, s, a, st, m)

-----------------------------------------------------------------------------
(* What a split is.                                                         *)
LEMMA SplitFacts ==
    ASSUME NEW g \in Seq(STRING), NEW s \in Seq(STRING), NEW f \in Splits(g, s)
    PROVE  /\ Len(g) \in Nat /\ Len(s) \in Nat
           /\ \A x \in 0 .. Len(g) : f[x] \in Nat /\ f[x] <= Len(s)
           /\ f[0] = 0 /\ f[Len(g)] = Len(s)
           /\ \A x, y \in 0 .. Len(g) : x <= y => f[x] <= f[y]
           /\ \A x \in 1 .. Len(g) : g[x] # "*" => f[x] = f[x - 1] + 1 /\ g[x] \in {"?", s[f[x]]}
<1>1. Len(g) \in Nat /\ Len(s) \in Nat
  OBVIOUS
<1>2. f \in [0 .. Len(g) -> 0 .. Len(s)]
  BY DEF Splits
<1>3. \A x \in 0 .. Len(g) : f[x] \in Nat /\ f[x] <= Len(s)
  BY <1>1, <1>2
<1> QED BY <1>1, <1>3 DEF Splits

(* glob_match: the loop.                                                    *)
LEMMA LoopStart ==
    ASSUME NEW g \in Seq(STRING), NEW s \in Seq(STRING)
    PROVE  Loop(g, s, 1, 1, 0, 1)
<1>1. Placed(g, s, 1, 1, 0, 1)
  <2> DEFINE h == [x \in 0 .. 0 |-> 0]
  <2>1. h \in [0 .. 1 - 1 -> 0 .. 1 - 1] /\ \A x \in 0 .. 1 - 1 : h[x] = 0
    OBVIOUS
  <2> HIDE DEF h
  <2>2. h[0] = 0 /\ h[1 - 1] = 1 - 1
    BY <2>1
  <2>3. \A x, y \in 0 .. 1 - 1 : x <= y => h[x] <= h[y]
    BY <2>1
  <2>4. \A x \in 1 .. 1 - 1 : FALSE
    OBVIOUS
  <2> QED BY <2>1, <2>2, <2>3, <2>4 DEF Placed
<1>2. Least(g, s, 1, 0, 1)
  BY SplitFacts DEF Least
<1>3. Len(g) \in Nat /\ Len(s) \in Nat
  OBVIOUS
<1> QED BY <1>1, <1>2, <1>3 DEF Loop

(* A character of the glob is matched.                                      *)
LEMMA LoopChar ==
    ASSUME NEW g \in Seq(STRING), NEW s \in Seq(STRING), NEW a, NEW b, NEW st, NEW m,
           Loop(g, s, a, b, st, m),
           a <= Len(g), b <= Len(s), g[a] # "*", g[a] \in {"?", s[b]}
    PROVE  Loop(g, s, a + 1, b + 1, st, m)
<1>1. /\ a \in 1 .. Len(g) /\ b \in 1 .. Len(s) /\ st \in 0 .. a - 1 /\ m \in 1 .. b
      /\ a \in Nat /\ b \in Nat /\ Len(g) \in Nat /\ Len(s) \in Nat
  BY DEF Loop
<1>2. Placed(g, s, a + 1, b + 1, st, m)
  <2>1. PICK h \in [0 .. a - 1 -> 0 .. b - 1] :
          /\ h[0] = 0 /\ h[a - 1] = b - 1 /\ h[st] = m - 1
          /\ \A x, y \in 0 .. a - 1 : x <= y => h[x] <= h[y]
          /\ \A x \in 1 .. a - 1 : g[x] # "*" => h[x] = h[x - 1] + 1 /\ g[x] \in {"?", s[h[x]]}
    BY DEF Loop, Placed
  <2> DEFINE hh == [x \in 0 .. a |-> IF x < a THEN h[x] ELSE b]
  <2>2. hh \in [0 .. (a + 1) - 1 -> 0 .. (b + 1) - 1]
    BY <1>1, <2>1
  <2>3. hh[a] = b /\ \A x \in 0 .. a - 1 : hh[x] = h[x]
    BY <1>1
  <2> HIDE DEF hh
  <2>4. hh[0] = 0 /\ hh[(a + 1) - 1] = (b + 1) - 1 /\ hh[st] = m - 1
    BY <1>1, <2>1, <2>3
  <2>5. \A x, y \in 0 .. (a + 1) - 1 : x <= y => hh[x] <= hh[y]
    <3> SUFFICES ASSUME NEW x \in 0 .. a, NEW y \in 0 .. a, x <= y PROVE hh[x] <= hh[y]
      BY <1>1
    <3>1. \A z \in 0 .. a - 1 : h[z] \in 0 .. b - 1
      BY <2>1
    <3>2. CASE y = a
      BY <1>1, <2>3, <3>1, <3>2
    <3>3. CASE y # a
      <4>1. x \in 0 .. a - 1 /\ y \in 0 .. a - 1
        BY <1>1, <3>3
      <4> QED BY <4>1, <2>1, <2>3
    <3> QED BY <3>2, <3>3
  <2>6. \A x \in 1 .. (a + 1) - 1 :
           g[x] # "*" => hh[x] = hh[x - 1] + 1 /\ g[x] \in {"?", s[hh[x]]}
    <3> SUFFICES ASSUME NEW x \in 1 .. a, g[x] # "*"
                 PROVE  hh[x] = hh[x - 1] + 1 /\ g[x] \in {"?", s[hh[x]]}
      BY <1>1
    <3>1. CASE x = a
      BY <1>1, <2>1, <2>3, <3>1
    <3>2. CASE x # a
      <4>1. x \in 1 .. a - 1 /\ x \in 0 .. a - 1 /\ x - 1 \in 0 .. a - 1
        BY <1>1, <3>2
      <4>2. hh[x] = h[x] /\ hh[x - 1] = h[x - 1]
        BY <4>1, <2>3
      <4> QED BY <4>1, <4>2, <2>1
    <3> QED BY <3>1, <3>2
  <2> QED BY <2>2, <2>4, <2>5, <2>6 DEF Placed
<1>3. Least(g, s, a + 1, st, m)
  <2> SUFFICES ASSUME NEW f \in Splits(g, s)
               PROVE  f[st] >= m - 1 /\ f[(a + 1) - 1] = f[st] + ((a + 1) - 1 - st)
    BY DEF Least
  <2>1. f[st] >= m - 1 /\ f[a - 1] = f[st] + (a - 1 - st)
    BY DEF Loop, Least
  <2>2. f[a] = f[a - 1] + 1 /\ f[st] \in Nat
    BY <1>1, SplitFacts
  <2> QED BY <1>1, <2>1, <2>2
<1> QED BY <1>1, <1>2, <1>3 DEF Loop

(* A "*" is met: it takes nothing yet.                                      *)
LEMMA LoopStar ==
    ASSUME NEW g \in Seq(STRING), NEW s \in Seq(STRING), NEW a, NEW b, NEW st, NEW m,
           Loop(g, s, a, b, st, m), a <= Len(g), b <= Len(s), g[a] = "*"
    PROVE  Loop(g, s, a + 1, b, a, b)
<1>1. /\ a \in 1 .. Len(g) /\ b \in 1 .. Len(s) /\ st \in 0 .. a - 1 /\ m \in 1 .. b
      /\ a \in Nat /\ b \in Nat /\ Len(g) \in Nat /\ Len(s) \in Nat /\ b - m = a - 1 - st
  BY DEF Loop
<1>2. Placed(g, s, a + 1, b, a, b)
  <2>1. PICK h \in [0 .. a - 1 -> 0 .. b - 1] :
          /\ h[0] = 0 /\ h[a - 1] = b - 1 /\ h[st] = m - 1
          /\ \A x, y \in 0 .. a - 1 : x <= y => h[x] <= h[y]
          /\ \A x \in 1 .. a - 1 : g[x] # "*" => h[x] = h[x - 1] + 1 /\ g[x] \in {"?", s[h[x]]}
    BY DEF Loop, Placed
  <2> DEFINE hh == [x \in 0 .. a |-> IF x < a THEN h[x] ELSE b - 1]
  <2>2. hh \in [0 .. (a + 1) - 1 -> 0 .. b - 1]
    BY <1>1, <2>1
  <2>3. hh[a] = b - 1 /\ \A x \in 0 .. a - 1 : hh[x] = h[x]
    BY <1>1
  <2> HIDE DEF hh
  <2>4. hh[0] = 0 /\ hh[(a + 1) - 1] = b - 1 /\ hh[a] = b - 1
    BY <1>1, <2>1, <2>3
  <2>5. \A x, y \in 0 .. (a + 1) - 1 : x <= y => hh[x] <= hh[y]
    <3> SUFFICES ASSUME NEW x \in 0 .. a, NEW y \in 0 .. a, x <= y PROVE hh[x] <= hh[y]
      BY <1>1
    <3>1. \A z \in 0 .. a - 1 : h[z] \in 0 .. b - 1
      BY <2>1
    <3>2. CASE y = a
      BY <1>1, <2>3, <3>1, <3>2, SMTT(20)
    <3>3. CASE y # a
      <4>1. x \in 0 .. a - 1 /\ y \in 0 .. a - 1
        BY <1>1, <3>3
      <4> QED BY <4>1, <2>1, <2>3
    <3> QED BY <3>2, <3>3
  <2>6. \A x \in 1 .. (a + 1) - 1 :
           g[x] # "*" => hh[x] = hh[x - 1] + 1 /\ g[x] \in {"?", s[hh[x]]}
    <3> SUFFICES ASSUME NEW x \in 1 .. a, g[x] # "*"
                 PROVE  hh[x] = hh[x - 1] + 1 /\ g[x] \in {"?", s[hh[x]]}
      BY <1>1
    <3>1. x \in 1 .. a - 1 /\ x \in 0 .. a - 1 /\ x - 1 \in 0 .. a - 1
      BY <1>1
    <3>2. hh[x] = h[x] /\ hh[x - 1] = h[x - 1]
      BY <3>1, <2>3
    <3> QED BY <3>1, <3>2, <2>1
  <2> QED BY <2>2, <2>4, <2>5, <2>6 DEF Placed
<1>3. Least(g, s, a + 1, a, b)
  <2> SUFFICES ASSUME NEW f \in Splits(g, s)
               PROVE  f[a] >= b - 1 /\ f[(a + 1) - 1] = f[a] + ((a + 1) - 1 - a)
    BY DEF Least
  <2>1. f[st] >= m - 1 /\ f[a - 1] = f[st] + (a - 1 - st)
    BY DEF Loop, Least
  <2>2. f[a - 1] <= f[a] /\ f[a] \in Nat /\ f[a - 1] \in Nat /\ f[st] \in Nat
    BY <1>1, SplitFacts
  <2> QED BY <1>1, <2>1, <2>2
<1> QED BY <1>1, <1>2, <1>3 DEF Loop

(* Where the characters differ, no split leaves the last "*" what it takes. *)
LEMMA LoopDiffers ==
    ASSUME NEW g \in Seq(STRING), NEW s \in Seq(STRING), NEW a, NEW b, NEW st, NEW m,
           Loop(g, s, a, b, st, m), b <= Len(s),
           a <= Len(g) => g[a] # "*" /\ g[a] \notin {"?", s[b]},
           NEW f \in Splits(g, s)
    PROVE  f[st] >= m
<1>1. /\ a \in 1 .. Len(g) + 1 /\ b \in 1 .. Len(s) /\ st \in 0 .. a - 1 /\ m \in 1 .. b
      /\ a \in Nat /\ b \in Nat /\ Len(g) \in Nat /\ Len(s) \in Nat /\ b - m = a - 1 - st
  BY DEF Loop
<1>2. f[st] >= m - 1 /\ f[a - 1] = f[st] + (a - 1 - st) /\ f[st] \in Nat
  BY <1>1, SplitFacts DEF Loop, Least
<1>3. SUFFICES ASSUME f[st] = m - 1 PROVE FALSE
  BY <1>1, <1>2, SMTT(20)
<1>4. f[a - 1] = b - 1
  BY <1>1, <1>2, <1>3
<1>5. CASE a <= Len(g)
  <2>1. f[a] = b /\ g[a] \in {"?", s[f[a]]}
    BY <1>1, <1>4, <1>5, SplitFacts
  <2> QED BY <2>1, <1>5
<1>6. CASE a = Len(g) + 1
  BY <1>1, <1>4, <1>6, SplitFacts
<1> QED BY <1>1, <1>5, <1>6

(* So it takes one character more.                                          *)
LEMMA LoopBack ==
    ASSUME NEW g \in Seq(STRING), NEW s \in Seq(STRING), NEW a, NEW b, NEW st, NEW m,
           Loop(g, s, a, b, st, m), b <= Len(s), st # 0,
           a <= Len(g) => g[a] # "*" /\ g[a] \notin {"?", s[b]}
    PROVE  Loop(g, s, st + 1, m + 1, st, m + 1)
<1>1. /\ a \in 1 .. Len(g) + 1 /\ b \in 1 .. Len(s) /\ st \in 1 .. a - 1 /\ m \in 1 .. b
      /\ a \in Nat /\ b \in Nat /\ Len(g) \in Nat /\ Len(s) \in Nat /\ g[st] = "*"
  BY DEF Loop
<1>2. Placed(g, s, st + 1, m + 1, st, m + 1)
  <2>1. PICK h \in [0 .. a - 1 -> 0 .. b - 1] :
          /\ h[0] = 0 /\ h[a - 1] = b - 1 /\ h[st] = m - 1
          /\ \A x, y \in 0 .. a - 1 : x <= y => h[x] <= h[y]
          /\ \A x \in 1 .. a - 1 : g[x] # "*" => h[x] = h[x - 1] + 1 /\ g[x] \in {"?", s[h[x]]}
    BY DEF Loop, Placed
  <2> DEFINE hh == [x \in 0 .. st |-> IF x < st THEN h[x] ELSE m]
  <2>2. \A x \in 0 .. st - 1 : h[x] <= m - 1 /\ h[x] \in Nat
    BY <1>1, <2>1
  <2>3. hh[st] = m /\ \A x \in 0 .. st - 1 : hh[x] = h[x]
    BY <1>1
  <2>4. hh \in [0 .. (st + 1) - 1 -> 0 .. (m + 1) - 1]
    BY <1>1, <2>2, SMTT(20)
  <2> HIDE DEF hh
  <2>5. hh[0] = 0 /\ hh[(st + 1) - 1] = (m + 1) - 1 /\ hh[st] = (m + 1) - 1
    BY <1>1, <2>1, <2>3
  <2>6. \A x, y \in 0 .. (st + 1) - 1 : x <= y => hh[x] <= hh[y]
    BY <1>1, <2>1, <2>2, <2>3, SMTT(20)
  <2>7. \A x \in 1 .. (st + 1) - 1 :
           g[x] # "*" => hh[x] = hh[x - 1] + 1 /\ g[x] \in {"?", s[hh[x]]}
    <3> SUFFICES ASSUME NEW x \in 1 .. st, g[x] # "*"
                 PROVE  hh[x] = hh[x - 1] + 1 /\ g[x] \in {"?", s[hh[x]]}
      BY <1>1, SMTT(20)
    <3>1. x \in 1 .. a - 1 /\ x \in 0 .. st - 1 /\ x - 1 \in 0 .. st - 1
      BY <1>1, SMTT(20)
    <3>2. hh[x] = h[x] /\ hh[x - 1] = h[x - 1]
      BY <3>1, <2>3
    <3> QED BY <3>1, <3>2, <2>1
  <2> QED BY <2>4, <2>5, <2>6, <2>7 DEF Placed
<1>3. Least(g, s, st + 1, st, m + 1)
  <2> SUFFICES ASSUME NEW f \in Splits(g, s)
               PROVE  f[st] >= (m + 1) - 1 /\ f[(st + 1) - 1] = f[st] + ((st + 1) - 1 - st)
    BY DEF Least
  <2>1. f[st] >= m /\ f[st] \in Nat
    BY <1>1, LoopDiffers, SplitFacts
  <2> QED BY <1>1, <2>1
<1> QED BY <1>1, <1>2, <1>3 DEF Loop

(* The name is at its end: only "*" may be left.                            *)
LEMMA LoopHit ==
    ASSUME NEW g \in Seq(STRING), NEW s \in Seq(STRING), NEW a, NEW b, NEW st, NEW m,
           Loop(g, s, a, b, st, m), b > Len(s), \A j \in a .. Len(g) : g[j] = "*"
    PROVE  Fits(g, s)
<1>1. /\ a \in 1 .. Len(g) + 1 /\ b = Len(s) + 1
      /\ a \in Nat /\ b \in Nat /\ Len(g) \in Nat /\ Len(s) \in Nat
  BY DEF Loop
<1>2. PICK h \in [0 .. a - 1 -> 0 .. b - 1] :
        /\ h[0] = 0 /\ h[a - 1] = b - 1 /\ h[st] = m - 1
        /\ \A x, y \in 0 .. a - 1 : x <= y => h[x] <= h[y]
        /\ \A x \in 1 .. a - 1 : g[x] # "*" => h[x] = h[x - 1] + 1 /\ g[x] \in {"?", s[h[x]]}
  BY DEF Loop, Placed
<1> DEFINE f == [x \in 0 .. Len(g) |-> IF x < a THEN h[x] ELSE Len(s)]
<1>3. f \in [0 .. Len(g) -> 0 .. Len(s)]
  BY <1>1, <1>2
<1>4. \A x \in 0 .. Len(g) : f[x] = IF x < a THEN h[x] ELSE Len(s)
  OBVIOUS
<1>5. f[0] = 0 /\ f[Len(g)] = Len(s)
  BY <1>1, <1>2, <1>4
<1>6. \A x, y \in 0 .. Len(g) : x <= y => f[x] <= f[y]
  BY <1>1, <1>2, <1>4
<1>7. \A x \in 1 .. Len(g) : g[x] # "*" => f[x] = f[x - 1] + 1 /\ g[x] \in {"?", s[f[x]]}
  BY <1>1, <1>2, <1>4
<1> HIDE DEF f
<1> QED BY <1>3, <1>5, <1>6, <1>7 DEF Fits, Splits

LEMMA LoopEnds ==
    ASSUME NEW g \in Seq(STRING), NEW s \in Seq(STRING), NEW a, NEW b, NEW st, NEW m,
           Loop(g, s, a, b, st, m), b > Len(s), NEW j \in a .. Len(g), g[j] # "*"
    PROVE  ~ Fits(g, s)
<1> SUFFICES ASSUME NEW f \in Splits(g, s) PROVE FALSE
  BY DEF Fits
<1>1. /\ a \in 1 .. Len(g) + 1 /\ b = Len(s) + 1 /\ st \in 0 .. a - 1 /\ m \in 1 .. b
      /\ a \in Nat /\ b \in Nat /\ Len(g) \in Nat /\ Len(s) \in Nat /\ b - m = a - 1 - st
  BY DEF Loop
<1>2. f[st] >= m - 1 /\ f[a - 1] = f[st] + (a - 1 - st) /\ f[st] \in Nat
  BY <1>1, SplitFacts DEF Loop, Least
<1>3. f[a - 1] >= Len(s)
  BY <1>1, <1>2, SMTT(20)
<1>4. j \in 1 .. Len(g) /\ j - 1 \in 0 .. Len(g) /\ a - 1 \in 0 .. Len(g) /\ a - 1 <= j - 1
  BY <1>1
<1>5. f[a - 1] <= f[j - 1] /\ f[j] = f[j - 1] + 1
  BY <1>4, SplitFacts
<1>6. f[j] <= Len(s) /\ f[j - 1] \in Nat /\ f[a - 1] \in Nat
  BY <1>4, SplitFacts
<1> QED BY <1>1, <1>2, <1>3, <1>5, <1>6, SMTT(20)

(* No "*" to go back to.                                                    *)
LEMMA LoopMiss ==
    ASSUME NEW g \in Seq(STRING), NEW s \in Seq(STRING), NEW a, NEW b, NEW m,
           Loop(g, s, a, b, 0, m), b <= Len(s),
           a <= Len(g) => g[a] # "*" /\ g[a] \notin {"?", s[b]}
    PROVE  ~ Fits(g, s)
<1> SUFFICES ASSUME NEW f \in Splits(g, s) PROVE FALSE
  BY DEF Fits
<1>1. f[0] >= m /\ m = 1
  BY LoopDiffers DEF Loop
<1> QED BY <1>1, SplitFacts

-----------------------------------------------------------------------------
(* The walk. An entry is passed when the walk is beyond it.                 *)
Passed(x) == x[1] < root \/ (x[1] = root /\ x[2] < entry)

QType ==
    /\ asked \in Questions
    /\ phase \in {"ask", "walk", "match", "answered", "refused"}
    /\ root \in 1 .. Len(asked.roots) + 1
    /\ entry \in 1 .. Len(asked.tree) + 1
    /\ phase = "answered" => root = Len(asked.roots) + 1
    /\ phase = "match" => Here

(* No entry beyond the depth limit is ever looked at.                       *)
Level == entry <= Len(asked.tree) /\ asked.depth > 0 => Seen.depth < asked.depth

(* While an entry's name is compared, no glob before this one fits it.      *)
Comparing ==
    phase = "match" =>
       /\ Here /\ RightType(Seen)
       /\ k \in 1 .. Len(asked.names)
       /\ \A n \in 1 .. k - 1 : ~ Fits(asked.names[n], Name)
       /\ Loop(Glob, Name, p, t, star, IF star = 0 THEN 1 ELSE mark)

Kept == found \subseteq Sought /\ (~ lost => \A x \in Sought : Passed(x) => x \in found)

Printed ==
    phase = "answered" => lines = IF asked.kind # "text" THEN {}
                ELSE UNION {{<<x, n>> : n \in Prints(asked.tree[x[2]])} : x \in found}

QInv == QType /\ (PlainNames => Level /\ Comparing /\ Kept /\ Printed)

LEMMA AskedFacts ==
    ASSUME asked \in Questions
    PROVE  /\ asked.roots \in Seq({"here", "gone"}) /\ asked.tree \in Seq(Entry)
           /\ asked.names \in Seq(Seq(STRING)) /\ asked.depth \in Nat
           /\ asked.tree # <<>> => asked.tree[1].depth = 0
           /\ \A n \in 1 .. Len(asked.tree) - 1 :
                 asked.tree[n + 1].depth <= asked.tree[n].depth + 1
           /\ \A n \in 1 .. Len(asked.tree) :
                 asked.tree[n].depth \in Nat /\ asked.tree[n].name \in Seq(STRING)
<1>1. asked \in Question /\ IsWalk(asked.tree)
  BY QueryAssumption DEF QueryAssumption
<1>2. /\ asked.roots \in Seq({"here", "gone"}) /\ asked.tree \in Seq(Entry)
      /\ asked.names \in Seq(Seq(STRING)) /\ asked.depth \in Nat
  BY <1>1 DEF Question
<1>3. \A n \in 1 .. Len(asked.tree) : asked.tree[n] \in Entry
  BY <1>2
<1>4. \A n \in 1 .. Len(asked.tree) :
         asked.tree[n].depth \in Nat /\ asked.tree[n].name \in Seq(STRING)
  BY <1>3 DEF Entry
<1> QED BY <1>1, <1>2, <1>4 DEF IsWalk

(* What is sought depends on the question only.                             *)
LEMMA SameQuestion ==
    ASSUME asked' = asked
    PROVE  Sought' = Sought /\ PlainNames' = PlainNames
  BY DEF Sought, IsSought, RightType, PlainNames

LEMMA SoughtFacts ==
    ASSUME asked \in Questions, NEW x \in Sought
    PROVE  /\ x = <<x[1], x[2]>>
           /\ x[1] \in 1 .. Len(asked.roots) /\ asked.roots[x[1]] = "here"
           /\ x[2] \in 1 .. Len(asked.tree) /\ IsSought(asked.tree[x[2]])
           /\ Len(asked.roots) \in Nat /\ Len(asked.tree) \in Nat
<1>1. DOMAIN asked.roots = 1 .. Len(asked.roots) /\ DOMAIN asked.tree = 1 .. Len(asked.tree)
  BY AskedFacts
<1>2. Len(asked.roots) \in Nat /\ Len(asked.tree) \in Nat
  BY AskedFacts
<1> QED BY <1>1, <1>2 DEF Sought

LEMMA Decided ==
    ASSUME QType, Here
    PROVE  <<root, entry>> \in Sought <=> IsSought(Seen)
<1>1. root \in DOMAIN asked.roots /\ entry \in DOMAIN asked.tree /\ asked.roots[root] = "here"
  BY AskedFacts DEF QType, Here
<1> QED BY <1>1 DEF Sought, Seen

(* The walk goes on once it is decided whether the entry is kept.           *)
LEMMA WalkOn ==
    ASSUME QInv, PlainNames, Here, Onward,
           found' \in {found, found \cup {<<root, entry>>}},
           <<root, entry>> \in found' <=> IsSought(Seen)
    PROVE  QInv'
<1> USE DEF QInv
<1>1. /\ asked' = asked /\ root' = root /\ phase' = "walk"
      /\ entry \in Nat /\ entry <= Len(asked.tree) /\ Len(asked.tree) \in Nat
      /\ entry \in 1 .. Len(asked.tree)
  BY AskedFacts DEF Onward, Here, QType
<1>2. entry' \in entry + 1 .. Len(asked.tree) + 1
  BY <1>1 DEF Onward
<1>3. QType'
  BY <1>1, <1>2 DEF QType
<1>4. Level'
  <2> SUFFICES ASSUME entry' <= Len(asked.tree), asked.depth > 0
               PROVE  asked.tree[entry'].depth < asked.depth
    BY <1>1 DEF Level, Seen
  <2>1. Seen.depth < asked.depth /\ Seen.depth \in Nat /\ asked.depth \in Nat
    BY <1>1, AskedFacts DEF Level, Seen, QType
  <2>2. entry' \in 1 .. Len(asked.tree) /\ asked.tree[entry'].depth \in Nat
    BY <1>1, <1>2, AskedFacts, SMTT(20) DEF QType
  <2>3. CASE ~ Cut /\ entry' = entry + 1
    <3>1. entry \in 1 .. Len(asked.tree) - 1
      BY <1>1, <2>2, <2>3
    <3>2. asked.tree[entry'].depth <= Seen.depth + 1
      BY <3>1, <2>3, AskedFacts DEF QType, Seen
    <3> QED BY <2>1, <2>2, <2>3, <3>2 DEF Cut
  <2>4. CASE asked.tree[entry'].depth <= Seen.depth
    BY <2>1, <2>2, <2>4
  <2> QED BY <1>1, <2>2, <2>3, <2>4 DEF Onward
<1>5. Kept'
  <2>1. Sought' = Sought /\ found' \subseteq Sought
    BY <1>1, SameQuestion, Decided DEF Kept
  <2>2. ASSUME ~ lost', NEW x \in Sought, x[1] < root \/ (x[1] = root /\ x[2] < entry')
        PROVE  x \in found'
    <3>1. ~ lost
      BY <2>2 DEF Onward
    <3>2. /\ x = <<x[1], x[2]>> /\ x[2] \in 1 .. Len(asked.tree)
          /\ x[1] \in 1 .. Len(asked.roots) /\ IsSought(asked.tree[x[2]])
      BY SoughtFacts DEF QType
    <3>3. CASE Passed(x)
      BY <3>1, <3>3 DEF Kept
    <3>4. CASE x[1] = root /\ x[2] = entry
      BY <3>2, <3>4 DEF Seen
    <3>5. CASE x[1] = root /\ x[2] > entry
      <4>1. Cut /\ asked.tree[x[2]].depth > Seen.depth
        BY <1>1, <1>2, <2>2, <3>1, <3>2, <3>5 DEF Onward
      <4>2. asked.tree[x[2]].depth \in Nat /\ Seen.depth \in Nat /\ asked.depth \in Nat
        BY <1>1, <3>2, AskedFacts DEF QType, Seen
      <4> QED BY <3>2, <4>1, <4>2 DEF IsSought, Cut
    <3> QED BY <1>1, <2>2, <3>2, <3>3, <3>4, <3>5 DEF Passed, QType
  <2> QED BY <1>1, <2>1, <2>2 DEF Kept, Passed
<1>6. Comparing' /\ Printed'
  BY <1>1 DEF Comparing, Printed
<1> QED BY <1>1, <1>3, <1>4, <1>5, <1>6

-----------------------------------------------------------------------------
(* Every question starts in the invariant.                                  *)
LEMMA QStart == QueryInit => QInv
<1> SUFFICES ASSUME QueryInit PROVE QInv
  OBVIOUS
<1>1. Len(asked.roots) \in Nat /\ Len(asked.tree) \in Nat
  BY AskedFacts DEF QueryInit
<1>2. QType
  BY <1>1 DEF QueryInit, QType
<1>3. Level
  BY <1>1, AskedFacts DEF QueryInit, Level, Seen
<1>4. Comparing /\ Printed
  BY DEF QueryInit, Comparing, Printed
<1>5. ASSUME NEW x \in Sought PROVE ~ Passed(x)
  <2>1. x[1] \in 1 .. Len(asked.roots) /\ x[2] \in 1 .. Len(asked.tree)
    BY SoughtFacts DEF QueryInit
  <2> QED BY <1>1, <2>1 DEF QueryInit, Passed
<1>6. Kept
  BY <1>5 DEF QueryInit, Kept
<1> QED BY <1>2, <1>3, <1>4, <1>6 DEF QInv

(* The comparison of an entry's name with a glob.                           *)
LEMMA GlobFacts ==
    ASSUME QType, Comparing, phase = "match"
    PROVE  /\ Glob \in Seq(STRING) /\ Name \in Seq(STRING)
           /\ Here /\ RightType(Seen) /\ k \in 1 .. Len(asked.names)
           /\ Loop(Glob, Name, p, t, star, IF star = 0 THEN 1 ELSE mark)
           /\ p \in Nat /\ t \in Nat /\ star \in Nat /\ Len(Name) \in Nat /\ Len(Glob) \in Nat
           /\ p \in 1 .. Len(Glob) + 1 /\ t \in 1 .. Len(Name) + 1
<1>1. Here /\ entry \in 1 .. Len(asked.tree) /\ k \in 1 .. Len(asked.names)
  BY AskedFacts DEF Comparing, QType, Here
<1>2. Glob \in Seq(STRING) /\ Name \in Seq(STRING)
  BY <1>1, AskedFacts, SMTT(20) DEF QType, Glob, Name, Seen
<1>3. Len(Name) \in Nat /\ Len(Glob) \in Nat
  BY <1>2
<1> QED BY <1>1, <1>2, <1>3 DEF Comparing, Loop

(* A turn of the loop leaves everything else as it is.                      *)
LEMMA LoopOn ==
    ASSUME QInv, PlainNames, phase = "match", UNCHANGED Elsewhere,
           Loop(Glob, Name, p', t', star', IF star' = 0 THEN 1 ELSE mark')
    PROVE  QInv'
<1>1. /\ asked' = asked /\ phase' = phase /\ root' = root /\ entry' = entry /\ k' = k
      /\ found' = found /\ lines' = lines /\ lost' = lost
  BY DEF Elsewhere
<1>2. QType' /\ Level' /\ Printed'
  BY <1>1 DEF QInv, QType, Level, Seen, Printed, Here
<1>3. Kept'
  BY <1>1, SameQuestion DEF QInv, Kept, Passed
<1>4. Glob' = Glob /\ Name' = Name /\ Seen' = Seen
  BY <1>1 DEF Glob, Name, Seen
<1>5. Comparing'
  BY <1>1, <1>4 DEF QInv, Comparing, Here, RightType
<1> QED BY <1>2, <1>3, <1>5 DEF QInv

(* glob_match: each turn.                                                   *)
LEMMA TurnStep ==
    ASSUME QInv, PlainNames, MatchChar \/ MeetStar \/ Backtrack PROVE QInv'
<1> DEFINE m == IF star = 0 THEN 1 ELSE mark
<1>1. phase = "match" /\ QType /\ Comparing /\ t <= Len(Name) /\ UNCHANGED Elsewhere
  BY DEF MatchChar, MeetStar, Backtrack, Scanning, QInv
<1>2. /\ Glob \in Seq(STRING) /\ Name \in Seq(STRING) /\ Loop(Glob, Name, p, t, star, m)
      /\ p \in 1 .. Len(Glob) + 1 /\ t \in 1 .. Len(Name)
  BY <1>1, GlobFacts
<1>3. Name[t] # "*"
  <2>1. entry \in DOMAIN asked.tree
    BY <1>1, GlobFacts, AskedFacts, SMTT(20) DEF Here, QType
  <2> QED BY <1>2, <2>1 DEF PlainNames, Name, Seen
<1> HIDE DEF m
<1>4. CASE MatchChar
  <2>1. p <= Len(Glob) /\ Glob[p] # "*" /\ Glob[p] \in {"?", Name[t]}
    BY <1>3, <1>4 DEF MatchChar, SameChar
  <2>2. Loop(Glob, Name, p + 1, t + 1, star, m)
    BY <1>2, <2>1, LoopChar
  <2>3. p' = p + 1 /\ t' = t + 1 /\ star' = star /\ mark' = mark
    BY <1>4 DEF MatchChar
  <2> QED BY <1>1, <2>2, <2>3, LoopOn DEF m
<1>5. CASE MeetStar
  <2>1. Loop(Glob, Name, p + 1, t, p, t)
    BY <1>2, <1>5, LoopStar DEF MeetStar, IsStar
  <2>2. p' = p + 1 /\ t' = t /\ star' = p /\ mark' = t /\ p # 0
    BY <1>2, <1>5 DEF MeetStar
  <2> QED BY <1>1, <2>1, <2>2, LoopOn
<1>6. CASE Backtrack
  <2>1. star # 0 /\ m = mark
    BY <1>6 DEF Backtrack, m
  <2>2. p <= Len(Glob) => Glob[p] # "*" /\ Glob[p] \notin {"?", Name[t]}
    BY <1>6 DEF Backtrack, SameChar, IsStar
  <2>3. Loop(Glob, Name, star + 1, mark + 1, star, mark + 1)
    BY <1>2, <2>1, <2>2, LoopBack
  <2>4. p' = star + 1 /\ t' = mark + 1 /\ star' = star /\ mark' = mark + 1
    BY <1>6 DEF Backtrack
  <2> QED BY <1>1, <2>1, <2>3, <2>4, LoopOn
<1> QED BY <1>4, <1>5, <1>6

(* glob_match returns what Fits says.                                       *)
LEMMA GlobDecides ==
    ASSUME QInv, PlainNames, phase = "match"
    PROVE  (Matched => Fits(Glob, Name)) /\ (Unmatched => ~ Fits(Glob, Name))
<1> DEFINE m == IF star = 0 THEN 1 ELSE mark
<1>1. /\ Glob \in Seq(STRING) /\ Name \in Seq(STRING) /\ Loop(Glob, Name, p, t, star, m)
  BY GlobFacts DEF QInv
<1> HIDE DEF m
<1>2. Matched => Fits(Glob, Name)
  BY <1>1, LoopHit DEF Matched
<1>3. ASSUME Scanning, ~ SameChar, ~ IsStar, star = 0 PROVE ~ Fits(Glob, Name)
  BY <1>1, <1>3, LoopMiss DEF Scanning, SameChar, IsStar
<1>4. ASSUME t > Len(Name), \E j \in p .. Len(Glob) : Glob[j] # "*" PROVE ~ Fits(Glob, Name)
  BY <1>1, <1>4, LoopEnds
<1> QED BY <1>2, <1>3, <1>4 DEF Unmatched

-----------------------------------------------------------------------------
(* Each action keeps the invariant.                                         *)
LEMMA QTypeStep == QType /\ [QueryNext]_qvars => QType'
<1> SUFFICES ASSUME QType, [QueryNext]_qvars PROVE QType'
  OBVIOUS
<1>1. /\ Len(asked.roots) \in Nat /\ Len(asked.tree) \in Nat
      /\ root \in 1 .. Len(asked.roots) + 1 /\ entry \in 1 .. Len(asked.tree) + 1
  BY AskedFacts DEF QType
<1>2. CASE Onward /\ Here
  <2>1. entry' \in 1 .. Len(asked.tree) + 1
    BY <1>1, <1>2 DEF Onward, Here
  <2> QED BY <2>1, <1>2 DEF QType, Onward
<1>3. CASE PassOver \/ KeepUnnamed \/ KeepMatched \/ NoneMatches
  BY <1>2, <1>3 DEF PassOver, KeepUnnamed, KeepMatched, NoneMatches, Matched, Unmatched, Scanning,
                    QType
<1>4. CASE MatchChar \/ MeetStar \/ Backtrack
  BY <1>4 DEF MatchChar, MeetStar, Backtrack, Elsewhere, QType, Here
<1>5. CASE Compare \/ TryNextGlob
  BY <1>5 DEF Compare, TryNextGlob, Unmatched, Scanning, StartGlob, QType, Here
<1>6. CASE NextRoot
  BY <1>1, <1>6 DEF NextRoot, QType
<1>7. CASE RefuseQuestion \/ BeginWalk \/ UNCHANGED qvars
  BY <1>7 DEF RefuseQuestion, BeginWalk, qvars, QType, Here
<1>8. CASE Answer
  BY <1>1, <1>8 DEF Answer, QType
<1> QED
  BY <1>3, <1>4, <1>5, <1>6, <1>7, <1>8 DEF QueryNext, GlobStep

(* An entry without a name to compare, or with the last one compared.       *)
LEMMA KeepStep ==
    ASSUME QInv, PlainNames, PassOver \/ KeepUnnamed \/ KeepMatched \/ NoneMatches
    PROVE  QInv'
<1>1. Here /\ Onward
  BY DEF PassOver, KeepUnnamed, KeepMatched, NoneMatches, Matched, Unmatched, Scanning, QInv, QType
<1>2. /\ found \subseteq Sought /\ (IsSought(Seen) <=> <<root, entry>> \in Sought)
      /\ ~ Passed(<<root, entry>>)
      /\ asked.depth > 0 => Seen.depth < asked.depth
  BY <1>1, Decided, AskedFacts DEF QInv, Kept, Passed, QType, Level, Here
<1>3. CASE PassOver
  <2>1. ~ IsSought(Seen) /\ found' = found
    BY <1>3 DEF PassOver, IsSought
  <2> QED BY <1>1, <1>2, <2>1, WalkOn
<1>4. CASE KeepUnnamed
  <2>1. IsSought(Seen) /\ found' = found \cup {<<root, entry>>}
    BY <1>2, <1>4 DEF KeepUnnamed, Keep, IsSought
  <2> QED BY <1>1, <2>1, WalkOn
<1>5. ASSUME phase = "match"
      PROVE  /\ RightType(Seen) /\ k \in DOMAIN asked.names /\ asked.names # <<>>
             /\ asked.names \in Seq(Seq(STRING))
             /\ \A n \in 1 .. k - 1 : ~ Fits(asked.names[n], Name)
  <2>1. Comparing /\ asked \in Questions
    BY DEF QInv, QType
  <2>2. /\ RightType(Seen) /\ k \in 1 .. Len(asked.names)
        /\ \A n \in 1 .. k - 1 : ~ Fits(asked.names[n], Name)
    BY <1>5, <2>1, Zenon DEF Comparing
  <2>3. asked.names \in Seq(Seq(STRING))
    BY <2>1, AskedFacts, Zenon
  <2>4. k \in DOMAIN asked.names /\ asked.names # <<>>
    BY <2>2, <2>3
  <2> QED BY <2>2, <2>3, <2>4, Zenon
<1>6. CASE KeepMatched
  <2>1. Fits(Glob, Name) /\ phase = "match" /\ found' = found \cup {<<root, entry>>}
    BY <1>6, GlobDecides DEF KeepMatched, Matched, Keep
  <2>2. IsSought(Seen)
    BY <1>2, <1>5, <2>1 DEF IsSought, Glob, Name
  <2> QED BY <1>1, <2>1, <2>2, WalkOn
<1>7. CASE NoneMatches
  <2>1. ~ Fits(Glob, Name) /\ phase = "match" /\ found' = found /\ k = Len(asked.names)
    BY <1>7, GlobDecides DEF NoneMatches, Unmatched, Scanning
  <2>2. \A n \in DOMAIN asked.names : n \in 1 .. k - 1 \/ n = k
    BY <1>5, <2>1
  <2>3. ~ IsSought(Seen)
    BY <1>5, <2>1, <2>2 DEF IsSought, Glob, Name
  <2> QED BY <1>1, <1>2, <2>1, <2>3, WalkOn
<1> QED BY <1>3, <1>4, <1>6, <1>7

(* The comparison with the first or the next glob starts.                   *)
LEMMA StartStep ==
    ASSUME QInv, PlainNames, Compare \/ TryNextGlob PROVE QInv'
<1>1. /\ asked' = asked /\ phase' = "match" /\ root' = root /\ entry' = entry
      /\ found' = found /\ lines' = lines /\ lost' = lost
      /\ p' = 1 /\ t' = 1 /\ star' = 0 /\ mark' = 0 /\ QType /\ Comparing /\ Level
  BY DEF Compare, TryNextGlob, StartGlob, QInv
<1>2. Here /\ RightType(Seen)
  BY DEF Compare, TryNextGlob, Unmatched, Scanning, QInv, QType, Comparing
<1>3. /\ k' \in 1 .. Len(asked.names)
      /\ \A n \in 1 .. k' - 1 : ~ Fits(asked.names[n], Name)
  <2>1. CASE Compare
    BY <1>1, <2>1, AskedFacts DEF Compare, StartGlob, QType
  <2>2. CASE TryNextGlob
    <3>1. /\ k' = k + 1 /\ k < Len(asked.names) /\ ~ Fits(asked.names[k], Name)
          /\ k \in 1 .. Len(asked.names) /\ \A n \in 1 .. k - 1 : ~ Fits(asked.names[n], Name)
      BY <2>2, GlobDecides DEF TryNextGlob, StartGlob, Unmatched, Scanning, QInv, Comparing, Glob
    <3>2. \A n \in 1 .. k' - 1 : n \in 1 .. k - 1 \/ n = k
      BY <3>1
    <3>3. Len(asked.names) \in Nat
      BY <1>1, AskedFacts DEF QType
    <3> QED BY <3>1, <3>2, <3>3
  <2> QED BY <2>1, <2>2
<1>4. asked.names[k'] \in Seq(STRING) /\ Name \in Seq(STRING)
  <2>1. asked \in Questions /\ entry \in 1 .. Len(asked.tree)
    BY <1>1, <1>2, AskedFacts DEF QType, Here
  <2>2. asked.names \in Seq(Seq(STRING)) /\ asked.tree[entry].name \in Seq(STRING)
    BY <2>1, AskedFacts
  <2> QED BY <1>3, <2>2 DEF Name, Seen
<1>5. Comparing'
  <2>1. Loop(asked.names[k'], Name, 1, 1, 0, 1)
    BY <1>4, LoopStart
  <2> QED BY <1>1, <1>2, <1>3, <2>1 DEF Comparing, Here, RightType, Seen, Name, Glob
<1>6. Kept'
  BY <1>1, SameQuestion DEF QInv, Kept, Passed
<1>7. QType' /\ Level' /\ Printed'
  BY <1>1, <1>2 DEF QType, Here, Level, Seen, Printed
<1> QED BY <1>5, <1>6, <1>7 DEF QInv

(* The other steps: between roots, and at the ends.                         *)
LEMMA RootStep ==
    ASSUME QInv, PlainNames, NextRoot PROVE QInv'
<1>1. /\ asked' = asked /\ phase' = "walk" /\ root' = root + 1 /\ entry' = 1 /\ found' = found
      /\ lines' = lines /\ lost' = lost
      /\ QType /\ Kept
  BY DEF NextRoot, QInv
<1>2. Level'
  BY <1>1, AskedFacts DEF QType, Level, Seen
<1>3. Kept'
  <2>1. ASSUME NEW x \in Sought, x[1] < root + 1 \/ (x[1] = root + 1 /\ x[2] < 1)
        PROVE  Passed(x)
    <3>1. /\ x[1] \in 1 .. Len(asked.roots) /\ x[2] \in 1 .. Len(asked.tree)
          /\ asked.roots[x[1]] = "here"
          /\ Len(asked.roots) \in Nat /\ Len(asked.tree) \in Nat
      BY <1>1, SoughtFacts DEF QType
    <3>2. x[1] < root \/ x[1] = root
      BY <1>1, <2>1, <3>1 DEF QType
    <3>3. x[1] = root => x[2] < entry
      BY <1>1, <3>1 DEF NextRoot, Here, QType
    <3> QED BY <3>2, <3>3 DEF Passed
  <2>2. Sought' = Sought
    BY <1>1, SameQuestion
  <2> QED BY <1>1, <2>1, <2>2 DEF Kept, Passed
<1>4. Comparing' /\ Printed' /\ QType'
  BY <1>1, QTypeStep DEF Comparing, Printed, QueryNext
<1> QED BY <1>2, <1>3, <1>4 DEF QInv

LEMMA EndStep ==
    ASSUME QInv, PlainNames, RefuseQuestion \/ BeginWalk \/ Answer \/ UNCHANGED qvars PROVE QInv'
<1>1. asked' = asked /\ root' = root /\ entry' = entry /\ found' = found /\ lost' = lost
  BY DEF RefuseQuestion, BeginWalk, Answer, qvars
<1>2. Kept' /\ Level'
  BY <1>1, SameQuestion DEF QInv, Kept, Passed, Level, Seen
<1>3. Comparing' /\ Printed'
  <2>1. CASE UNCHANGED qvars
    <3>1. UNCHANGED Elsewhere /\ p' = p /\ t' = t /\ star' = star /\ mark' = mark
      BY <2>1 DEF qvars, glob, Elsewhere
    <3>2. CASE phase = "match"
      <4>1. Loop(Glob, Name, p, t, star, IF star = 0 THEN 1 ELSE mark)
        BY <3>2 DEF QInv, Comparing
      <4>2. Loop(Glob, Name, p', t', star', IF star' = 0 THEN 1 ELSE mark')
        BY <3>1, <4>1
      <4>3. QInv'
        BY <3>1, <3>2, <4>2, LoopOn
      <4> QED BY <1>1, <4>3, SameQuestion DEF QInv
    <3>3. CASE phase # "match"
      BY <2>1, <3>3 DEF QInv, Comparing, Printed, qvars
    <3> QED BY <3>2, <3>3 DEF QInv
  <2>2. CASE RefuseQuestion \/ BeginWalk \/ Answer
    BY <1>1, <2>2 DEF RefuseQuestion, BeginWalk, Answer, Comparing, Printed
  <2> QED BY <2>1, <2>2
<1>4. QType'
  BY QTypeStep DEF QInv, QueryNext
<1> QED BY <1>2, <1>3, <1>4 DEF QInv

LEMMA QStep == QInv /\ [QueryNext]_qvars => QInv'
<1> SUFFICES ASSUME QInv, [QueryNext]_qvars PROVE QInv'
  OBVIOUS
<1>1. QType'
  BY QTypeStep DEF QInv
<1>2. CASE ~ PlainNames
  <2>1. asked' = asked
    BY DEF QueryNext, RefuseQuestion, BeginWalk, NextRoot, PassOver, KeepUnnamed, Compare, GlobStep,
           MatchChar, MeetStar, Backtrack, KeepMatched, TryNextGlob, NoneMatches, Answer, Onward,
           Elsewhere, qvars
  <2> QED BY <1>1, <1>2, <2>1, SameQuestion DEF QInv
<1>3. CASE PlainNames
  BY <1>3, TurnStep, KeepStep, StartStep, RootStep, EndStep DEF QueryNext, GlobStep
<1> QED BY <1>2, <1>3

-----------------------------------------------------------------------------
(* execute_file_query, execute_text_search and the lists: whatever is       *)
(* asked, of whatever trees and with whatever globs, what is found is what  *)
(* is sought, and glob_match never gives up early nor goes on for too long. *)
THEOREM AnswersAlwaysRight == QuerySpec => []AnswersRight
<1>1. QInv => AnswersRight
  <2> SUFFICES ASSUME QInv, phase = "answered", PlainNames
      PROVE /\ found \subseteq Sought
            /\ ~ lost => found = Sought
            /\ asked.kind = "text" =>
                 \A x \in found : LET text == asked.tree[x[2]].text IN
                    /\ \A n \in DOMAIN text : <<x, n>> \in lines => text[n] = "hit"
                    /\ (\A n \in DOMAIN text : text[n] # "binary") =>
                         \A n \in DOMAIN text : text[n] = "hit" => <<x, n>> \in lines
    BY DEF AnswersRight
  <2>1. Kept /\ Printed /\ QType /\ root = Len(asked.roots) + 1
    BY DEF QInv, QType
  <2>2. ASSUME NEW x \in Sought PROVE Passed(x)
    <3>1. x[1] \in 1 .. Len(asked.roots) /\ Len(asked.roots) \in Nat
      BY <2>1, SoughtFacts DEF QType
    <3> QED BY <2>1, <3>1 DEF Passed
  <2>3. found \subseteq Sought /\ (~ lost => found = Sought)
    BY <2>1, <2>2 DEF Kept
  <2>4. ASSUME asked.kind = "text", NEW x \in found
        PROVE  \A n : <<x, n>> \in lines <=> n \in Prints(asked.tree[x[2]])
    BY <2>1, <2>4 DEF Printed
  <2>5. ASSUME asked.kind = "text", NEW x \in found
        PROVE  LET text == asked.tree[x[2]].text IN
                 /\ \A n \in DOMAIN text : <<x, n>> \in lines => text[n] = "hit"
                 /\ (\A n \in DOMAIN text : text[n] # "binary") =>
                      \A n \in DOMAIN text : text[n] = "hit" => <<x, n>> \in lines
    <3>1. x[2] \in 1 .. Len(asked.tree) /\ asked.tree \in Seq(Entry)
      BY <2>1, <2>3, AskedFacts, SoughtFacts DEF QType
    <3>2. asked.tree[x[2]].text \in Seq({"hit", "miss", "binary"})
      <4>1. asked.tree[x[2]] \in Entry
        BY <3>1
      <4> QED BY <4>1 DEF Entry
    <3> DEFINE text == asked.tree[x[2]].text
    <3>3. \A n \in DOMAIN text : \A j \in 1 .. n : j \in DOMAIN text
      BY <3>2
    <3>4. \A n \in DOMAIN text : <<x, n>> \in lines
             <=> text[n] = "hit" /\ \A j \in 1 .. n : text[j] # "binary"
      BY <2>4, <2>5 DEF Prints
    <3> QED BY <3>3, <3>4
  <2> QED BY <2>3, <2>5
<1> QED BY <1>1, QStart, QStep, PTL DEF QuerySpec
=============================================================================
