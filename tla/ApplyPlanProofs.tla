-------------------------- MODULE ApplyPlanProofs ---------------------------
(* Theorems of ApplyPlan, for every well-formed graph of derivations.       *)
EXTENDS ApplyPlan, SequenceTheorems, TLAPS

Call == [node : Hashes, next : Nat]

(* dfs between two steps, with n calls in progress: they form a path from   *)
(* the root; every node seen is on it or placed, never both; of each call's *)
(* node the children already looked at are placed, but for the one being    *)
(* called.                                                                  *)
PathOK ==
    /\ \A i \in 1 .. Len(calls) : calls[i].node \in g.nodes /\ calls[i].next >= 1
    /\ \A i \in 1 .. Len(calls) - 1 : calls[i + 1].node \in ChildSet(g, calls[i].node)
    /\ \A i, j \in 1 .. Len(calls) : calls[i].node = calls[j].node => i = j

SeenOK ==
    /\ seen = Placed \cup {calls[i].node : i \in 1 .. Len(calls)}
    /\ \A i \in 1 .. Len(calls) : calls[i].node \notin Placed
    /\ Placed \subseteq g.nodes

LookedAt(i) == {g.children[calls[i].node][k] : k \in {m \in DOMAIN g.children[calls[i].node] : m < calls[i].next}}

DoneOK ==
    \A i \in 1 .. Len(calls) : \A c \in LookedAt(i) :
       c \in Placed \/ (i < Len(calls) /\ c = calls[i + 1].node)

RootOK == IF calls = <<>> THEN g.root \in Placed ELSE calls[1].node = g.root

OrderOK ==
    /\ \A i, j \in DOMAIN order : order[i] = order[j] => i = j
    /\ \A i \in DOMAIN order : \A c \in ChildSet(g, order[i]) :
          \E j \in 1 .. i - 1 : order[j] = c

(* The inductive invariant for a blueprint, and for any apply: a document   *)
(* has its order already.                                                   *)
OInv == ~ g.doc /\ TypeOK /\ PathOK /\ SeenOK /\ DoneOK /\ RootOK /\ OrderOK
Inv  == OInv \/ (g.doc /\ TypeOK /\ stage # "order")

(* What the graph is assumed to be.                                         *)
LEMMA GraphFacts ==
    ASSUME TypeOK
    PROVE  g \in Graph /\ (~ g.doc => WellFormed(g))
  BY ApplyPlanAssumption DEF ApplyPlanAssumption, TypeOK

(* The call on top.                                                         *)
LEMMA TopCall ==
    ASSUME ~ g.doc, TypeOK, PathOK, calls # <<>>
    PROVE  /\ Len(calls) \in Nat \ {0} /\ top = calls[Len(calls)] /\ top \in Call
           /\ top.node \in g.nodes
           /\ Kids \in Seq(Hashes) /\ Kids = g.children[top.node]
           /\ HasChild => Child \in g.nodes /\ Child \in ChildSet(g, top.node)
<1>1. calls \in Seq(Call)
  BY DEF TypeOK, Call
<1>2. Len(calls) \in Nat \ {0} /\ top \in Call
  <2>1. Len(calls) \in Nat /\ Len(calls) # 0
    BY <1>1
  <2> QED BY <1>1, <2>1 DEF top
<1>3. top.node \in g.nodes
  BY <1>2 DEF PathOK, top
<1>4. Kids \in Seq(Hashes)
  BY <1>2, GraphFacts DEF Kids, Graph, Call
<1>5. HasChild => Child \in ChildSet(g, top.node)
  BY DEF HasChild, Child, Kids, ChildSet
<1> QED BY <1>2, <1>3, <1>4, <1>5, GraphFacts DEF WellFormed, Kids, top

(* The sequences of the next state.                                         *)
LEMMA ProceedCalls ==
    ASSUME TypeOK, calls # <<>>
    PROVE  /\ Proceed \in Seq(Call) /\ Len(Proceed) = Len(calls)
           /\ \A i \in 1 .. Len(calls) : Proceed[i].node = calls[i].node
           /\ \A i \in 1 .. Len(calls) - 1 : Proceed[i] = calls[i]
           /\ Proceed[Len(calls)].next = top.next + 1
<1> DEFINE n == Len(calls)
           c == [calls[n] EXCEPT !.next = @ + 1]
<1>1. calls \in Seq(Call)
  BY DEF TypeOK, Call
<1>2. n \in Nat /\ n >= 1 /\ \A i \in 1 .. n : calls[i] \in Call
  <2>1. n \in Nat /\ n # 0
    BY <1>1
  <2> QED BY <1>1, <2>1
<1>3. c \in Call /\ c.node = calls[n].node /\ c.next = top.next + 1
  BY <1>2 DEF Call, top
<1>4. Proceed = [calls EXCEPT ![n] = c]
  BY DEF Proceed
<1> HIDE DEF c
<1>5. /\ [calls EXCEPT ![n] = c] \in Seq(Call) /\ Len([calls EXCEPT ![n] = c]) = n
      /\ \A i \in 1 .. n - 1 : [calls EXCEPT ![n] = c][i] = calls[i]
      /\ [calls EXCEPT ![n] = c][n] = c
  BY <1>1, <1>2, <1>3
<1>6. \A i \in 1 .. n : Proceed[i].node = calls[i].node
  <2> SUFFICES ASSUME NEW i \in 1 .. n PROVE Proceed[i].node = calls[i].node
    OBVIOUS
  <2>1. i = n \/ i \in 1 .. n - 1
    BY <1>2
  <2> QED BY <2>1, <1>3, <1>4, <1>5
<1>7. Proceed \in Seq(Call) /\ Len(Proceed) = n
  BY <1>4, <1>5
<1>8. \A i \in 1 .. n - 1 : Proceed[i] = calls[i]
  BY <1>4, <1>5
<1>9. Proceed[n].next = top.next + 1
  BY <1>3, <1>4, <1>5
<1> QED BY <1>6, <1>7, <1>8, <1>9

(* No call in progress is a child of the call on top: the graph is acyclic. *)
LEMMA NoBackEdge ==
    ASSUME ~ g.doc, TypeOK, PathOK, calls # <<>>, NEW i \in 1 .. Len(calls)
    PROVE  calls[i].node \notin ChildSet(g, top.node)
<1> DEFINE n == Len(calls)
           S == {calls[k].node : k \in i .. n}
<1>1. n \in Nat \ {0} /\ top = calls[n]
  BY TopCall
<1>2. SUFFICES ASSUME calls[i].node \in ChildSet(g, top.node)
               PROVE  FALSE
  OBVIOUS
<1>3. S \in SUBSET g.nodes /\ S # {}
  BY <1>1 DEF PathOK
<1>4. PICK d \in S : ChildSet(g, d) \cap S = {}
  BY <1>3, GraphFacts DEF WellFormed
<1>5. PICK k \in i .. n : d = calls[k].node
  BY <1>4
<1>6. CASE k = n
  BY <1>1, <1>2, <1>4, <1>5, <1>6
<1>7. CASE k # n
  <2>1. k \in 1 .. n - 1 /\ k + 1 \in i .. n
    BY <1>1, <1>5, <1>7
  <2>2. calls[k + 1].node \in ChildSet(g, d)
    BY <2>1, <1>5 DEF PathOK
  <2> QED BY <2>1, <2>2, <1>4
<1> QED BY <1>6, <1>7

(* Looking at a child, called or not: the state before the call.            *)
LEMMA OInvSkip ==
    ASSUME OInv, Skip
    PROVE  OInv'
<1> DEFINE n == Len(calls)
<1>1. /\ n \in Nat \ {0} /\ top = calls[n] /\ top \in Call /\ top.node \in g.nodes
      /\ Kids \in Seq(Hashes) /\ Kids = g.children[top.node] /\ Child \in g.nodes /\ Child \in ChildSet(g, top.node)
  BY TopCall DEF OInv, Skip, Calling
<1>2. /\ calls' \in Seq(Call) /\ Len(calls') = n
      /\ \A i \in 1 .. n : calls'[i].node = calls[i].node
      /\ \A i \in 1 .. n - 1 : calls'[i] = calls[i]
      /\ calls'[n].next = top.next + 1
  BY ProceedCalls DEF OInv, Skip, Calling
<1>3. UNCHANGED <<g, stage, seen, order, at, urls, realized, session, result>> /\ Placed' = Placed
  BY DEF Skip, Placed
<1>4. Child \in Placed
  <2>1. \A i \in 1 .. n : calls[i].node # Child
    BY <1>1, NoBackEdge DEF OInv, Skip, Calling
  <2> QED BY <2>1 DEF OInv, SeenOK, Skip
<1>5. TypeOK'
  BY <1>2, <1>3 DEF OInv, TypeOK, session, Call
<1>6. PathOK'
  <2>1. \A i \in 1 .. n : calls'[i].next >= 1
    <3> SUFFICES ASSUME NEW i \in 1 .. n PROVE calls'[i].next >= 1
      OBVIOUS
    <3>1. i = n \/ i \in 1 .. n - 1
      BY <1>1
    <3> QED BY <3>1, <1>1, <1>2 DEF OInv, PathOK, Call
  <2>2. \A i \in 1 .. n : calls'[i].node \in g.nodes
    BY <1>2 DEF OInv, PathOK
  <2>3. \A i \in 1 .. n - 1 : calls'[i + 1].node \in ChildSet(g, calls'[i].node)
    <3> SUFFICES ASSUME NEW i \in 1 .. n - 1
                 PROVE  calls'[i + 1].node \in ChildSet(g, calls'[i].node)
      OBVIOUS
    <3>1. i \in 1 .. n /\ i + 1 \in 1 .. n
      BY <1>1
    <3> QED BY <3>1, <1>2 DEF OInv, PathOK
  <2>4. \A i, j \in 1 .. n : calls'[i].node = calls'[j].node => i = j
    BY <1>2 DEF OInv, PathOK
  <2> QED BY <2>1, <2>2, <2>3, <2>4, <1>2, <1>3 DEF PathOK, ChildSet
<1>7. SeenOK'
  BY <1>2, <1>3 DEF OInv, SeenOK
<1>8. DoneOK'
  <2> SUFFICES ASSUME NEW i \in 1 .. n, NEW c \in LookedAt(i)'
               PROVE  c \in Placed \/ (i < n /\ c = calls'[i + 1].node)
    BY <1>2, <1>3 DEF DoneOK
  <2>1. CASE i \in 1 .. n - 1
    <3>1. c \in LookedAt(i)
      BY <2>1, <1>2, <1>3 DEF LookedAt
    <3> QED BY <3>1, <2>1, <1>1, <1>2 DEF OInv, DoneOK
  <2>2. CASE i = n
    <3>1. c \in LookedAt(n) \/ c = Child
      <4>1. PICK k \in DOMAIN Kids : k < top.next + 1 /\ c = Kids[k]
        BY <2>2, <1>1, <1>2, <1>3 DEF LookedAt
      <4>2. k \in Nat /\ top.next \in Nat
        BY <1>1 DEF Call
      <4>3. k < top.next => c \in LookedAt(n)
        BY <4>1, <1>1 DEF LookedAt
      <4> QED BY <4>1, <4>2, <4>3 DEF Child
    <3>2. c \in LookedAt(n) => c \in Placed
      BY <1>1 DEF OInv, DoneOK
    <3> QED BY <3>1, <3>2, <1>4
  <2> QED BY <2>1, <2>2, <1>1
<1>9. RootOK'
  BY <1>1, <1>2, <1>3 DEF OInv, RootOK, Skip, Calling
<1>10. OrderOK'
  BY <1>3 DEF OInv, OrderOK, ChildSet
<1> QED BY <1>3, <1>5, <1>6, <1>7, <1>8, <1>9, <1>10 DEF OInv

(* Calling dfs for a child not seen before.                                 *)
LEMMA OInvVisit ==
    ASSUME OInv, Visit
    PROVE  OInv'
<1> DEFINE n == Len(calls)
<1>1. /\ n \in Nat \ {0} /\ top = calls[n] /\ top \in Call /\ top.node \in g.nodes
      /\ Kids \in Seq(Hashes) /\ Kids = g.children[top.node] /\ Child \in g.nodes /\ Child \in ChildSet(g, top.node)
  BY TopCall DEF OInv, Visit, Calling
<1>2. /\ Proceed \in Seq(Call) /\ Len(Proceed) = n
      /\ \A i \in 1 .. n : Proceed[i].node = calls[i].node
      /\ \A i \in 1 .. n - 1 : Proceed[i] = calls[i]
      /\ Proceed[n].next = top.next + 1
  BY ProceedCalls DEF OInv, Visit, Calling
<1>3. g.nodes \subseteq Hashes
  BY GraphFacts DEF OInv, Graph
<1>4. Enter(Child) \in Call /\ Enter(Child).node = Child /\ Enter(Child).next = 1
  BY <1>1, <1>3 DEF Enter, Call
<1>5. calls' = Append(Proceed, Enter(Child))
  BY DEF Visit
<1>6. /\ calls' \in Seq(Call) /\ Len(calls') = n + 1
      /\ calls'[n + 1] = Enter(Child)
      /\ \A i \in 1 .. n : calls'[i] = Proceed[i]
  BY <1>1, <1>2, <1>4, <1>5
<1>7. /\ UNCHANGED <<g, stage, order, at, urls, realized, session, result>>
      /\ Placed' = Placed /\ seen' = seen \cup {Child} /\ Child \notin seen
  BY DEF Visit, Placed
<1>8. \A i \in 1 .. n : calls'[i].node = calls[i].node
  BY <1>2, <1>6
<1>9. Child \notin Placed /\ \A i \in 1 .. n : calls[i].node # Child
  BY <1>7 DEF OInv, SeenOK
<1>10. \A i \in 1 .. n + 1 : i \in 1 .. n \/ i = n + 1
  BY <1>1
<1>11. TypeOK'
  BY <1>1, <1>3, <1>6, <1>7 DEF OInv, TypeOK, session, Call
<1>12. PathOK'
  <2>1. \A i \in 1 .. n + 1 : calls'[i].node \in g.nodes /\ calls'[i].next >= 1
    <3>1. calls'[n + 1].node \in g.nodes /\ calls'[n + 1].next >= 1
      BY <1>1, <1>4, <1>6
    <3>2. ASSUME NEW i \in 1 .. n PROVE calls'[i].node \in g.nodes /\ calls'[i].next >= 1
      <4>1. i = n \/ i \in 1 .. n - 1
        BY <1>1
      <4> QED BY <4>1, <1>1, <1>2, <1>6, <1>8, SMTT(20) DEF OInv, PathOK, Call
    <3> QED BY <3>1, <3>2, <1>10
  <2>2. ASSUME NEW i \in 1 .. n PROVE calls'[i + 1].node \in ChildSet(g, calls'[i].node)
    <3>1. CASE i = n
      BY <3>1, <1>1, <1>4, <1>6, <1>8
    <3>2. CASE i # n
      <4>1. i \in 1 .. n - 1 /\ i + 1 \in 1 .. n
        BY <1>1, <3>2
      <4> QED BY <4>1, <1>8 DEF OInv, PathOK
    <3> QED BY <3>1, <3>2
  <2>3. \A i, j \in 1 .. n + 1 : calls'[i].node = calls'[j].node => i = j
    BY <1>4, <1>6, <1>8, <1>9, <1>10 DEF OInv, PathOK
  <2>4. Len(calls') - 1 = n
    BY <1>1, <1>6
  <2> QED BY <2>1, <2>2, <2>3, <2>4, <1>6, <1>7 DEF PathOK, ChildSet
<1>13. SeenOK'
  <2>1. {calls'[i].node : i \in 1 .. n + 1} = {calls[i].node : i \in 1 .. n} \cup {Child}
    <3>1. 1 .. n + 1 = (1 .. n) \cup {n + 1}
      BY <1>1
    <3> QED BY <3>1, <1>4, <1>6, <1>8
  <2>2. \A i \in 1 .. n + 1 : calls'[i].node \notin Placed
    BY <1>4, <1>6, <1>8, <1>9, <1>10 DEF OInv, SeenOK
  <2> QED BY <2>1, <2>2, <1>6, <1>7 DEF OInv, SeenOK
<1>14. DoneOK'
  <2> SUFFICES ASSUME NEW i \in 1 .. n + 1, NEW c \in LookedAt(i)'
               PROVE  c \in Placed \/ (i < n + 1 /\ c = calls'[i + 1].node)
    BY <1>6, <1>7 DEF DoneOK
  <2>1. CASE i \in 1 .. n - 1
    <3>1. c \in LookedAt(i) /\ i + 1 \in 1 .. n
      BY <2>1, <1>1, <1>2, <1>6, <1>7 DEF LookedAt
    <3> QED BY <3>1, <2>1, <1>1, <1>8 DEF OInv, DoneOK
  <2>2. CASE i = n
    <3>1. c \in LookedAt(n) \/ c = Child
      <4>1. PICK k \in DOMAIN Kids : k < top.next + 1 /\ c = Kids[k]
        BY <2>2, <1>1, <1>2, <1>6, <1>7 DEF LookedAt
      <4>2. k \in Nat /\ top.next \in Nat
        BY <1>1 DEF Call
      <4>3. k < top.next => c \in LookedAt(n)
        BY <4>1, <1>1 DEF LookedAt
      <4> QED BY <4>1, <4>2, <4>3 DEF Child
    <3>2. c \in LookedAt(n) => c \in Placed
      BY <1>1 DEF OInv, DoneOK
    <3> QED BY <3>1, <3>2, <2>2, <1>1, <1>4, <1>6
  <2>3. CASE i = n + 1
    <3>1. \A m \in DOMAIN g.children[Child] : ~ (m < 1)
      BY <1>1, <1>3, GraphFacts DEF OInv, Graph
    <3> QED BY <2>3, <3>1, <1>4, <1>6, <1>7 DEF LookedAt
  <2> QED BY <2>1, <2>2, <2>3, <1>1
<1>15. RootOK'
  <2>1. calls' # <<>> /\ calls # <<>>
    BY <1>1, <1>6 DEF Visit, Calling
  <2> QED BY <2>1, <1>1, <1>7, <1>8 DEF OInv, RootOK
<1>16. OrderOK'
  BY <1>7 DEF OInv, OrderOK, ChildSet
<1> QED BY <1>7, <1>11, <1>12, <1>13, <1>14, <1>15, <1>16 DEF OInv

(* A sequence without its last element.                                     *)
LEMMA FrontCalls ==
    ASSUME NEW s \in Seq(Call), NEW k \in Nat \ {0}, k = Len(s)
    PROVE  /\ SubSeq(s, 1, k - 1) \in Seq(Call) /\ Len(SubSeq(s, 1, k - 1)) = k - 1
           /\ \A i \in 1 .. k - 1 : SubSeq(s, 1, k - 1)[i] = s[i]
<1>1. \A i \in 1 .. k - 1 : s[i] \in Call
  OBVIOUS
<1>2. /\ SubSeq(s, 1, k - 1) \in Seq(Call)
      /\ Len(SubSeq(s, 1, k - 1)) = IF 1 <= k - 1 THEN (k - 1) - 1 + 1 ELSE 0
      /\ \A i \in 1 .. (k - 1) - 1 + 1 : SubSeq(s, 1, k - 1)[i] = s[1 + i - 1]
  BY <1>1, SubSeqProperties
<1>3. (IF 1 <= k - 1 THEN (k - 1) - 1 + 1 ELSE 0) = k - 1 /\ (k - 1) - 1 + 1 = k - 1
  OBVIOUS
<1>4. \A i \in 1 .. k - 1 : 1 + i - 1 = i
  OBVIOUS
<1> QED BY <1>2, <1>3, <1>4

(* Placing a node whose children have all been looked at.                   *)
LEMMA OInvPlace ==
    ASSUME OInv, Place
    PROVE  OInv'
<1> DEFINE n == Len(calls)
           m == Len(order)
<1>1. /\ n \in Nat \ {0} /\ top = calls[n] /\ top \in Call /\ top.node \in g.nodes
      /\ Kids \in Seq(Hashes) /\ Kids = g.children[top.node]
  BY TopCall DEF OInv, Place, Calling
<1>2. calls \in Seq(Call) /\ order \in Seq(Hashes) /\ m \in Nat
  BY DEF OInv, TypeOK, Call
<1>3. /\ calls' \in Seq(Call) /\ Len(calls') = n - 1
      /\ \A i \in 1 .. n - 1 : calls'[i] = calls[i]
  <2>1. n \in Nat \ {0} /\ calls' = SubSeq(calls, 1, n - 1)
    BY <1>1 DEF Place
  <2> QED BY <1>2, <2>1, FrontCalls
<1>4. /\ order' \in Seq(Hashes) /\ Len(order') = m + 1 /\ order'[m + 1] = top.node
      /\ \A i \in 1 .. m : order'[i] = order[i]
  BY <1>1, <1>2 DEF Place, Call
<1>5. /\ DOMAIN order = 1 .. m /\ DOMAIN order' = 1 .. m + 1
      /\ 1 .. m + 1 = (1 .. m) \cup {m + 1}
  BY <1>2, <1>4
<1>6. Placed' = Placed \cup {top.node}
  BY <1>4, <1>5 DEF Placed
<1>7. UNCHANGED <<g, stage, seen, at, urls, realized, session, result>>
  BY DEF Place
<1>8. top.node \notin Placed /\ \A i \in 1 .. n - 1 : calls[i].node # top.node
  BY <1>1 DEF OInv, PathOK, SeenOK
<1>9. ChildSet(g, top.node) \subseteq Placed
  <2> SUFFICES ASSUME NEW k \in DOMAIN Kids PROVE Kids[k] \in Placed
    BY <1>1 DEF ChildSet
  <2>1. k < top.next
    <3>1. top.next \notin DOMAIN Kids /\ top.next >= 1 /\ top.next \in Nat
      BY <1>1 DEF OInv, PathOK, Place, HasChild, Call
    <3> QED BY <3>1, <1>1
  <2>2. Kids[k] \in LookedAt(n)
    BY <2>1, <1>1 DEF LookedAt
  <2> QED BY <2>2, <1>1 DEF OInv, DoneOK
<1>10. TypeOK'
  BY <1>3, <1>4, <1>7 DEF OInv, TypeOK, session, Call
<1>11. PathOK'
  <2>1. \A i \in 1 .. n - 1 : i \in 1 .. n
    BY <1>1
  <2>2. \A i \in 1 .. n - 2 : /\ i \in 1 .. n - 1 /\ i + 1 \in 1 .. n - 1
                             /\ calls[i + 1].node \in ChildSet(g, calls[i].node)
    BY <1>1 DEF OInv, PathOK
  <2>3. Len(calls') - 1 = n - 2
    BY <1>1, <1>3
  <2>4. \A i \in 1 .. n - 2 : calls'[i + 1].node \in ChildSet(g, calls'[i].node)
    BY <2>2, <1>3
  <2>5. /\ \A i \in 1 .. n - 1 : calls'[i].node \in g.nodes /\ calls'[i].next >= 1
        /\ \A i, j \in 1 .. n - 1 : calls'[i].node = calls'[j].node => i = j
    BY <2>1, <1>3 DEF OInv, PathOK
  <2>6. g' = g
    BY <1>7
  <2>7. \A i \in 1 .. Len(calls') : calls'[i].node \in g'.nodes /\ calls'[i].next >= 1
    BY <2>5, <2>6, <1>3
  <2>8. \A i \in 1 .. Len(calls') - 1 : calls'[i + 1].node \in ChildSet(g', calls'[i].node)
    BY <2>3, <2>4, <2>6
  <2>9. \A i, j \in 1 .. Len(calls') : calls'[i].node = calls'[j].node => i = j
    BY <2>5, <1>3
  <2> QED BY <2>7, <2>8, <2>9 DEF PathOK
<1>12. SeenOK'
  <2>1. 1 .. n = (1 .. n - 1) \cup {n}
    BY <1>1
  <2>2. {calls[i].node : i \in 1 .. n} = {calls'[i].node : i \in 1 .. n - 1} \cup {top.node}
    BY <2>1, <1>1, <1>3
  <2>3. seen' = Placed' \cup {calls'[i].node : i \in 1 .. n - 1}
    BY <2>2, <1>6, <1>7 DEF OInv, SeenOK
  <2>4. \A i \in 1 .. n - 1 : calls'[i].node \notin Placed'
    BY <1>1, <1>3, <1>6, <1>8 DEF OInv, SeenOK
  <2>5. Placed' \subseteq g'.nodes
    BY <1>1, <1>6, <1>7 DEF OInv, SeenOK
  <2> QED BY <2>3, <2>4, <2>5, <1>3 DEF SeenOK
<1>13. DoneOK'
  <2> SUFFICES ASSUME NEW i \in 1 .. n - 1, NEW c \in LookedAt(i)'
               PROVE  c \in Placed' \/ (i < n - 1 /\ c = calls'[i + 1].node)
    BY <1>3 DEF DoneOK
  <2>1. c \in LookedAt(i)
    BY <1>1, <1>3, <1>7 DEF LookedAt
  <2>2. c \in Placed \/ c = calls[i + 1].node
    BY <2>1, <1>1 DEF OInv, DoneOK
  <2> QED BY <2>2, <1>1, <1>3, <1>6
<1>14. RootOK'
  <2>1. CASE n = 1
    BY <2>1, <1>1, <1>3, <1>6, <1>7 DEF OInv, RootOK, Place, Calling
  <2>2. CASE n # 1
    <3>1. calls' # <<>> /\ calls'[1] = calls[1]
      BY <2>2, <1>1, <1>3
    <3> QED BY <3>1, <1>7 DEF OInv, RootOK, Place, Calling
  <2> QED BY <2>1, <2>2
<1>15. OrderOK'
  <2>1. \A i \in 1 .. m : order[i] # top.node
    BY <1>5, <1>8 DEF Placed
  <2>2. \A i, j \in 1 .. m + 1 : order'[i] = order'[j] => i = j
    BY <2>1, <1>2, <1>4, <1>5 DEF OInv, OrderOK
  <2>3. ASSUME NEW i \in 1 .. m + 1, NEW c \in ChildSet(g, order'[i])
        PROVE  \E j \in 1 .. i - 1 : order'[j] = c
    <3>1. CASE i = m + 1
      <4>1. PICK j \in 1 .. m : order[j] = c
        BY <3>1, <2>3, <1>4, <1>5, <1>9 DEF Placed
      <4> QED BY <4>1, <3>1, <1>2, <1>4
    <3>2. CASE i \in 1 .. m
      <4>1. PICK j \in 1 .. i - 1 : order[j] = c
        BY <3>2, <2>3, <1>4, <1>5 DEF OInv, OrderOK
      <4>2. j \in 1 .. m
        BY <4>1, <3>2, <1>2
      <4> QED BY <4>1, <4>2, <1>4
    <3> QED BY <3>1, <3>2, <1>5
  <2>4. \A d : ChildSet(g', d) = ChildSet(g, d)
    BY <1>7
  <2>5. \A i \in 1 .. m + 1 : \A c \in ChildSet(g', order'[i]) : \E j \in 1 .. i - 1 : order'[j] = c
    BY <2>3, <2>4
  <2> QED BY <2>2, <2>5, <1>5 DEF OrderOK
<1> QED BY <1>7, <1>10, <1>11, <1>12, <1>13, <1>14, <1>15 DEF OInv

-----------------------------------------------------------------------------
(* The steps after the plan is made leave dfs's state alone.                *)
Later == \/ Ordered \/ Resolve \/ ResolveFails \/ ResolveNone \/ Resolved
         \/ Invalid \/ Preview \/ OpenSession
         \/ Realize \/ RealizeFails \/ RealizeNone \/ Record \/ EngineDone

LEMMA TodoType == ASSUME TypeOK, at \in DOMAIN order PROVE Todo \in Hashes
  BY DEF TypeOK, Todo

LEMMA LaterTypes == TypeOK /\ Later => TypeOK' /\ stage' # "order"
<1> SUFFICES ASSUME TypeOK, Later PROVE TypeOK' /\ stage' # "order"
  OBVIOUS
<1> USE DEF TypeOK, session
<1>1. CASE Ordered
  BY <1>1 DEF Ordered
<1>2. CASE Resolve
  BY <1>2, TodoType DEF Resolve, Is
<1>3. CASE Realize
  BY <1>3, TodoType DEF Realize, Is
<1>4. CASE ResolveFails \/ ResolveNone \/ Resolved \/ RealizeFails \/ RealizeNone \/ Invalid
  BY <1>4 DEF ResolveFails, ResolveNone, Resolved, RealizeFails, RealizeNone, Invalid
<1>5. CASE Preview \/ OpenSession \/ EngineDone
  BY <1>5 DEF Preview, OpenSession, EngineDone
<1>6. CASE Record
  BY <1>6, TodoType DEF Record
<1> QED BY <1>1, <1>2, <1>3, <1>4, <1>5, <1>6 DEF Later

LEMMA LaterSame == Later => UNCHANGED <<g, calls, seen, order>>
  BY DEF Later, Ordered, Resolve, ResolveFails, ResolveNone, Resolved, Invalid, Preview, OpenSession,
         Realize, RealizeFails, RealizeNone, Record, EngineDone

(* An apply starts in the invariant.                                        *)
LEMMA InvInit == Init => Inv
<1> SUFFICES ASSUME Init PROVE Inv
  OBVIOUS
<1>0. g \in Graph /\ (~ g.doc => WellFormed(g))
  BY ApplyPlanAssumption DEF ApplyPlanAssumption, Init
<1>1. CASE g.doc
  <2>1. g.plan \in Seq(Hashes) /\ g.urls \subseteq Hashes
    BY <1>0 DEF Graph
  <2>2. TypeOK /\ stage # "order"
    BY <1>1, <2>1 DEF Init, TypeOK
  <2> QED BY <1>1, <2>2 DEF Inv
<1>2. CASE ~ g.doc
  <2>1. g.root \in Hashes /\ g.root \in g.nodes /\ \A m \in DOMAIN g.children[g.root] : ~ (m < 1)
    BY <1>0, <1>2 DEF Graph, WellFormed
  <2>2. Enter(g.root) \in Call /\ Enter(g.root).node = g.root /\ Enter(g.root).next = 1
    BY <2>1 DEF Enter, Call
  <2>3. calls = <<Enter(g.root)>> /\ seen = {g.root} /\ stage = "order"
    BY <1>2 DEF Init
  <2>4. /\ calls \in Seq(Call) /\ Len(calls) = 1 /\ calls[1] = Enter(g.root) /\ calls # <<>>
        /\ \A i \in 1 .. 1 : i = 1
    BY <2>2, <2>3
  <2>5. order = <<>> /\ order \in Seq(Hashes) /\ DOMAIN order = {} /\ Placed = {} /\ urls = {}
    <3>1. order = <<>> /\ urls = {}
      BY <1>0, <1>2 DEF Init, WellFormed
    <3> QED BY <3>1 DEF Placed
  <2>6. TypeOK
    BY <2>1, <2>3, <2>4, <2>5 DEF Init, TypeOK, Call
  <2>7. PathOK
    BY <2>1, <2>2, <2>4 DEF PathOK
  <2>8. SeenOK
    BY <2>1, <2>2, <2>3, <2>4, <2>5 DEF SeenOK
  <2>9. DoneOK
    BY <2>1, <2>2, <2>4 DEF DoneOK, LookedAt
  <2>10. RootOK
    BY <2>2, <2>4 DEF RootOK
  <2>11. OrderOK
    BY <2>5 DEF OrderOK
  <2> QED BY <1>2, <2>6, <2>7, <2>8, <2>9, <2>10, <2>11 DEF Inv, OInv
<1> QED BY <1>1, <1>2

(* Every step keeps it.                                                     *)
LEMMA OInvNext == OInv /\ [Next]_vars => OInv'
<1> SUFFICES ASSUME OInv, [Next]_vars PROVE OInv'
  OBVIOUS
<1>1. CASE Later \/ UNCHANGED vars
  <2>1. TypeOK'
    BY <1>1, LaterTypes DEF OInv, vars, session, TypeOK
  <2>2. UNCHANGED <<g, calls, seen, order>>
    BY <1>1, LaterSame DEF vars
  <2> QED
    BY <2>1, <2>2
       DEF OInv, PathOK, SeenOK, DoneOK, RootOK, OrderOK, Placed, LookedAt, ChildSet
<1> QED BY <1>1, OInvVisit, OInvSkip, OInvPlace DEF Next, Later

LEMMA InvNext == Inv /\ [Next]_vars => Inv'
<1> SUFFICES ASSUME Inv, [Next]_vars PROVE Inv'
  OBVIOUS
<1>1. CASE OInv
  BY <1>1, OInvNext DEF Inv
<1>2. CASE g.doc /\ TypeOK /\ stage # "order"
  <2>1. CASE Later
    BY <1>2, <2>1, LaterTypes, LaterSame DEF Inv
  <2>2. CASE UNCHANGED vars
    BY <1>2, <2>2 DEF Inv, TypeOK, vars, session
  <2>3. ~ (Visit \/ Skip \/ Place)
    BY <1>2 DEF Visit, Skip, Place, Calling
  <2> QED BY <2>1, <2>2, <2>3 DEF Next, Later
<1> QED BY <1>1, <1>2 DEF Inv

(* The model's variables keep their types.                                  *)
THEOREM TypeCorrect == Spec => []TypeOK
<1>1. Inv => TypeOK
  BY DEF Inv, OInv
<1> QED BY <1>1, InvInit, InvNext, PTL DEF Spec

(* dfs, libs/kuli-bp/src/adapter.cpp: for every acyclic graph each          *)
(* derivation is placed once and after all its children.                    *)
THEOREM ChildrenAlwaysFirst == Spec => []ChildrenFirst
<1>1. Inv => ChildrenFirst
  BY DEF Inv, OInv, OrderOK, ChildrenFirst
<1> QED BY <1>1, InvInit, InvNext, PTL DEF Spec

-----------------------------------------------------------------------------
(* What dfs has seen is in every closed set that holds the root.            *)
Closed(gr, S) == gr.root \in S /\ \A d \in S : ChildSet(gr, d) \subseteq S
Minimal == \A S \in SUBSET g.nodes : Closed(g, S) => seen \subseteq S

LEMMA MinimalNext == Inv /\ (g.doc \/ Minimal) /\ [Next]_vars => (g.doc \/ Minimal)'
<1> SUFFICES ASSUME Inv, g.doc \/ Minimal, [Next]_vars PROVE (g.doc \/ Minimal)'
  OBVIOUS
<1>1. CASE Visit
  <2>1. g' = g /\ seen' = seen \cup {Child}
    BY <1>1 DEF Visit
  <2>2. OInv /\ Minimal
    BY <1>1 DEF Inv, OInv, Visit, Calling
  <2>3. top.node \in seen /\ Child \in ChildSet(g, top.node)
    BY <1>1, <2>2, TopCall DEF OInv, SeenOK, Visit, Calling
  <2>4. ASSUME NEW S \in SUBSET g.nodes, Closed(g, S) PROVE seen' \subseteq S
    BY <2>1, <2>2, <2>3, <2>4 DEF Minimal, Closed
  <2> QED BY <2>1, <2>4 DEF Minimal
<1>2. CASE UNCHANGED <<g, seen>>
  BY <1>2 DEF Minimal
<1> QED BY <1>1, <1>2, LaterSame DEF Next, Later, Skip, Place, vars

(* A finished plan is closed, so a blueprint's is valid.                    *)
LEMMA PlanClosed ==
    ASSUME OInv
    PROVE  /\ \A d \in Placed : ChildSet(g, d) \subseteq Placed
           /\ calls = <<>> => g.root \in Placed /\ Valid
<1>1. calls = <<>> => g.root \in Placed
  BY DEF OInv, RootOK
<1>2. \A d \in Placed : ChildSet(g, d) \subseteq Placed
  <2> SUFFICES ASSUME NEW i \in DOMAIN order, NEW c \in ChildSet(g, order[i]) PROVE c \in Placed
    BY DEF Placed
  <2>1. PICK j \in 1 .. i - 1 : order[j] = c
    BY DEF OInv, OrderOK
  <2>2. j \in DOMAIN order
    BY <2>1 DEF OInv, TypeOK
  <2> QED BY <2>1, <2>2 DEF Placed
<1>3. Placed \subseteq g.sound
  BY GraphFacts DEF OInv, SeenOK, WellFormed
<1> QED BY <1>1, <1>2, <1>3 DEF Valid

(* dfs is over before the document is validated, and nothing is refused.    *)
Accepted == ~ g.doc => (stage # "order" => calls = <<>>) /\ result # "invalid"

LEMMA SameGraph == [Next]_vars => g' = g
<1>1. CASE Visit \/ Skip \/ Place
  BY <1>1 DEF Visit, Skip, Place
<1>2. CASE Later
  BY <1>2, LaterSame
<1>3. CASE UNCHANGED vars
  BY <1>3 DEF vars
<1> QED BY <1>1, <1>2, <1>3 DEF Next, Later

LEMMA AcceptedNext == Inv /\ Accepted /\ [Next]_vars => Accepted'
<1> SUFFICES ASSUME Inv, Accepted, [Next]_vars, ~ g.doc
             PROVE  (stage' # "order" => calls' = <<>>) /\ result' # "invalid"
  <2> QED BY SameGraph DEF Accepted
<1>1. CASE Visit \/ Skip \/ Place
  BY <1>1 DEF Visit, Skip, Place, Calling, Accepted
<1>2. CASE Invalid
  <2>1. OInv /\ calls = <<>>
    BY <1>2 DEF Inv, Accepted, Invalid
  <2> QED BY <2>1, <1>2, PlanClosed DEF Invalid
<1>3. CASE Ordered
  BY <1>3 DEF Accepted, Ordered
<1>4. CASE Resolve \/ ResolveFails \/ ResolveNone \/ Resolved \/ Preview \/ OpenSession
  BY <1>4 DEF Accepted, Resolve, ResolveFails, ResolveNone, Resolved, Preview, OpenSession
<1>5. CASE Realize \/ RealizeFails \/ RealizeNone \/ Record \/ EngineDone
  BY <1>5 DEF Accepted, Realize, RealizeFails, RealizeNone, Record, EngineDone
<1>6. CASE UNCHANGED vars
  BY <1>6 DEF Accepted, vars
<1> QED BY <1>1, <1>2, <1>3, <1>4, <1>5, <1>6 DEF Next

(* to_apply_ir, libs/kuli-bp/src/adapter.cpp, and validate, libs/kuli-ir:   *)
(* the plan of a blueprint is exactly what the root reaches, and a document *)
(* the validator accepts.                                                   *)
THEOREM PlanAlwaysReach == Spec => []PlanIsReach
<1>1. Init => (g.doc \/ Minimal)
  BY DEF Init, Minimal, Closed
<1>2. Init => Accepted
  BY DEF Init, Accepted
<1>3. Inv /\ (g.doc \/ Minimal) /\ Accepted => PlanIsReach
  <2> SUFFICES ASSUME OInv, Minimal, Accepted, ~ g.doc PROVE PlanIsReach
    BY DEF Inv, PlanIsReach
  <2>1. \A S \in SUBSET g.nodes : Closed(g, S) => Placed \subseteq S
    BY DEF OInv, SeenOK, Minimal
  <2> QED BY <2>1, PlanClosed DEF PlanIsReach, Closed, Accepted
<1> QED BY <1>1, <1>2, <1>3, InvInit, InvNext, MinimalNext, AcceptedNext, PTL DEF Spec

-----------------------------------------------------------------------------
(* The two loops over the plan: what is before `at` has been dealt with,    *)
(* and what is at it when it is about to be recorded.                       *)
Before  == {i \in DOMAIN order : i < at}
Behind  == {order[i] : i \in Before}
Fetches == {d \in Placed : g.builder[d] = "fetch"}
LoopsOK ==
    /\ stage \in {"order", "resolve", "validate"} => realized = {} /\ result = "none"
    /\ stage = "order" => at = 1
    /\ stage = "resolve" => \A i \in Before : order[i] \in Fetches => order[i] \in urls
    /\ stage \in {"validate", "realize", "record"} => g.doc \/ g.dry \/ Fetches \subseteq urls
    /\ stage \in {"realize", "record"} => result = "none" /\ ~ g.dry
    /\ stage = "realize" => realized = {d \in Behind : g.builder[d] \in Stored}
    /\ stage = "record" => /\ at \in DOMAIN order
                           /\ realized = {d \in Behind \cup {Todo} : g.builder[d] \in Stored}
    /\ stage = "done" => StoreAfterUrls

LEMMA LoopsNext == TypeOK /\ LoopsOK /\ [Next]_vars => LoopsOK'
<1> SUFFICES ASSUME TypeOK, LoopsOK, [Next]_vars PROVE LoopsOK'
  OBVIOUS
<1>1. order \in Seq(Hashes) /\ at \in Nat \ {0} /\ g.builder \in [Hashes -> Builders]
  BY GraphFacts DEF TypeOK, Graph
<1>2. CASE Visit \/ Skip \/ Place
  BY <1>2 DEF LoopsOK, Visit, Skip, Place, Calling
<1>3. ASSUME Later
      PROVE  UNCHANGED <<g, order, Placed, Fetches>>
  BY <1>3, LaterSame DEF Placed, Fetches
<1>4. ASSUME at' = at + 1, at \in DOMAIN order, UNCHANGED order
      PROVE  Before' = Before \cup {at} /\ Behind' = Behind \cup {Todo}
  BY <1>4, <1>1 DEF Before, Behind, Todo
<1>5. ASSUME Finished PROVE Before = DOMAIN order /\ Behind = Placed
  <2>1. \A i \in DOMAIN order : i \in Nat /\ i < at
    BY <1>5, <1>1 DEF Finished
  <2> QED BY <2>1 DEF Before, Behind, Placed
<1>6. CASE Ordered
  <2>1. Before' = {}
    BY <1>1, <1>6 DEF Ordered, LoopsOK, Before
  <2> QED BY <2>1, <1>6 DEF Ordered, LoopsOK
<1>7. CASE Resolve \/ ResolveNone
  <2>1. /\ UNCHANGED <<g, stage, realized, result, order>> /\ stage = "resolve"
        /\ Before' = Before \cup {at} /\ urls \subseteq urls'
        /\ Todo \in Fetches => Todo \in urls'
    BY <1>4, <1>7 DEF Resolve, ResolveNone, Is, Fetches
  <2>2. Fetches' = Fetches
    BY <1>3, <1>7 DEF Later
  <2> QED BY <2>1, <2>2 DEF LoopsOK, Todo
<1>8. CASE ResolveFails
  BY <1>8 DEF ResolveFails, LoopsOK, StoreAfterUrls
<1>9. CASE Resolved
  <2>1. Fetches \subseteq urls
    BY <1>5, <1>9 DEF Resolved, LoopsOK, Fetches, Placed
  <2>2. Fetches' = Fetches
    BY <1>3, <1>9 DEF Later
  <2> QED BY <2>1, <2>2, <1>9 DEF Resolved, LoopsOK
<1>10. CASE Invalid \/ Preview
  BY <1>10 DEF Invalid, Preview, LoopsOK, StoreAfterUrls
<1>11. CASE OpenSession
  <2>1. Behind' = {}
    BY <1>1, <1>11 DEF OpenSession, Before, Behind
  <2>2. Fetches' = Fetches
    BY <1>3, <1>11 DEF Later
  <2> QED BY <2>1, <2>2, <1>11 DEF OpenSession, LoopsOK
<1>12. CASE Realize \/ RealizeNone
  <2>1. /\ UNCHANGED <<g, at, urls, result, order>> /\ stage = "realize" /\ stage' = "record"
        /\ at \in DOMAIN order /\ Todo' = Todo /\ Behind' = Behind
        /\ realized' = realized \cup (IF g.builder[Todo] \in Stored THEN {Todo} ELSE {})
    BY <1>12 DEF Realize, RealizeNone, Is, Todo, Behind, Before
  <2>2. Fetches' = Fetches
    BY <1>3, <1>12 DEF Later
  <2> QED BY <2>1, <2>2 DEF LoopsOK
<1>13. CASE RealizeFails
  BY <1>13 DEF RealizeFails, LoopsOK, StoreAfterUrls, Fetches, Placed
<1>14. CASE Record
  <2>1. /\ UNCHANGED <<g, urls, realized, result>> /\ stage = "record" /\ stage' = "realize"
        /\ at' = at + 1 /\ at \in DOMAIN order /\ UNCHANGED order
    BY <1>14 DEF Record, LoopsOK
  <2>2. Behind' = Behind \cup {Todo}
    BY <2>1, <1>4
  <2>3. Fetches' = Fetches
    BY <1>3, <1>14 DEF Later
  <2> QED BY <2>1, <2>2, <2>3 DEF LoopsOK
<1>15. CASE EngineDone
  <2>1. realized = {d \in Placed : g.builder[d] \in Stored}
    BY <1>5, <1>15 DEF EngineDone, LoopsOK
  <2> QED BY <2>1, <1>15 DEF EngineDone, LoopsOK, StoreAfterUrls, Fetches, Placed
<1>16. CASE UNCHANGED vars
  BY <1>16 DEF vars, LoopsOK, Before, Behind, Todo, Fetches, Placed, StoreAfterUrls
<1> QED
  BY <1>2, <1>6, <1>7, <1>8, <1>9, <1>10, <1>11, <1>12, <1>13, <1>14, <1>15, <1>16 DEF Next

LEMMA LoopsInit == Init => LoopsOK
  BY DEF Init, LoopsOK

LEMMA LoopsAlways == Spec => [](Inv /\ TypeOK /\ LoopsOK)
<1>1. Inv => TypeOK
  BY DEF Inv, OInv
<1> QED BY <1>1, InvInit, InvNext, LoopsInit, LoopsNext, PTL DEF Spec

(* apply, libs/kuli-bp/src/apply.cpp: no file of a blueprint is put in the  *)
(* store before every url is resolved, and a reported success has the whole *)
(* plan.                                                                    *)
THEOREM StoreAlwaysAfterUrls == Spec => []StoreAfterUrls
<1>1. TypeOK /\ LoopsOK => StoreAfterUrls
  BY DEF TypeOK, LoopsOK, StoreAfterUrls, Fetches
<1> QED BY <1>1, LoopsAlways, PTL

-----------------------------------------------------------------------------
(* The session: what is before `at` has a record, written or lost.          *)
SessionOK ==
    /\ stage \in {"order", "resolve", "validate"} => steps = {} /\ dropped = {} /\ summary = "none"
    /\ stage \in {"realize", "record"} => steps \cup dropped = Behind /\ summary = "none"
    /\ stage = "done" => EvidenceTrue

LEMMA SessionTrue == TypeOK /\ LoopsOK /\ SessionOK => EvidenceTrue
<1> SUFFICES ASSUME TypeOK, LoopsOK, SessionOK PROVE EvidenceTrue
  OBVIOUS
<1>1. CASE stage \in {"order", "resolve", "validate"}
  BY <1>1 DEF LoopsOK, SessionOK, EvidenceTrue
<1>2. CASE stage = "realize"
  BY <1>2 DEF LoopsOK, SessionOK, EvidenceTrue
<1>3. CASE stage = "record"
  BY <1>3 DEF LoopsOK, SessionOK, EvidenceTrue
<1>4. CASE stage = "done"
  BY <1>4 DEF SessionOK
<1> QED BY <1>1, <1>2, <1>3, <1>4 DEF TypeOK

LEMMA SessionNext == TypeOK /\ LoopsOK /\ SessionOK /\ [Next]_vars => SessionOK'
<1> SUFFICES ASSUME TypeOK, LoopsOK, SessionOK, [Next]_vars PROVE SessionOK'
  OBVIOUS
<1>1. order \in Seq(Hashes) /\ at \in Nat \ {0}
  BY DEF TypeOK
<1>2. CASE \/ Visit \/ Skip \/ Place \/ Ordered \/ Resolve \/ ResolveNone \/ Resolved
  BY <1>2 DEF Visit, Skip, Place, Calling, Ordered, Resolve, ResolveNone, Resolved, SessionOK, session
<1>3. CASE ResolveFails \/ Invalid \/ Preview
  <2>1. /\ stage' = "done" /\ UNCHANGED <<g, realized, steps, dropped>>
        /\ realized = {} /\ steps = {} /\ dropped = {} /\ summary' \in {"none", "dry-run"}
    BY <1>3 DEF ResolveFails, Invalid, Preview, LoopsOK, SessionOK, session
  <2> QED BY <2>1 DEF SessionOK, EvidenceTrue
<1>4. CASE OpenSession
  <2>1. Behind' = {} /\ steps' = {} /\ dropped' = {} /\ summary' = "none" /\ stage' = "realize"
    BY <1>1, <1>4 DEF OpenSession, Before, Behind, SessionOK, session
  <2> QED BY <2>1 DEF SessionOK
<1>5. CASE Realize \/ RealizeNone
  BY <1>5 DEF Realize, RealizeNone, SessionOK, session, Behind, Before
<1>6. CASE RealizeFails
  <2>1. EvidenceTrue /\ stage = "realize" /\ ~ g.dry /\ summary = "none"
    BY <1>6, SessionTrue DEF RealizeFails, LoopsOK, SessionOK
  <2> QED BY <2>1, <1>6 DEF RealizeFails, SessionOK, EvidenceTrue, Placed, session
<1>7. CASE Record
  <2>1. /\ stage = "record" /\ stage' = "realize" /\ summary' = "none"
        /\ (steps \cup dropped)' = Behind \cup {Todo}
    BY <1>7 DEF Record, SessionOK
  <2>2. at \in DOMAIN order /\ UNCHANGED order /\ at' = at + 1
    BY <1>7 DEF Record, LoopsOK
  <2>3. Behind' = Behind \cup {Todo}
    BY <2>2, <1>1 DEF Behind, Before, Todo
  <2> QED BY <2>1, <2>3 DEF SessionOK
<1>8. CASE EngineDone
  <2>1. steps \cup dropped = Behind /\ ~ g.dry /\ stage = "realize"
    BY <1>8 DEF EngineDone, LoopsOK, SessionOK
  <2>2. Behind = Placed
    <3>1. \A i \in DOMAIN order : i \in Nat /\ i < at
      BY <1>8, <1>1 DEF EngineDone, Finished
    <3> QED BY <3>1 DEF Before, Behind, Placed
  <2>3. realized = {d \in Placed : g.builder[d] \in Stored}
    BY <2>1, <2>2 DEF LoopsOK
  <2> QED BY <2>1, <2>2, <2>3, <1>8 DEF EngineDone, SessionOK, EvidenceTrue, Placed
<1>9. CASE UNCHANGED vars
  BY <1>9 DEF vars, session, SessionOK, EvidenceTrue, Behind, Before, Placed, Todo
<1> QED BY <1>2, <1>3, <1>4, <1>5, <1>6, <1>7, <1>8, <1>9 DEF Next

(* Engine::execute, libs/kuli-engine/src/engine.cpp: for every plan, order  *)
(* and loss of writes, the evidence session is true to the store.           *)
THEOREM EvidenceAlwaysTrue == Spec => []EvidenceTrue
<1>1. Init => SessionOK
  BY DEF Init, SessionOK
<1> QED BY <1>1, LoopsAlways, SessionNext, SessionTrue, PTL DEF Spec
=============================================================================
