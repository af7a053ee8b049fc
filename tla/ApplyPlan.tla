----------------------------- MODULE ApplyPlan ------------------------------
(* From the graph of derivations to the store (libs/kuli-bp/src/adapter.cpp, *)
(* resolver.cpp; libs/kuli-ir/src/validate.cpp; libs/kuli-engine/src/        *)
(* engine.cpp): dfs() orders what the root reaches, children first;          *)
(* resolve_urls() finds the release asset of every fetch; validate() checks  *)
(* the document; the engine realizes the derivations in that order and       *)
(* writes what it did to an evidence session.  The first failure ends the    *)
(* apply.  A document may also come from a file (`kuli ir`): then it starts  *)
(* at the validation, with the order and the urls somebody wrote down.       *)
EXTENDS Naturals, Sequences

CONSTANTS Hashes,  \* derivation hashes
          Graphs   \* the graphs and documents to apply

Builders == {"fetch", "scripture", "composite", "withFiles"}
Graph == [nodes : SUBSET Hashes, root : Hashes, dry : BOOLEAN,
          builder : [Hashes -> Builders], children : [Hashes -> Seq(Hashes)],
          sound : SUBSET Hashes,  \* with the fields their builder asks for
          doc : BOOLEAN,          \* a document: plan and urls are as given
          plan : Seq(Hashes), urls : SUBSET Hashes]

ChildSet(gr, d) == {gr.children[d][i] : i \in DOMAIN gr.children[d]}

(* What evaluation hands over (Evaluation, GraphSound): the root is a node, *)
(* children are nodes, and no set of nodes is without a node that has no    *)
(* child in it.  Only composites and withFiles have children; the builders  *)
(* check their fields.                                                      *)
WellFormed(gr) ==
    /\ gr.root \in gr.nodes
    /\ \A d \in gr.nodes : ChildSet(gr, d) \subseteq gr.nodes
    /\ \A S \in SUBSET gr.nodes : S # {} => \E d \in S : ChildSet(gr, d) \cap S = {}
    /\ \A d \in gr.nodes : gr.builder[d] \in {"fetch", "scripture"} => gr.children[d] = <<>>
    /\ gr.nodes \subseteq gr.sound /\ gr.plan = <<>> /\ gr.urls = {}

ASSUME ApplyPlanAssumption ==
    Graphs \subseteq Graph /\ \A gr \in Graphs : gr.doc \/ WellFormed(gr)

VARIABLES g,         \* the graph
          stage,     \* order, resolve, validate, realize, record, done
          calls,     \* the calls of dfs in progress: the node, its next child
          seen,      \* the hashes dfs was called with
          order,     \* node.derivations of the IR
          at,        \* the derivation to resolve or to realize next
          urls,      \* the fetches with a resolved url
          realized,  \* the derivations in the store
          steps,     \* the session: those with a record of their own,
          dropped,   \* those whose record could not be written,
          summary,   \* and what summary.md says, if it is there
          result     \* "none", or the outcome

session == <<steps, dropped, summary>>
vars == <<g, stage, calls, seen, order, at, urls, realized, session, result>>

TypeOK ==
    /\ g \in Graphs
    /\ stage \in {"order", "resolve", "validate", "realize", "record", "done"}
    /\ calls \in Seq([node : Hashes, next : Nat])
    /\ seen \subseteq Hashes
    /\ order \in Seq(Hashes)
    /\ at \in Nat \ {0}
    /\ urls \subseteq Hashes
    /\ realized \subseteq Hashes
    /\ steps \subseteq Hashes /\ dropped \subseteq Hashes
    /\ summary \in {"none", "dry-run", "run"}
    /\ result \in {"none", "preview", "unresolved", "invalid", "failed", "ok"}

Enter(d) == [node |-> d, next |-> 1]

Init ==
    /\ g \in Graphs
    /\ \/ /\ ~ g.doc /\ stage = "order"
          /\ calls = <<Enter(g.root)>> /\ seen = {g.root}
       \/ /\ g.doc /\ stage = "validate"
          /\ calls = <<>> /\ seen = {}
    /\ order = g.plan /\ urls = g.urls
    /\ at = 1 /\ realized = {}
    /\ steps = {} /\ dropped = {} /\ summary = "none"
    /\ result = "none"

-----------------------------------------------------------------------------
(* dfs(): the call on top looks at its next child, or places its node.      *)
top      == calls[Len(calls)]
Kids     == g.children[top.node]
HasChild == top.next \in DOMAIN Kids
Child    == Kids[top.next]
Calling  == stage = "order" /\ calls # <<>>
Proceed  == [calls EXCEPT ![Len(calls)].next = @ + 1]

(* Mutant: nothing is remembered as seen.                                   *)
VisitUnseen ==
    /\ Calling /\ HasChild /\ Child \notin {calls[i].node : i \in DOMAIN calls}
    /\ seen' = seen \cup {Child}
    /\ calls' = Append(Proceed, Enter(Child))
    /\ UNCHANGED <<g, stage, order, at, urls, realized, session, result>>

Visit ==
    /\ Calling /\ HasChild /\ Child \notin seen
    /\ seen' = seen \cup {Child}
    /\ calls' = Append(Proceed, Enter(Child))
    /\ UNCHANGED <<g, stage, order, at, urls, realized, session, result>>

Skip ==
    /\ Calling /\ HasChild /\ Child \in seen
    /\ calls' = Proceed
    /\ UNCHANGED <<g, stage, seen, order, at, urls, realized, session, result>>

(* Mutant: dependencies only, without the root.                             *)
PlaceBelow ==
    /\ Calling /\ ~ HasChild
    /\ order' = IF Len(calls) > 1 THEN Append(order, top.node) ELSE order
    /\ calls' = SubSeq(calls, 1, Len(calls) - 1)
    /\ UNCHANGED <<g, stage, seen, at, urls, realized, session, result>>

Place ==
    /\ Calling /\ ~ HasChild
    /\ order' = Append(order, top.node)
    /\ calls' = SubSeq(calls, 1, Len(calls) - 1)
    /\ UNCHANGED <<g, stage, seen, at, urls, realized, session, result>>

(* A dry run needs no urls.                                                 *)
Ordered ==
    /\ stage = "order" /\ calls = <<>>
    /\ stage' = IF g.dry THEN "validate" ELSE "resolve"
    /\ UNCHANGED <<g, calls, seen, order, at, urls, realized, session, result>>

-----------------------------------------------------------------------------
(* The derivation the loops of resolve_urls() and of the engine are at.     *)
Todo     == order[at]
Is(S)    == at \in DOMAIN order /\ g.builder[Todo] \in S
Finished == at \notin DOMAIN order
Placed   == {order[i] : i \in DOMAIN order}

(* The engine refuses a fetch without a url (E0501), and the store may fail *)
(* on anything it has to put on disk; composites and withFiles put nothing. *)
Stored == {"fetch", "scripture"}

Resolve ==
    /\ stage = "resolve" /\ Is({"fetch"})
    /\ urls' = urls \cup {Todo} /\ at' = at + 1
    /\ UNCHANGED <<g, stage, calls, seen, order, realized, session, result>>

ResolveFails ==
    /\ stage = "resolve" /\ Is({"fetch"})
    /\ stage' = "done" /\ result' = "unresolved"
    /\ UNCHANGED <<g, calls, seen, order, at, urls, realized, session>>

ResolveNone ==
    /\ stage = "resolve" /\ Is(Builders \ {"fetch"})
    /\ at' = at + 1
    /\ UNCHANGED <<g, stage, calls, seen, order, urls, realized, session, result>>

Resolved ==
    /\ stage = "resolve" /\ Finished
    /\ stage' = "validate"
    /\ UNCHANGED <<g, calls, seen, order, at, urls, realized, session, result>>

(* validate_apply_derivation: every derivation has its fields, and what one *)
(* refers to is in the document, the root too.                              *)
Valid ==
    /\ Placed \subseteq g.sound
    /\ \A d \in Placed : ChildSet(g, d) \subseteq Placed
    /\ g.root \in Placed

Invalid ==
    /\ stage = "validate" /\ ~ Valid
    /\ stage' = "done" /\ result' = "invalid"
    /\ UNCHANGED <<g, calls, seen, order, at, urls, realized, session>>

(* The session is opened; a dry run writes its summary and ends.            *)
Preview ==
    /\ stage = "validate" /\ Valid /\ g.dry
    /\ summary' \in {"dry-run", "none"}
    /\ stage' = "done" /\ result' = "preview"
    /\ UNCHANGED <<g, calls, seen, order, at, urls, realized, steps, dropped>>

(* Mutant: a dry run realizes too.                                          *)
OpenAlways ==
    /\ stage = "validate" /\ Valid
    /\ stage' = "realize" /\ at' = 1
    /\ UNCHANGED <<g, calls, seen, order, urls, realized, session, result>>

OpenSession ==
    /\ stage = "validate" /\ Valid /\ ~ g.dry
    /\ stage' = "realize" /\ at' = 1
    /\ UNCHANGED <<g, calls, seen, order, urls, realized, session, result>>

HasUrl == g.builder[Todo] = "fetch" => Todo \in urls

Realize ==
    /\ stage = "realize" /\ Is(Stored) /\ HasUrl
    /\ realized' = realized \cup {Todo} /\ stage' = "record"
    /\ UNCHANGED <<g, calls, seen, order, at, urls, session, result>>

(* Mutant: a failure does not end the loop.                                 *)
RealizeSkips ==
    /\ stage = "realize" /\ Is(Stored)
    /\ stage' = "record"
    /\ UNCHANGED <<g, calls, seen, order, at, urls, realized, session, result>>

(* Nothing of a derivation that failed is recorded, nor the end of the run. *)
RealizeFails ==
    /\ stage = "realize" /\ Is(Stored)
    /\ stage' = "done" /\ result' = "failed"
    /\ UNCHANGED <<g, calls, seen, order, at, urls, realized, session>>

RealizeNone ==
    /\ stage = "realize" /\ Is(Builders \ Stored)
    /\ stage' = "record"
    /\ UNCHANGED <<g, calls, seen, order, at, urls, realized, session, result>>

(* steps/<n>.json: nobody looks at whether it could be written.             *)
Record ==
    /\ stage = "record" /\ at \in DOMAIN order
    /\ \/ steps' = steps \cup {Todo} /\ UNCHANGED dropped
       \/ dropped' = dropped \cup {Todo} /\ UNCHANGED steps
    /\ at' = at + 1 /\ stage' = "realize"
    /\ UNCHANGED <<g, calls, seen, order, urls, realized, summary, result>>

EngineDone ==
    /\ stage = "realize" /\ Finished
    /\ summary' \in {"run", "none"}
    /\ stage' = "done" /\ result' = "ok"
    /\ UNCHANGED <<g, calls, seen, order, at, urls, realized, steps, dropped>>

Next == \/ Visit \/ Skip \/ Place \/ Ordered
        \/ Resolve \/ ResolveFails \/ ResolveNone \/ Resolved
        \/ Invalid \/ Preview \/ OpenSession
        \/ Realize \/ RealizeFails \/ RealizeNone \/ Record \/ EngineDone

Spec == Init /\ [][Next]_vars

-----------------------------------------------------------------------------
(* Properties.                                                              *)

(* "Dependencies before dependents, deduplicated" (adapter.cpp): a          *)
(* derivation of a blueprint is placed once, after all its children (in a   *)
(* well-typed state).                                                       *)
ChildrenFirst ==
    /\ TypeOK
    /\ ~ g.doc =>
          /\ \A i, j \in DOMAIN order : order[i] = order[j] => i = j
          /\ \A i \in DOMAIN order : \A c \in ChildSet(g, order[i]) :
                \E j \in 1 .. i - 1 : order[j] = c

(* The plan of a blueprint is what the root reaches: the least set of nodes *)
(* with the root that is closed under children. So the validator, which     *)
(* looks each reference up in the document, never refuses it.               *)
PlanIsReach ==
    ~ g.doc =>
       /\ \A S \in SUBSET g.nodes :
             g.root \in S /\ (\A d \in S : ChildSet(g, d) \subseteq S) => Placed \subseteq S
       /\ calls = <<>> => g.root \in Placed /\ \A d \in Placed : ChildSet(g, d) \subseteq Placed
       /\ result # "invalid"

(* Nothing of a blueprint is put on disk before every url is known, and an  *)
(* apply reported as done has every derivation of its plan that leaves      *)
(* files in the store.                                                      *)
StoreAfterUrls ==
    /\ ~ g.doc /\ realized # {} => \A d \in Placed : g.builder[d] = "fetch" => d \in urls
    /\ result = "ok" => realized = {d \in Placed : g.builder[d] \in Stored}

(* The session is true to the store, whatever of it could not be written: a *)
(* record is never ahead of what was realized, and behind by the derivation *)
(* in hand alone; the summary of a run stands for a whole plan, and after a *)
(* dry run there is nothing outside the session ("nothing written outside   *)
(* this session", engine.cpp).                                              *)
EvidenceTrue ==
    /\ \A d \in steps \cup dropped : g.builder[d] \in Stored => d \in realized
    /\ \A d \in realized : d \in steps \cup dropped \/ (stage = "record" /\ d = Todo)
    /\ summary = "run" => Placed = steps \cup dropped
    /\ summary = "dry-run" \/ g.dry => realized = {} /\ steps = {}

=============================================================================
