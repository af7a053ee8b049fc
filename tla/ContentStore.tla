---------------------------- MODULE ContentStore ----------------------------
(***************************************************************************)
(* What libs/kuli-store promises its callers, with no steps inside: a      *)
(* family of write-once registers.  A store path holds nothing until some  *)
(* request for it succeeds, then the requested content, for ever.          *)
(***************************************************************************)
CONSTANTS Paths,      \* store path names, <hash16>-<name>
          Contents,   \* archive hashes (or derivation hashes for scriptures)
          Requests,   \* the (path, content) pairs callers ask for
          None        \* an empty register

VARIABLE stored       \* what each path durably holds

Init == stored = [x \in Paths |-> None]

(* A request for an empty path fills it with exactly what was asked for.   *)
Realize(r) == /\ stored[r.path] = None
              /\ stored' = [stored EXCEPT ![r.path] = r.content]

Next == \E r \in Requests : Realize(r)

Spec == Init /\ [][Next]_stored
=============================================================================
