--------------------------- MODULE GenerationLog ----------------------------
(***************************************************************************)
(* What libs/kuli-bp promises about generations, with no steps inside: a    *)
(* history to which complete manifests are only ever appended, each with a  *)
(* greater id than all before it and the generation it was made from as its *)
(* parent, and a pointer to one of them.                                    *)
(***************************************************************************)
EXTENDS Naturals

CONSTANTS MaxGen,      \* greatest id
          Manifests,   \* what a generation may say, its parent among it
          None         \* no generation with this id

VARIABLES hist,        \* the manifest with each id
          current      \* the id the profile is at, 0 for none

Ids  == 1 .. MaxGen
Init == hist = [i \in Ids |-> None] /\ current = 0

Append(i) ==
    /\ \A j \in Ids : hist[j] # None => j < i
    /\ hist'[i] \in Manifests
    /\ hist'[i].parent = current
    /\ hist' = [hist EXCEPT ![i] = hist'[i]]
    /\ UNCHANGED current

Select(i) == hist[i] # None /\ current' = i /\ UNCHANGED hist

(* The file `current` is truncated before it is written.                    *)
Lose == current' = 0 /\ UNCHANGED hist

Next == (\E i \in Ids : Append(i) \/ Select(i)) \/ Lose

Spec == Init /\ [][Next]_<<hist, current>>
=============================================================================
