\* Every graph of four derivations, and documents of up to three.
CONSTANTS
  d1 = d1  d2 = d2  d3 = d3  d4 = d4
  Hashes = {d1, d2, d3, d4}
  Graphs <- MCGraphs
SPECIFICATION Spec
INVARIANTS ChildrenFirst PlanIsReach StoreAfterUrls EvidenceTrue
\* An apply ends with its result.
CHECK_DEADLOCK FALSE
